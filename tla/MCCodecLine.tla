----------------------------- MODULE MCCodecLine ------------------------------
(* CodecLine for TLC: a typical message of each kind, and each message that   *)
(* differs from it in one word, which takes the values at its edges.          *)
EXTENDS CodecLine

One == 1065353216          \* 1.0f
Half == 1056964608         \* 0.5f
MinusOne == One - 2147483647 - 1
MinusZero == -1 - 2147483647
Infinity == 2139095040
NotANumber == Infinity + 1

Typical ==
    [command |->
        [motor_index |-> <<2>>, armed |-> <<1>>, flags |-> <<3>>,
         throttle_q15 |-> <<16384>>, session_id |-> <<305419896>>,
         command_timeout_ms |-> <<20>>, heartbeat_timeout_ms |-> <<100>>],
     telemetry |->
        [motor_index |-> <<1>>, motor_mode |-> <<3>>, fault_flags |-> <<34>>,
         bus_voltage_mv |-> <<24000>>, dc_current_ma |-> <<-150>>,
         electrical_period_us |-> <<1200>>, duty_q15 |-> <<10000>>,
         acknowledged_sequence |-> <<99>>],
     sensor_guidance |->
        [session_id |-> <<7>>, host_timestamp_us |-> <<9, 0>>,
         sensor_timestamp_us |-> <<8, 0>>, arm_requested |-> <<1>>,
         sensor_accuracy |-> <<3>>, quaternion |-> <<One, 0, 0, 0>>,
         angular_rate |-> <<0, Half, 0>>, linear_acceleration |-> <<0, 0, One>>,
         guidance_quaternion |-> <<Half, Half, Half, Half>>,
         guidance_angular_rate |-> <<0, 0, Half>>, collective_thrust_n |-> <<One>>],
     flight_output |->
        [session_id |-> <<7>>, acknowledged_sequence |-> <<42>>,
         device_timestamp_us |-> <<10, 0>>, execution_time_us |-> <<571>>,
         fault_flags |-> <<0>>, active_aiding_mask |-> <<0>>, step_result |-> <<0>>,
         flight_state |-> <<1>>, motor_q15 |-> <<10, 11, 12, 13>>,
         motor_speed_rad_s |-> <<One, Half, One, Half>>, body_torque_nm |-> <<0, Half, One>>,
         collective_thrust_n |-> <<One>>, observed_quaternion |-> <<0, One, 0, 0>>,
         observed_angular_rate |-> <<One, 0, 0>>,
         observed_linear_acceleration |-> <<0, One, 0>>]]

\* 1 to 4, 9 and 10 are edges of counts, 32767 of throttles; the words of two
\* and four bytes have four different ones.
Edges(width) ==
    CASE width = 1 -> {0, 1, 2, 3, 4, 9, 10, 255}
      [] width = 2 -> {0, 513, 32767, 32768, 65535}
      [] width = 4 -> {0, -1, 67305985, One, Half, MinusOne, MinusZero, Infinity, NotANumber}

Message(kind, seq, v) == [kind |-> kind, seq |-> seq, values |-> v]

Varied(kind) ==
    UNION {{Message(kind, 42, [Typical[kind] EXCEPT ![f][i] = word]) :
                i \in DOMAIN Typical[kind][f], word \in Edges(Written[kind][f].width)} :
            f \in DOMAIN Typical[kind]}

MCDamaged == {Message(kind, 42, Typical[kind]) : kind \in Kind}

MCMessages ==
    UNION {Varied(kind) : kind \in Kind} \cup MCDamaged
      \cup {Message(kind, seq, Typical[kind]) : kind \in Kind, seq \in {0, -1, 67305985}}

=============================================================================
