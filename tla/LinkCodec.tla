------------------------------ MODULE LinkCodec -------------------------------
(***************************************************************************)
(* The frames of the motor link (motor_link.c) and of the HIL link         *)
(* (hil_link.c): what their encoders write and their decoders accept, byte *)
(* by byte, since the properties are about layouts that two functions must *)
(* share and about damage that a CRC must notice.                          *)
(*                                                                         *)
(* Every field is a tuple of words of 1, 2 or 4 bytes: an array has several,*)
(* a 64-bit number has its low and its high half, and a float is its bits. *)
(* A word of 4 bytes is the int32_t with the same bits.                    *)
(***************************************************************************)
EXTENDS Integers, Sequences

\* uint8_t, uint16_t and, for 32 bits of any type, int32_t
Word(width) ==
    CASE width = 1 -> 0..(2 ^ 8 - 1)
      [] width = 2 -> 0..(2 ^ 16 - 1)
      [] width = 4 -> LET highest == 2 ^ 30 - 1 + 2 ^ 30 IN (-1 - highest)..highest

Kind == {"command", "telemetry", "sensor_guidance", "flight_output"}

HeaderSize == 10
CrcSize == 2
Version == 1

\* 'A' and 'F' on the motor link, 'A' and 'H' on the HIL link
Magic(kind) == <<65, IF kind \in {"command", "telemetry"} THEN 70 ELSE 72>>

TypeCode == [command |-> 1, telemetry |-> 2, sensor_guidance |-> 1, flight_output |-> 2]

PayloadSize ==
    [command |-> 16, telemetry |-> 28, sensor_guidance |-> 96, flight_output |-> 112]

FrameSize(kind) == HeaderSize + PayloadSize[kind] + CrcSize

-----------------------------------------------------------------------------
(* Words and the CRC *)

\* put_u16, put_u32: the lowest byte first
Put(word, width) == [k \in 1..width |-> (word \div 2 ^ (8 * (k - 1))) % 256]

\* get_u16, get_u32; the cast to int32_t gives the top byte its sign
Get(bytes) ==
    LET width == Len(bytes)
        from[k \in 1..width] ==
            IF k < width THEN bytes[k] + 256 * from[k + 1]
            ELSE IF width = 4 /\ bytes[k] > 127 THEN bytes[k] - 256 ELSE bytes[k]
    IN from[1]

\* The bits of a frame are numbered in the order in which the CRC sees them,
\* the highest of a byte first: the byte of a bit, and its weight there.
PlaceOf(bit) == (bit + 7) \div 8
WeightOf(bit) == 2 ^ ((8 - (bit % 8)) % 8)

BitOf(data, bit) == (data[PlaceOf(bit)] \div WeightOf(bit)) % 2

\* The polynomial 0x1021, bits 0, 5 and 12, is subtracted when a one leaves.
ShiftIn(crc, bit) ==
    LET shifted == (2 * crc) % 65536
        toggle(b) == IF (shifted \div b) % 2 = 1 THEN -b ELSE b
    IN IF (crc \div 32768 + bit) % 2 = 0 THEN shifted
       ELSE shifted + 1 + toggle(32) + toggle(4096)

\* asr_fc_motor_link_crc16.  A byte is added to the top of the register, which
\* shifts eight times: the same as shifting its bits in, the highest first.
ByteIn(byte) ==
    [crc \in Word(2) |->
        LET after[k \in 0..8] ==
                IF k = 0 THEN crc ELSE ShiftIn(after[k - 1], (byte \div 2 ^ (8 - k)) % 2)
        IN after[8]]

Crc16(data, size) ==
    LET through[n \in 0..size] ==
            IF n = 0 THEN 65535 ELSE ByteIn(data[n])[through[n - 1]]
    IN through[size]

-----------------------------------------------------------------------------
(* What encoders and decoders accept: the helpers are shared, the limits not *)

Finite(float) == (float \div 8388608) % 256 # 255

\* Not negative; minus zero is not.
NonNegative(float) == float >= 0 \/ float = -1 - 2147483647

AllFinite(floats) == \A i \in DOMAIN floats : Finite(floats[i])

\* The square of a float in quarters: of 0, 0.5, 1 and their negatives, beside
\* which messages hold only values whose square is lost in a sum of these.
Quarters(float) ==
    CASE float % 8388608 = 0 /\ (float \div 8388608) % 256 = 127 -> 4
      [] float % 8388608 = 0 /\ (float \div 8388608) % 256 = 126 -> 1
      [] OTHER -> 0

\* valid_quaternion: finite, and the squared norm between 0.81 and 1.21
ValidQuaternion(q) ==
    /\ AllFinite(q)
    /\ LET norm == Quarters(q[1]) + Quarters(q[2]) + Quarters(q[3]) + Quarters(q[4])
       IN 100 * norm > 4 * 81 /\ 100 * norm < 4 * 121

ValidCommand(v) ==
    /\ v.throttle_q15[1] <= 32767 /\ v.motor_index[1] < 4
    /\ v.command_timeout_ms[1] # 0 /\ v.heartbeat_timeout_ms[1] # 0

ValidTelemetry(v) == v.motor_index[1] < 4 /\ v.duty_q15[1] <= 32767

ValidSensorGuidance(v) ==
    /\ v.session_id # <<0>> /\ v.sensor_timestamp_us # <<0, 0>>
    /\ v.sensor_accuracy[1] <= 3
    /\ ValidQuaternion(v.quaternion) /\ ValidQuaternion(v.guidance_quaternion)
    /\ AllFinite(v.angular_rate) /\ AllFinite(v.linear_acceleration)
    /\ AllFinite(v.guidance_angular_rate) /\ AllFinite(v.collective_thrust_n)
    /\ NonNegative(v.collective_thrust_n[1])

ValidFlightOutput(v) ==
    /\ v.session_id # <<0>> /\ v.acknowledged_sequence # <<0>>
    /\ v.flight_state[1] <= 2 /\ v.step_result[1] <= 9
    /\ AllFinite(v.motor_speed_rad_s) /\ AllFinite(v.body_torque_nm)
    /\ AllFinite(v.collective_thrust_n) /\ NonNegative(v.collective_thrust_n[1])
    /\ ValidQuaternion(v.observed_quaternion)
    /\ AllFinite(v.observed_angular_rate) /\ AllFinite(v.observed_linear_acceleration)
    /\ \A i \in 1..4 : v.motor_q15[i] <= 32767 /\ NonNegative(v.motor_speed_rad_s[i])

\* What an encoder checks before it writes.
Encodable(kind, v) ==
    CASE kind = "command"         -> ValidCommand(v)
      [] kind = "telemetry"       -> ValidTelemetry(v)
      [] kind = "sensor_guidance" -> ValidSensorGuidance(v)
      [] kind = "flight_output"   -> ValidFlightOutput(v)

\* Mutation: the decoder of a command takes full throttle for too much.
AcceptedCommandBelowFull(v) ==
    /\ v.armed[1] <= 1 /\ v.motor_index[1] < 4 /\ v.throttle_q15[1] < 32767
    /\ v.command_timeout_ms[1] # 0 /\ v.heartbeat_timeout_ms[1] # 0

\* The decoders have limits of their own, and look at the byte of a bool.
AcceptedCommand(v) ==
    /\ v.armed[1] <= 1 /\ v.motor_index[1] < 4 /\ v.throttle_q15[1] <= 32767
    /\ v.command_timeout_ms[1] # 0 /\ v.heartbeat_timeout_ms[1] # 0

AcceptedTelemetry(v) == v.motor_index[1] < 4 /\ v.duty_q15[1] <= 32767

AcceptedSensorGuidance(v) ==
    /\ v.arm_requested[1] <= 1
    /\ v.session_id # <<0>> /\ v.sensor_timestamp_us # <<0, 0>>
    /\ v.sensor_accuracy[1] <= 3
    /\ ValidQuaternion(v.quaternion) /\ ValidQuaternion(v.guidance_quaternion)
    /\ \A f \in {"angular_rate", "linear_acceleration", "guidance_angular_rate",
                 "collective_thrust_n"} : AllFinite(v[f])
    /\ NonNegative(v.collective_thrust_n[1])

AcceptedFlightOutput(v) ==
    /\ v.session_id # <<0>> /\ v.acknowledged_sequence # <<0>>
    /\ v.flight_state[1] <= 2 /\ v.step_result[1] <= 9
    /\ \A f \in {"motor_speed_rad_s", "body_torque_nm", "collective_thrust_n",
                 "observed_angular_rate", "observed_linear_acceleration"} : AllFinite(v[f])
    /\ NonNegative(v.collective_thrust_n[1])
    /\ ValidQuaternion(v.observed_quaternion)
    /\ \A i \in 1..4 : v.motor_q15[i] <= 32767 /\ NonNegative(v.motor_speed_rad_s[i])

\* What a decoder checks after it has read.
Acceptable(kind, v) ==
    CASE kind = "command"         -> AcceptedCommand(v)
      [] kind = "telemetry"       -> AcceptedTelemetry(v)
      [] kind = "sensor_guidance" -> AcceptedSensorGuidance(v)
      [] kind = "flight_output"   -> AcceptedFlightOutput(v)

-----------------------------------------------------------------------------
(* Layouts: the offset in the payload, the width and the number of words *)

Field(at, width, count) == [at |-> at, width |-> width, count |-> count]

CommandWritten ==
    [motor_index |-> Field(0, 1, 1), armed |-> Field(1, 1, 1), flags |-> Field(2, 2, 1),
     throttle_q15 |-> Field(4, 2, 1), session_id |-> Field(8, 4, 1),
     command_timeout_ms |-> Field(12, 2, 1), heartbeat_timeout_ms |-> Field(14, 2, 1)]

CommandRead ==
    [motor_index |-> Field(0, 1, 1), armed |-> Field(1, 1, 1), flags |-> Field(2, 2, 1),
     throttle_q15 |-> Field(4, 2, 1), session_id |-> Field(8, 4, 1),
     command_timeout_ms |-> Field(12, 2, 1), heartbeat_timeout_ms |-> Field(14, 2, 1)]

TelemetryWritten ==
    [motor_index |-> Field(0, 1, 1), motor_mode |-> Field(1, 1, 1),
     fault_flags |-> Field(4, 4, 1), bus_voltage_mv |-> Field(8, 4, 1),
     dc_current_ma |-> Field(12, 4, 1), electrical_period_us |-> Field(16, 4, 1),
     duty_q15 |-> Field(20, 2, 1), acknowledged_sequence |-> Field(24, 4, 1)]

TelemetryRead ==
    [motor_index |-> Field(0, 1, 1), motor_mode |-> Field(1, 1, 1),
     fault_flags |-> Field(4, 4, 1), bus_voltage_mv |-> Field(8, 4, 1),
     dc_current_ma |-> Field(12, 4, 1), electrical_period_us |-> Field(16, 4, 1),
     duty_q15 |-> Field(20, 2, 1), acknowledged_sequence |-> Field(24, 4, 1)]

SensorGuidanceWritten ==
    [session_id |-> Field(0, 4, 1), host_timestamp_us |-> Field(4, 4, 2),
     sensor_timestamp_us |-> Field(12, 4, 2), arm_requested |-> Field(20, 1, 1),
     sensor_accuracy |-> Field(21, 1, 1), quaternion |-> Field(24, 4, 4),
     angular_rate |-> Field(40, 4, 3), linear_acceleration |-> Field(52, 4, 3),
     guidance_quaternion |-> Field(64, 4, 4), guidance_angular_rate |-> Field(80, 4, 3),
     collective_thrust_n |-> Field(92, 4, 1)]

SensorGuidanceRead ==
    [session_id |-> Field(0, 4, 1), host_timestamp_us |-> Field(4, 4, 2),
     sensor_timestamp_us |-> Field(12, 4, 2), arm_requested |-> Field(20, 1, 1),
     sensor_accuracy |-> Field(21, 1, 1), quaternion |-> Field(24, 4, 4),
     angular_rate |-> Field(40, 4, 3), linear_acceleration |-> Field(52, 4, 3),
     guidance_quaternion |-> Field(64, 4, 4), guidance_angular_rate |-> Field(80, 4, 3),
     collective_thrust_n |-> Field(92, 4, 1)]

FlightOutputWritten ==
    [session_id |-> Field(0, 4, 1), acknowledged_sequence |-> Field(4, 4, 1),
     device_timestamp_us |-> Field(8, 4, 2), execution_time_us |-> Field(16, 4, 1),
     fault_flags |-> Field(20, 4, 1), active_aiding_mask |-> Field(24, 4, 1),
     step_result |-> Field(28, 1, 1), flight_state |-> Field(29, 1, 1),
     motor_q15 |-> Field(32, 2, 4), motor_speed_rad_s |-> Field(40, 4, 4),
     body_torque_nm |-> Field(56, 4, 3), collective_thrust_n |-> Field(68, 4, 1),
     observed_quaternion |-> Field(72, 4, 4), observed_angular_rate |-> Field(88, 4, 3),
     observed_linear_acceleration |-> Field(100, 4, 3)]

FlightOutputRead ==
    [session_id |-> Field(0, 4, 1), acknowledged_sequence |-> Field(4, 4, 1),
     device_timestamp_us |-> Field(8, 4, 2), execution_time_us |-> Field(16, 4, 1),
     fault_flags |-> Field(20, 4, 1), active_aiding_mask |-> Field(24, 4, 1),
     step_result |-> Field(28, 1, 1), flight_state |-> Field(29, 1, 1),
     motor_q15 |-> Field(32, 2, 4), motor_speed_rad_s |-> Field(40, 4, 4),
     body_torque_nm |-> Field(56, 4, 3), collective_thrust_n |-> Field(68, 4, 1),
     observed_quaternion |-> Field(72, 4, 4), observed_angular_rate |-> Field(88, 4, 3),
     observed_linear_acceleration |-> Field(100, 4, 3)]

Written ==
    [command |-> CommandWritten, telemetry |-> TelemetryWritten,
     sensor_guidance |-> SensorGuidanceWritten, flight_output |-> FlightOutputWritten]

Read ==
    [command |-> CommandRead, telemetry |-> TelemetryRead,
     sensor_guidance |-> SensorGuidanceRead, flight_output |-> FlightOutputRead]

\* The fields of a structure have the types that its header gives them.
WellTyped(kind, v) ==
    /\ v \in [DOMAIN Written[kind] -> Seq(Int)]
    /\ \A f \in DOMAIN Written[kind] :
          v[f] \in [1..Written[kind][f].count -> Word(Written[kind][f].width)]

-----------------------------------------------------------------------------
(* Encoders and decoders *)

\* The byte of a payload at an offset, of the field that lies there, else 0.
PayloadByte(layout, v, offset) ==
    LET here == {f \in DOMAIN layout :
                    offset - layout[f].at \in 0..(layout[f].width * layout[f].count - 1)}
    IN IF here = {} THEN 0
       ELSE LET f == CHOOSE g \in here : TRUE
                n == offset - layout[f].at
                w == layout[f].width
            IN Put(v[f][(n \div w) + 1], w)[(n % w) + 1]

\* Header and payload, and finish_frame, whatever the payload says.
Pack(kind, seq, v) ==
    LET body == Magic(kind) \o <<Version, TypeCode[kind]>> \o Put(PayloadSize[kind], 2)
                  \o Put(seq, 4)
                  \o [p \in 1..PayloadSize[kind] |-> PayloadByte(Written[kind], v, p - 1)]
    IN body \o Put(Crc16(body, Len(body)), 2)

\* asr_fc_..._encode_...; on a refusal nothing is written.
Encode(kind, seq, v, capacity) ==
    CASE ~Encodable(kind, v)        -> [status |-> "INVALID_FRAME", frame |-> <<>>]
      [] capacity < FrameSize(kind) -> [status |-> "BUFFER_TOO_SMALL", frame |-> <<>>]
      [] OTHER                      -> [status |-> "OK", frame |-> Pack(kind, seq, v)]

WordsAt(frame, field) ==
    [i \in 1..field.count |->
        LET at == HeaderSize + field.at + (i - 1) * field.width
        IN Get(SubSeq(frame, at + 1, at + field.width))]

\* decode_header: complete, of this link, kind and version, and undamaged
HeaderStatus(kind, frame) ==
    LET size == Len(frame) IN
    CASE \/ size # FrameSize(kind)
         \/ SubSeq(frame, 1, 2) # Magic(kind) \/ frame[4] # TypeCode[kind]
         \/ Get(SubSeq(frame, 5, 6)) # PayloadSize[kind]      -> "INVALID_FRAME"
      [] frame[3] # Version                                   -> "VERSION_MISMATCH"
      [] Crc16(frame, size - 2) # Get(SubSeq(frame, size - 1, size))
                                                              -> "CRC_FAILURE"
      [] OTHER                                                -> "OK"

\* The cleared output structure.
Zeroed(kind) == [f \in DOMAIN Read[kind] |-> [i \in 1..Read[kind][f].count |-> 0]]

Refusal(kind, status, seq) == [status |-> status, seq |-> seq, values |-> Zeroed(kind)]

SequenceOf(frame) == Get(SubSeq(frame, 7, 10))

\* asr_fc_..._decode_...; a refused frame leaves a cleared structure, but the
\* sequence number of one whose payload is refused is handed out.
Decode(kind, frame) ==
    LET header == HeaderStatus(kind, frame)
        values == [f \in DOMAIN Read[kind] |-> WordsAt(frame, Read[kind][f])]
    IN CASE header # "OK"             -> Refusal(kind, header, 0)
         [] ~Acceptable(kind, values) -> Refusal(kind, "INVALID_FRAME", SequenceOf(frame))
         [] OTHER -> [status |-> "OK", seq |-> SequenceOf(frame), values |-> values]

=============================================================================
