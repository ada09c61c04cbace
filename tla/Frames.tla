-------------------------------- MODULE Frames --------------------------------
(***************************************************************************)
(* The packets the program sends, as far as a receiver depends on their    *)
(* shape: widths of fields, the length field, the checksum of the data     *)
(* segment (protocol/hj212.cpp, protocol/hj212_builder.h,                  *)
(* protocol/protocol_process.cpp, app/regist_manage.cpp), and what becomes *)
(* of a packet in the store file.  Texts are abstracted to their lengths.  *)
(***************************************************************************)
EXTENDS Integers, SequencesExt

(* The digits of a number. *)
Digits(base, num) ==
  LET digits[n \in 0..num] ==
        IF n < base THEN <<n>> ELSE Append(digits[n \div base], n % base)
  IN  digits[num]

(* change: hexadecimal.                                                    *)
change(num) == Digits(16, num)

Decimal(num) == Digits(10, num)

Zeros(n) == [i \in 1..n |-> 0]

(* Zeros in front, up to four digits; a longer number stays as it is.       *)
FourDigits(digits) ==
  IF Len(digits) < 4 THEN Zeros(4 - Len(digits)) \o digits ELSE digits

LenFieldShort(length) == change(length)

(* The length field, as build, "%04X" of the heartbeat and of the          *)
(* registration write it.                                                  *)
LenField(length) == FourDigits(change(length))

(* ensureLen_4 *)
EnsureLen4(param) == IF param < 0 THEN Zeros(4) ELSE FourDigits(Decimal(param))

-----------------------------------------------------------------------------
(* CRC16_Checkout.  A byte is the set of its bits, out of 0..7, and the     *)
(* register the set of its bits, out of 0..15: ^ is the symmetric           *)
(* difference, and >> takes from every bit.  Of the register only the high  *)
(* byte meets the next one.                                                *)

Byte == SUBSET (0..7)

Xor(a, b) == (a \ b) \union (b \ a)

HighByte(crc_reg) == {i - 8 : i \in crc_reg \ 0..7}

(* {15, 13, 0} is 0xA001.                                                  *)
Shift(crc_reg) ==
  LET half == {i - 1 : i \in crc_reg \ {0}}
  IN  IF 0 \in crc_reg THEN Xor(half, {15, 13, 0}) ELSE half

(* Eight shifts of the byte that entered.                                  *)
EightShifts ==
  [byte \in Byte |->
     LET reg[j \in 0..8] == IF j = 0 THEN byte ELSE Shift(reg[j - 1]) IN reg[8]]

CRC16MixesOr(msg) ==
  LET reg[i \in 0..Len(msg)] ==
        IF i = 0 THEN 0..15 ELSE EightShifts[HighByte(reg[i - 1]) \union msg[i]]
  IN  reg[Len(msg)]

CRC16_Checkout(msg) ==
  LET reg[i \in 0..Len(msg)] ==
        IF i = 0 THEN 0..15 ELSE EightShifts[Xor(HighByte(reg[i - 1]), msg[i])]
  IN  reg[Len(msg)]

(* The register as a number, from its highest bit down.                    *)
Number(crc_reg) ==
  LET upTo[n \in 0..16] ==
        IF n = 0 THEN 0
        ELSE 2 * upTo[n - 1] + (IF 16 - n \in crc_reg THEN 1 ELSE 0)
  IN  upTo[16]

-----------------------------------------------------------------------------
(* The data segment of a round (run in sensor/sensor_driver.cpp).          *)

(* getShipSensorConfigs: how each of the 23 values is converted.           *)
ShipSensors ==
  <<"FLOAT32", "FLOAT32", "FLOAT32", "FLOAT32", "FLOAT32_SWAP",
    "FLOAT32_SWAP", "FLOAT32", "FLOAT32", "UINT16_SCALE", "UINT16_SCALE",
    "UINT16_RAW", "FLOAT32", "UINT16_SCALE", "INPUT_REG_FLOAT32",
    "UINT16_SCALE", "UINT16_SCALE", "UINT16_SCALE", "UINT16_RAW",
    "UINT16_SCALE", "UINT16_SCALE", "UINT16_SCALE", "UINT16_SCALE",
    "UINT16_SCALE">>

IsFloat(conversion) == conversion \notin {"UINT16_SCALE", "UINT16_RAW"}

(* "%010.3lf": ten characters at least; the registers of a float may hold   *)
(* any 32 bits, up to -3.4e38, which takes 44.                             *)
ValueWidths == {10, 44}

(* A code of six characters, "LA" for the last one, "-Rtd=", ";".           *)
CodesWidth == (Len(ShipSensors) - 1) * (6 + 6) + (2 + 6)

Floats == Cardinality({i \in DOMAIN ShipSensors : IsFloat(ShipSensors[i])})

(* QN, ST, CN, PW, MN, Flag, CP with the position, the values, and "&&".   *)
DataWidth(mn, location, floatWidth) ==
  (3 + 17 + 4 + 2 + 22 + mn + 6 + 1 + 10 + location + 1 + 2)
    + CodesWidth + Floats * floatWidth + (Len(ShipSensors) - Floats) * 10

(* ensure_crc4_packet: "##", the length, the data, the checksum, cut to what *)
(* its buffer of 2048 holds.                                               *)
Hj212Width(data, crc) ==
  LET width == 2 + Len(EnsureLen4(data)) + data + Len(FourDigits(change(Number(crc))))
  IN  IF width < 2048 THEN width ELSE 2047

-----------------------------------------------------------------------------
(* A packet: its command, the digits of its length field, and the number of *)
(* characters behind that field, the final @ included.  In front of it are *)
(* "$", the command, communication type, id, net id and "00": 12 characters. *)
Frame(cmd, length, rest) ==
  [cmd |-> cmd, length |-> LenField(length), rest |-> rest]

Size(frame) == 12 + Len(frame.length) + frame.rest

IsrMac == 16
Mac == 16
PortInfo == 3
CpuMem == 4
CommStatus == 6 \* one character per device

(* build, before snprintf cuts it.                                         *)
Packet06(data) ==
  Frame("06", data + 43, IsrMac + Mac + PortInfo + CpuMem + CommStatus + data + 1)

(* buildHeartbeat: "%04d" of the queue depth, one character for the GPS.    *)
Heartbeat(depth) ==
  LET data == CpuMem + CommStatus + Len(FourDigits(Decimal(depth))) + 1
  IN  Frame("EF", data + 7, data + 1)

(* The 01 request: MAC, status, "010", position, usage, and the final @.    *)
Regist01(location) ==
  LET data == Mac + CommStatus + PortInfo + location + CpuMem + 1
  IN  Frame("01", data + 14, data)

(* The 02 confirmation has the constant "0012".                            *)
Confirm02 == [cmd |-> "02", length |-> <<0, 0, 1, 2>>, rest |-> Mac + 2 + 1]

-----------------------------------------------------------------------------
(* The store file.  A text is a sequence of characters, as strings.        *)

NewLine == "\n"

(* drainAndPersistUnsafe: an empty packet is no line; others end in one.    *)
WrittenPacked(items) ==
  LET text[i \in 0..Len(items)] == IF i = 0 THEN <<>> ELSE text[i - 1] \o items[i]
  IN  text[Len(items)]

Written(items) ==
  LET text[i \in 0..Len(items)] ==
        IF i = 0 THEN <<>>
        ELSE IF items[i] = <<>> THEN text[i - 1]
        ELSE text[i - 1] \o items[i] \o <<NewLine>>
  IN  text[Len(items)]

NotEmpty(lines) ==
  LET kept[i \in 0..Len(lines)] ==
        IF i = 0 THEN <<>>
        ELSE IF lines[i] = <<>> THEN kept[i - 1] ELSE Append(kept[i - 1], lines[i])
  IN  kept[Len(lines)]

(* getline, character by character: the lines of a text, without their ends. *)
NothingRead == [lines |-> <<>>, line |-> <<>>]

ReadChar(reading, char) ==
  IF char = NewLine
  THEN [lines |-> Append(reading.lines, reading.line), line |-> <<>>]
  ELSE [lines |-> reading.lines, line |-> Append(reading.line, char)]

LinesOf(text) ==
  LET read[i \in 0..Len(text)] ==
        IF i = 0 THEN NothingRead ELSE ReadChar(read[i - 1], text[i])
      end == read[Len(text)]
  IN  IF end.line = <<>> THEN end.lines ELSE Append(end.lines, end.line)

(* What readFromFile makes of a line: command 21, and no final @.          *)
Replay(line) ==
  LET marked == IF Len(line) >= 3 /\ line[1] = "$"
                THEN <<"$", "2", "1">> \o SubSeq(line, 4, Len(line))
                ELSE line
  IN  IF marked # <<>> /\ Last(marked) = "@" THEN Front(marked) ELSE marked

readFromFile(text) ==
  LET lines == NotEmpty(LinesOf(text))
  IN  [i \in DOMAIN lines |-> Replay(lines[i])]
=============================================================================
