------------------------------ MODULE Gps_proofs ------------------------------
(***************************************************************************)
(* Proofs about Gps: what the thread keeps is a position of the receiver,   *)
(* for any number of fixes and any length of the driver's buffer.          *)
(***************************************************************************)
EXTENDS Gps, Integers, SequenceTheorems, TLAPS

-----------------------------------------------------------------------------
(* The inductive invariant: the symbols still to be read, in the driver and *)
(* on the wire, are whole sentences but for the first, up to what was lost. *)

Name == {"$", "*", "GNRMC", "GNGGA", "time", "date", "A", "V", "1", "old",
         "lat", "N", "lon", "E"}
Symbol == Name \X Nat
Received == [symbol : Symbol, gap : BOOLEAN]

Rest == Len(queue) + Len(wire)
Sym(i) == IF i <= Len(queue) THEN queue[i].symbol ELSE wire[i - Len(queue)]

(* Symbols were lost just before the i-th that is still to be read. *)
Gap(i) == IF i <= Len(queue) THEN queue[i].gap ELSE i = Len(queue) + 1 /\ missing

(* After position i come the fields of s but the first n, and the end, or   *)
(* as many of them as there are before some were lost.                     *)
Left(s, n) == Len(s) - n + 1
Expected(s, n, j) == IF n + j <= Len(s) THEN s[n + j] ELSE End
Comes(s, n, i) ==
  \E m \in 0..Left(s, n) :
    /\ i + m <= Rest
    /\ \A j \in 1..m : Sym(i + j) = Expected(s, n, j)
    /\ m = Left(s, n) \/ Gap(i + m + 1)

Typed ==
  /\ gps \in {"delay", "setOpt", "read", "nap", "ended"}
  /\ queue \in Seq(Received) /\ {wire, buf} \subseteq Seq(Symbol)
  /\ fixes \in Nat
  /\ {missing, flag_read, torn, spoiled} \subseteq BOOLEAN

(* Nothing is kept before the port is set up. *)
Flushed ==
  gps \in {"delay", "setOpt"} => queue = <<>> /\ ~missing /\ ~flag_read

(* Whoever sees a dollar can read a sentence to its end.                    *)
Whole ==
  gps # "ended" =>
    \A i \in 1..Rest : Sym(i) = Dollar =>
      \E k \in 0..fixes : \E s \in Sentences(k) : Comes(s, 0, i)

(* Inside a sentence that has lost nothing, buf is what was read of it and  *)
(* the rest comes next.                                                    *)
Inside ==
  (gps # "ended" /\ flag_read /\ ~torn) =>
    \E k \in 0..fixes : \E s \in Sentences(k) :
      /\ Len(buf) <= Len(s) /\ \A j \in 1..Len(buf) : buf[j] = s[j]
      /\ Comes(s, Len(buf), 0)

Inv == Typed /\ Flushed /\ Whole /\ Inside /\ LocationIsAFix

-----------------------------------------------------------------------------
(* The sentences. *)

LEMMA FieldsAre ==
  ASSUME NEW names \in Seq(Name), NEW k \in Nat
  PROVE  /\ Fields(names, k) \in Seq(Symbol) /\ Len(Fields(names, k)) = Len(names)
         /\ \A i \in 1..Len(names) : Fields(names, k)[i] = <<names[i], k>>
<1> DEFINE f == Fields(names, k)
           n == Len(names)
<1>1. n \in Nat /\ DOMAIN names = 1..n /\ \A i \in 1..n : names[i] \in Name
  BY LenProperties, ElementOfSeq
<1>2. f = [i \in 1..n |-> <<names[i], k>>]
  BY <1>1 DEF Fields
<1>3. \A i \in 1..n : <<names[i], k>> \in Symbol
  BY <1>1 DEF Symbol
<1>4. f \in [1..n -> Symbol] /\ \A i \in 1..n : f[i] = <<names[i], k>>
  BY <1>2, <1>3
<1> HIDE DEF f
<1>5. f \in Seq(Symbol) /\ Len(f) = n
  BY <1>1, <1>4
<1>6. QED
  BY <1>4, <1>5 DEF f

(* A field is no delimiter. *)
Plain(s) ==
  s \in Seq(Symbol) /\ \A i \in 1..Len(s) : s[i][1] \notin {"$", "*"}

LEMMA FieldsArePlain ==
  ASSUME NEW names \in Seq(Name), NEW k \in Nat,
         \A i \in 1..Len(names) : names[i] \notin {"$", "*"}
  PROVE  Plain(Fields(names, k))
<1>1. \A i \in 1..Len(names) : Fields(names, k)[i][1] = names[i]
  BY FieldsAre
<1>2. QED
  BY <1>1, FieldsAre DEF Plain

LEMMA PlainConcat ==
  ASSUME NEW s, NEW t, Plain(s), Plain(t)
  PROVE  Plain(s \o t)
<1>1. s \in Seq(Symbol) /\ t \in Seq(Symbol) /\ Len(s) \in Nat /\ Len(t) \in Nat
  BY LenProperties DEF Plain
<1>2. /\ s \o t \in Seq(Symbol) /\ Len(s \o t) = Len(s) + Len(t)
      /\ \A i \in 1..(Len(s) + Len(t)) :
           (s \o t)[i] = IF i <= Len(s) THEN s[i] ELSE t[i - Len(s)]
  BY <1>1, ConcatProperties
<1>3. ASSUME NEW i \in 1..(Len(s) + Len(t)) PROVE (s \o t)[i][1] \notin {"$", "*"}
  <2>1. CASE i <= Len(s)
    <3>1. i \in 1..Len(s) /\ (s \o t)[i] = s[i]
      BY <1>1, <1>2, <2>1
    <3>2. QED
      BY <3>1 DEF Plain
  <2>2. CASE ~(i <= Len(s))
    <3>1. i - Len(s) \in 1..Len(t) /\ (s \o t)[i] = t[i - Len(s)]
      BY <1>1, <1>2, <2>2
    <3>2. QED
      BY <3>1 DEF Plain
  <2>3. QED
    BY <2>1, <2>2
<1>4. QED
  BY <1>2, <1>3 DEF Plain

(* The names of each kind of sentence. *)

LEMMA NamesPosition ==
  ASSUME NEW n, n = <<"lat", "N", "lon", "E">>
  PROVE  /\ n \in Seq(Name) /\ Len(n) = 4
         /\ n[1] = "lat" /\ n[2] = "N" /\ n[3] = "lon" /\ n[4] = "E"
         /\ \A i \in 1..Len(n) : n[i] \notin {"$", "*"}
<1>1. n \in Seq(Name) /\ Len(n) = 4
  <2>1. <<"lat", "N", "lon", "E">> \in Seq(Name)
    BY DEF Name
  <2>2. Len(<<"lat", "N", "lon", "E">>) = 4
    OBVIOUS
  <2>3. QED
    BY <2>1, <2>2, Zenon
<1>2. n[1] = "lat" /\ n[2] = "N" /\ n[3] = "lon" /\ n[4] = "E"
  OBVIOUS
<1>3. \A i \in 1..4 : i = 1 \/ i = 2 \/ i = 3 \/ i = 4
  OBVIOUS
<1>4. \A i \in 1..4 : n[i] \notin {"$", "*"}
  BY <1>2, <1>3
<1>5. QED
  BY <1>1, <1>2, <1>4

LEMMA NamesNoFix ==
  ASSUME NEW n, n = <<"GNRMC", "time", "V", "date">>
  PROVE  /\ n \in Seq(Name) /\ Len(n) = 4
         /\ n[1] = "GNRMC" /\ n[2] = "time" /\ n[3] = "V" /\ n[4] = "date"
         /\ \A i \in 1..Len(n) : n[i] \notin {"$", "*"}
<1>1. n \in Seq(Name) /\ Len(n) = 4
  <2>1. <<"GNRMC", "time", "V", "date">> \in Seq(Name)
    BY DEF Name
  <2>2. Len(<<"GNRMC", "time", "V", "date">>) = 4
    OBVIOUS
  <2>3. QED
    BY <2>1, <2>2, Zenon
<1>2. n[1] = "GNRMC" /\ n[2] = "time" /\ n[3] = "V" /\ n[4] = "date"
  OBVIOUS
<1>3. \A i \in 1..4 : i = 1 \/ i = 2 \/ i = 3 \/ i = 4
  OBVIOUS
<1>4. \A i \in 1..4 : n[i] \notin {"$", "*"}
  BY <1>2, <1>3
<1>5. QED
  BY <1>1, <1>2, <1>4

LEMMA NamesShort ==
  ASSUME NEW n, n = <<"GNRMC", "V", "N">>
  PROVE  /\ n \in Seq(Name) /\ Len(n) = 3
         /\ n[1] = "GNRMC" /\ n[2] = "V" /\ n[3] = "N"
         /\ \A i \in 1..Len(n) : n[i] \notin {"$", "*"}
<1>1. n \in Seq(Name) /\ Len(n) = 3
  <2>1. <<"GNRMC", "V", "N">> \in Seq(Name)
    BY DEF Name
  <2>2. Len(<<"GNRMC", "V", "N">>) = 3
    OBVIOUS
  <2>3. QED
    BY <2>1, <2>2, Zenon
<1>2. n[1] = "GNRMC" /\ n[2] = "V" /\ n[3] = "N"
  OBVIOUS
<1>3. \A i \in 1..3 : i = 1 \/ i = 2 \/ i = 3
  OBVIOUS
<1>4. \A i \in 1..3 : n[i] \notin {"$", "*"}
  BY <1>2, <1>3
<1>5. QED
  BY <1>1, <1>2, <1>4

LEMMA NamesFix ==
  ASSUME NEW n, n = <<"GNRMC", "time", "A">>
  PROVE  /\ n \in Seq(Name) /\ Len(n) = 3
         /\ n[1] = "GNRMC" /\ n[2] = "time" /\ n[3] = "A"
         /\ \A i \in 1..Len(n) : n[i] \notin {"$", "*"}
<1>1. n \in Seq(Name) /\ Len(n) = 3
  <2>1. <<"GNRMC", "time", "A">> \in Seq(Name)
    BY DEF Name
  <2>2. Len(<<"GNRMC", "time", "A">>) = 3
    OBVIOUS
  <2>3. QED
    BY <2>1, <2>2, Zenon
<1>2. n[1] = "GNRMC" /\ n[2] = "time" /\ n[3] = "A"
  OBVIOUS
<1>3. \A i \in 1..3 : i = 1 \/ i = 2 \/ i = 3
  OBVIOUS
<1>4. \A i \in 1..3 : n[i] \notin {"$", "*"}
  BY <1>2, <1>3
<1>5. QED
  BY <1>1, <1>2, <1>4

LEMMA NamesDate ==
  ASSUME NEW n, n = <<"date">>
  PROVE  /\ n \in Seq(Name) /\ Len(n) = 1
         /\ n[1] = "date"
         /\ \A i \in 1..Len(n) : n[i] \notin {"$", "*"}
<1>1. n \in Seq(Name) /\ Len(n) = 1
  <2>1. <<"date">> \in Seq(Name)
    BY DEF Name
  <2>2. Len(<<"date">>) = 1
    OBVIOUS
  <2>3. QED
    BY <2>1, <2>2, Zenon
<1>2. n[1] = "date"
  OBVIOUS
<1>3. \A i \in 1..1 : i = 1
  OBVIOUS
<1>4. \A i \in 1..1 : n[i] \notin {"$", "*"}
  BY <1>2, <1>3
<1>5. QED
  BY <1>1, <1>2, <1>4

LEMMA NamesOld ==
  ASSUME NEW n, n = <<"GNRMC", "time", "V", "old", "N", "old", "E">>
  PROVE  /\ n \in Seq(Name) /\ Len(n) = 7
         /\ n[1] = "GNRMC" /\ n[2] = "time" /\ n[3] = "V" /\ n[4] = "old" /\ n[5] = "N" /\ n[6] = "old" /\ n[7] = "E"
         /\ \A i \in 1..Len(n) : n[i] \notin {"$", "*"}
<1>1. n \in Seq(Name) /\ Len(n) = 7
  <2>1. <<"GNRMC", "time", "V", "old", "N", "old", "E">> \in Seq(Name)
    BY DEF Name
  <2>2. Len(<<"GNRMC", "time", "V", "old", "N", "old", "E">>) = 7
    OBVIOUS
  <2>3. QED
    BY <2>1, <2>2, Zenon
<1>2. n[1] = "GNRMC" /\ n[2] = "time" /\ n[3] = "V" /\ n[4] = "old" /\ n[5] = "N" /\ n[6] = "old" /\ n[7] = "E"
  OBVIOUS
<1>3. \A i \in 1..7 : i = 1 \/ i = 2 \/ i = 3 \/ i = 4 \/ i = 5 \/ i = 6 \/ i = 7
  OBVIOUS
<1>4. \A i \in 1..7 : n[i] \notin {"$", "*"}
  BY <1>2, <1>3
<1>5. QED
  BY <1>1, <1>2, <1>4

LEMMA NamesOther ==
  ASSUME NEW n, n = <<"GNGGA", "time">>
  PROVE  /\ n \in Seq(Name) /\ Len(n) = 2
         /\ n[1] = "GNGGA" /\ n[2] = "time"
         /\ \A i \in 1..Len(n) : n[i] \notin {"$", "*"}
<1>1. n \in Seq(Name) /\ Len(n) = 2
  <2>1. <<"GNGGA", "time">> \in Seq(Name)
    BY DEF Name
  <2>2. Len(<<"GNGGA", "time">>) = 2
    OBVIOUS
  <2>3. QED
    BY <2>1, <2>2, Zenon
<1>2. n[1] = "GNGGA" /\ n[2] = "time"
  OBVIOUS
<1>3. \A i \in 1..2 : i = 1 \/ i = 2
  OBVIOUS
<1>4. \A i \in 1..2 : n[i] \notin {"$", "*"}
  BY <1>2, <1>3
<1>5. QED
  BY <1>1, <1>2, <1>4

LEMMA NamesOne ==
  ASSUME NEW n, n = <<"1">>
  PROVE  /\ n \in Seq(Name) /\ Len(n) = 1
         /\ n[1] = "1"
         /\ \A i \in 1..Len(n) : n[i] \notin {"$", "*"}
<1>1. n \in Seq(Name) /\ Len(n) = 1
  <2>1. <<"1">> \in Seq(Name)
    BY DEF Name
  <2>2. Len(<<"1">>) = 1
    OBVIOUS
  <2>3. QED
    BY <2>1, <2>2, Zenon
<1>2. n[1] = "1"
  OBVIOUS
<1>3. \A i \in 1..1 : i = 1
  OBVIOUS
<1>4. \A i \in 1..1 : n[i] \notin {"$", "*"}
  BY <1>2, <1>3
<1>5. QED
  BY <1>1, <1>2, <1>4

LEMMA PositionIs ==
  ASSUME NEW k \in Nat
  PROVE  Plain(Position(k)) /\ Len(Position(k)) = 4
<1> DEFINE names == <<"lat", "N", "lon", "E">>
<1>1. names \in Seq(Name) /\ Len(names) = 4
      /\ \A i \in 1..Len(names) : names[i] \notin {"$", "*"}
  BY NamesPosition
<1> HIDE DEF names
<1>2. Plain(Fields(names, k)) /\ Len(Fields(names, k)) = 4
  BY <1>1, FieldsAre, FieldsArePlain
<1>3. QED
  BY <1>2 DEF Position, names

(* A position between two sequences of fields. *)
Around(t, a, k, b) ==
  /\ Plain(t) /\ Len(t) = Len(a) + 4 + Len(b)
  /\ \A i \in 1..Len(a) : t[i] = a[i]
  /\ \A i \in 1..4 : t[Len(a) + i] = Position(k)[i]

LEMMA Framed ==
  ASSUME NEW k \in Nat, NEW a, Plain(a), NEW b, Plain(b)
  PROVE  Around(a \o Position(k) \o b, a, k, b)
<1> DEFINE p == Position(k)
           m == a \o p
<1>1. /\ a \in Seq(Symbol) /\ b \in Seq(Symbol) /\ p \in Seq(Symbol)
      /\ Len(a) \in Nat /\ Len(b) \in Nat /\ Len(p) = 4 /\ Plain(p)
  BY PositionIs, LenProperties DEF Plain
<1> HIDE DEF p
<1>2. /\ m \in Seq(Symbol) /\ Len(m) = Len(a) + Len(p)
      /\ \A i \in 1..(Len(a) + Len(p)) : m[i] = IF i <= Len(a) THEN a[i] ELSE p[i - Len(a)]
  BY <1>1, ConcatProperties
<1>3. Plain(m)
  BY <1>1, PlainConcat
<1> HIDE DEF m
<1>n. Len(m) \in Nat /\ Len(m) = Len(a) + 4
  BY <1>1, <1>2
<1>4. /\ Len(m \o b) = Len(m) + Len(b)
      /\ \A i \in 1..(Len(m) + Len(b)) : (m \o b)[i] = IF i <= Len(m) THEN m[i] ELSE b[i - Len(m)]
  <2>1. m \in Seq(Symbol) /\ b \in Seq(Symbol)
    BY <1>1, <1>2
  <2>2. QED
    BY <2>1, ConcatProperties
<1>5. Plain(m \o b)
  BY <1>3, PlainConcat
<1>6. \A i \in 1..Len(a) : (m \o b)[i] = a[i]
  BY <1>1, <1>2, <1>n, <1>4
<1>7. \A i \in 1..4 : (m \o b)[Len(a) + i] = p[i]
  <2> SUFFICES ASSUME NEW i \in 1..4 PROVE (m \o b)[Len(a) + i] = p[i]
    OBVIOUS
  <2>1. (m \o b)[Len(a) + i] = m[Len(a) + i]
    BY <1>1, <1>n, <1>4
  <2>2. m[Len(a) + i] = p[(Len(a) + i) - Len(a)]
    <3>1. Len(a) + i \in 1..(Len(a) + Len(p)) /\ ~(Len(a) + i <= Len(a))
      BY <1>1
    <3>2. QED
      BY <1>2, <3>1
  <2>3. (Len(a) + i) - Len(a) = i
    BY <1>1
  <2>4. QED
    BY <2>1, <2>2, <2>3
<1>8. QED
  BY <1>1, <1>2, <1>n, <1>4, <1>5, <1>6, <1>7 DEF m, p, Around

(* The fields of a sentence are no delimiters, and what process_gps makes   *)
(* of them is nothing, or the position that the receiver reported.          *)
LEMMA SentenceIs ==
  ASSUME NEW k \in Nat, NEW s \in Sentences(k)
  PROVE  /\ Plain(s)
         /\ Parsed(s) = <<>> \/ (k >= 1 /\ Parsed(s) = Position(k))
<1>1. ASSUME NEW names \in Seq(Name), \A i \in 1..Len(names) : names[i] \notin {"$", "*"}
      PROVE  /\ Plain(Fields(names, 0)) /\ Len(Fields(names, 0)) = Len(names)
             /\ \A i \in 1..Len(names) : Fields(names, 0)[i][1] = names[i]
  BY <1>1, FieldsAre, FieldsArePlain
<1>2. CASE s = Fields(<<"GNRMC", "time", "V", "date">>, 0)
  <2> DEFINE n == <<"GNRMC", "time", "V", "date">>
  <2>1. n \in Seq(Name) /\ Len(n) = 4 /\ \A i \in 1..Len(n) : n[i] \notin {"$", "*"}
    BY NamesNoFix
  <2> HIDE DEF n
  <2>2. Plain(Fields(n, 0)) /\ Len(Fields(n, 0)) = 4
    BY <1>1, <2>1
  <2>3. Plain(s) /\ Len(s) = 4
    BY <1>2, <2>2 DEF n
  <2>4. QED
    BY <2>3 DEF Parsed
<1>3. CASE s = Fields(<<"GNRMC", "V", "N">>, 0)
  <2> DEFINE n == <<"GNRMC", "V", "N">>
  <2>1. n \in Seq(Name) /\ Len(n) = 3 /\ \A i \in 1..Len(n) : n[i] \notin {"$", "*"}
    BY NamesShort
  <2> HIDE DEF n
  <2>2. Plain(Fields(n, 0)) /\ Len(Fields(n, 0)) = 3
    BY <1>1, <2>1
  <2>3. Plain(s) /\ Len(s) = 3
    BY <1>3, <2>2 DEF n
  <2>4. QED
    BY <2>3 DEF Parsed
<1>4. CASE s = Fields(<<"GNRMC", "time", "V", "old", "N", "old", "E">>, 0)
  <2> DEFINE n == <<"GNRMC", "time", "V", "old", "N", "old", "E">>
  <2>1. /\ n \in Seq(Name) /\ Len(n) = 7 /\ \A i \in 1..Len(n) : n[i] \notin {"$", "*"}
        /\ n[3] = "V"
    BY NamesOld
  <2> HIDE DEF n
  <2>2. Plain(Fields(n, 0)) /\ Fields(n, 0)[3][1] = "V"
    BY <1>1, <2>1
  <2>3. Plain(s) /\ s[3][1] = "V"
    BY <1>4, <2>2 DEF n
  <2>4. QED
    BY <2>3 DEF Parsed
<1>5. CASE /\ k >= 1
           /\ s = Fields(<<"GNRMC", "time", "A">>, 0) \o Position(k) \o Fields(<<"date">>, 0)
  <2> DEFINE n == <<"GNRMC", "time", "A">>
             m == <<"date">>
             a == Fields(n, 0)
             b == Fields(m, 0)
  <2>1. /\ n \in Seq(Name) /\ Len(n) = 3 /\ \A i \in 1..Len(n) : n[i] \notin {"$", "*"}
        /\ n[1] = "GNRMC" /\ n[3] = "A"
    BY NamesFix
  <2>2. m \in Seq(Name) /\ Len(m) = 1 /\ \A i \in 1..Len(m) : m[i] \notin {"$", "*"}
    BY NamesDate
  <2>3. s = a \o Position(k) \o b
    BY <1>5
  <2> HIDE DEF n, m
  <2>4. /\ Plain(a) /\ Len(a) = 3 /\ a[1][1] = "GNRMC" /\ a[3][1] = "A"
        /\ Plain(b) /\ Len(b) = 1
    BY <1>1, <2>1, <2>2
  <2> HIDE DEF a, b
  <2>5. /\ Plain(s) /\ Len(s) = 8 /\ s[1] = a[1] /\ s[3] = a[3]
        /\ \A i \in 1..4 : s[3 + i] = Position(k)[i]
    <3>1. /\ Plain(s) /\ Len(s) = Len(a) + 4 + Len(b)
          /\ \A i \in 1..Len(a) : s[i] = a[i]
          /\ \A i \in 1..4 : s[Len(a) + i] = Position(k)[i]
      <4>1. Plain(a) /\ Plain(b) /\ k \in Nat
        BY <2>4
      <4>2. Around(a \o Position(k) \o b, a, k, b)
        BY <4>1, Framed
      <4>3. Around(s, a, k, b)
        BY <2>3, <4>2, Zenon
      <4>4. QED
        BY <4>3 DEF Around
    <3>2. QED
      BY <2>4, <3>1
  <2>6. Parsed(s) = SubSeq(s, 4, 7)
    BY <2>4, <2>5 DEF Parsed
  <2>7. SubSeq(s, 4, 7) = Position(k)
    <3>1. \A i \in 4..7 : s[i] \in Symbol
      <4>1. s \in Seq(Symbol) /\ Len(s) = 8 /\ \A i \in 4..7 : i \in 1..8
        BY <2>5 DEF Plain
      <4>2. QED
        BY <4>1, ElementOfSeq
    <3>2. /\ SubSeq(s, 4, 7) \in Seq(Symbol) /\ Len(SubSeq(s, 4, 7)) = 4
          /\ \A i \in 1..4 : SubSeq(s, 4, 7)[i] = s[4 + i - 1]
      BY <3>1, SubSeqProperties
    <3>3. \A i \in 1..4 : SubSeq(s, 4, 7)[i] = Position(k)[i]
      <4> SUFFICES ASSUME NEW i \in 1..4 PROVE SubSeq(s, 4, 7)[i] = Position(k)[i]
        OBVIOUS
      <4>1. 4 + i - 1 = 3 + i
        OBVIOUS
      <4>2. QED
        BY <2>5, <3>2, <4>1
    <3>4. Position(k) \in Seq(Symbol) /\ Len(Position(k)) = 4
      BY PositionIs DEF Plain
    <3>5. QED
      BY <3>2, <3>3, <3>4, SeqEqual
  <2>8. QED
    BY <1>5, <2>5, <2>6, <2>7
<1>6. CASE s = Fields(<<"GNGGA", "time">>, 0) \o Position(k) \o Fields(<<"1">>, 0)
  <2> DEFINE n == <<"GNGGA", "time">>
             m == <<"1">>
             a == Fields(n, 0)
             b == Fields(m, 0)
  <2>1. /\ n \in Seq(Name) /\ Len(n) = 2 /\ \A i \in 1..Len(n) : n[i] \notin {"$", "*"}
        /\ n[1] = "GNGGA"
    BY NamesOther
  <2>2. m \in Seq(Name) /\ Len(m) = 1 /\ \A i \in 1..Len(m) : m[i] \notin {"$", "*"}
    BY NamesOne
  <2>3. s = a \o Position(k) \o b
    BY <1>6
  <2> HIDE DEF n, m
  <2>4. Plain(a) /\ Len(a) = 2 /\ a[1][1] = "GNGGA" /\ Plain(b)
    BY <1>1, <2>1, <2>2
  <2> HIDE DEF a, b
  <2>5. Plain(s) /\ s[1] = a[1]
    <3>1. Plain(s) /\ \A i \in 1..Len(a) : s[i] = a[i]
      <4>1. Plain(a) /\ Plain(b) /\ k \in Nat
        BY <2>4
      <4>2. Around(a \o Position(k) \o b, a, k, b)
        BY <4>1, Framed
      <4>3. QED
        BY <2>3, <4>2 DEF Around
    <3>2. QED
      BY <2>4, <3>1
  <2>6. QED
    BY <2>4, <2>5 DEF Parsed
<1>7. \/ s \in {Fields(<<"GNRMC", "time", "V", "date">>, 0), Fields(<<"GNRMC", "V", "N">>, 0)}
      \/ k # 0 /\ s \in
           {Fields(<<"GNRMC", "time", "A">>, 0) \o Position(k) \o Fields(<<"date">>, 0),
            Fields(<<"GNRMC", "time", "V", "old", "N", "old", "E">>, 0),
            Fields(<<"GNGGA", "time">>, 0) \o Position(k) \o Fields(<<"1">>, 0)}
  BY Zenon DEF Sentences
<1>8. k # 0 => k >= 1
  OBVIOUS
<1>9. QED
  BY <1>2, <1>3, <1>4, <1>5, <1>6, <1>7, <1>8, Zenon

-----------------------------------------------------------------------------
(* The stream of symbols. *)

LEMMA Ends2 == Dollar \in Symbol /\ End \in Symbol /\ Dollar # End
BY DEF Dollar, End, Symbol, Name

LEMMA PlainFields ==
  ASSUME NEW s, Plain(s), NEW i \in 1..Len(s)
  PROVE  s[i] # Dollar /\ s[i] # End /\ s[i] \in Symbol
<1>1. s[i][1] \notin {"$", "*"} /\ s[i] \in Symbol
  BY ElementOfSeq DEF Plain
<1>2. Dollar[1] = "$" /\ End[1] = "*"
  BY DEF Dollar, End
<1>3. QED
  BY <1>1, <1>2

LEMMA Lengths ==
  Typed => /\ Len(queue) \in Nat /\ Len(wire) \in Nat /\ Len(buf) \in Nat /\ Rest \in Nat
           /\ queue \in Seq(Received) /\ wire \in Seq(Symbol) /\ buf \in Seq(Symbol)
BY LenProperties DEF Typed, Rest

(* The stream has moved on by one symbol.                                   *)
Moved ==
  /\ Rest' = Rest - 1 /\ 1 <= Rest
  /\ \A i \in 1..(Rest - 1) : Sym(i)' = Sym(i + 1)
  /\ \A i \in Nat \ {0} : Gap(i)' = Gap(i + 1)

(* The stream may have grown at its end.                                    *)
Grown ==
  /\ Rest' \in Nat /\ Rest <= Rest'
  /\ \A i \in 1..Rest : Sym(i)' = Sym(i)
  /\ \A i \in Nat \ {0} : Gap(i)' = Gap(i)

(* Reading a symbol of the driver moves the stream on by one.               *)
LEMMA ReadMoves ==
  ASSUME Typed, Take
  PROVE  /\ queue' \in Seq(Received) /\ Moved /\ Sym(1) = in /\ Gap(1) = Head(queue).gap
         /\ in \in Symbol /\ Head(queue).gap \in BOOLEAN
<1>0. queue # <<>> /\ queue' = Tail(queue) /\ wire' = wire /\ missing' = missing
  BY DEF Take
<1>1. /\ Len(queue) \in Nat /\ Len(wire) \in Nat /\ queue \in Seq(Received)
  BY Lengths
<1>2. /\ Len(queue) >= 1 /\ Head(queue) = queue[1] /\ Head(queue) \in Received
      /\ Tail(queue) \in Seq(Received) /\ Len(Tail(queue)) = Len(queue) - 1
      /\ \A i \in 1..(Len(queue) - 1) : Tail(queue)[i] = queue[i + 1]
  <2>1. Len(queue) \in Nat \ {0}
    BY <1>0, <1>1, EmptySeq
  <2>2. /\ Head(queue) \in Received /\ Tail(queue) \in Seq(Received)
        /\ Len(Tail(queue)) = Len(queue) - 1
        /\ \A i \in 1..Len(Tail(queue)) : Tail(queue)[i] = queue[i + 1]
    BY <1>0, <1>1, HeadTailProperties
  <2>3. QED
    BY <2>1, <2>2
<1>3. /\ Len(queue') = Len(queue) - 1 /\ Len(wire') = Len(wire) /\ queue' \in Seq(Received)
      /\ \A i \in 1..(Len(queue) - 1) : queue'[i] = queue[i + 1]
  BY <1>0, <1>2
<1>4. Rest' = Rest - 1 /\ 1 <= Rest /\ Rest = Len(queue) + Len(wire)
  BY <1>1, <1>2, <1>3 DEF Rest
<1>5. Sym(1) = in /\ Gap(1) = Head(queue).gap
  BY <1>2 DEF Sym, Gap, in
<1>6. ASSUME NEW i \in 1..(Rest - 1) PROVE Sym(i)' = Sym(i + 1)
  <2>1. CASE i <= Len(queue) - 1
    <3>1. Sym(i)' = queue'[i].symbol
      BY <1>3, <2>1 DEF Sym
    <3>2. Sym(i + 1) = queue[i + 1].symbol
      BY <1>1, <1>4, <2>1 DEF Sym
    <3>3. i \in 1..(Len(queue) - 1)
      BY <1>1, <1>4, <2>1
    <3>4. QED
      BY <1>3, <3>1, <3>2, <3>3
  <2>2. CASE ~(i <= Len(queue) - 1)
    <3>1. Sym(i)' = wire[i - (Len(queue) - 1)]
      BY <1>0, <1>3, <2>2 DEF Sym
    <3>2. Sym(i + 1) = wire[(i + 1) - Len(queue)]
      BY <1>1, <1>4, <2>2 DEF Sym
    <3>3. i - (Len(queue) - 1) = (i + 1) - Len(queue)
      BY <1>1, <1>4
    <3>4. QED
      BY <3>1, <3>2, <3>3
  <2>3. QED
    BY <2>1, <2>2
<1>7. ASSUME NEW i \in Nat \ {0} PROVE Gap(i)' = Gap(i + 1)
  <2>1. CASE i <= Len(queue) - 1
    <3>1. Gap(i)' = queue'[i].gap
      BY <1>3, <2>1 DEF Gap
    <3>2. Gap(i + 1) = queue[i + 1].gap
      BY <1>1, <2>1 DEF Gap
    <3>3. i \in 1..(Len(queue) - 1)
      BY <1>1, <2>1
    <3>4. QED
      BY <1>3, <3>1, <3>2, <3>3
  <2>2. CASE ~(i <= Len(queue) - 1)
    <3>1. Gap(i)' = (i = (Len(queue) - 1) + 1 /\ missing)
      BY <1>0, <1>3, <2>2 DEF Gap
    <3>2. Gap(i + 1) = (i + 1 = Len(queue) + 1 /\ missing)
      BY <1>1, <2>2 DEF Gap
    <3>3. (i = (Len(queue) - 1) + 1) = (i + 1 = Len(queue) + 1)
      BY <1>1
    <3>4. QED
      BY <3>1, <3>2, <3>3, Zenon
  <2>3. QED
    BY <2>1, <2>2
<1>8. in \in Symbol /\ Head(queue).gap \in BOOLEAN
  BY <1>2 DEF Received, in
<1>9. QED
  BY <1>3, <1>4, <1>5, <1>6, <1>7, <1>8 DEF Moved

(* Then what comes after position i + 1 comes after position i.             *)
LEMMA ComesSooner ==
  ASSUME Rest \in Nat, Moved, NEW s \in Seq(Symbol), NEW n \in 0..Len(s), NEW i \in Nat,
         Comes(s, n, i + 1)
  PROVE  Comes(s, n, i)'
<1>1. Left(s, n) \in Nat
  BY LenProperties DEF Left
<1>2. PICK m \in 0..Left(s, n) :
        /\ i + 1 + m <= Rest
        /\ \A j \in 1..m : Sym(i + 1 + j) = Expected(s, n, j)
        /\ m = Left(s, n) \/ Gap(i + 1 + m + 1)
  BY DEF Comes
<1>3. ASSUME NEW j \in 1..m PROVE Sym(i + j)' = Expected(s, n, j)
  <2>1. i + j \in 1..(Rest - 1) /\ i + j + 1 = i + 1 + j
    BY <1>1, <1>2
  <2>2. Sym(i + j)' = Sym(i + 1 + j)
    BY <2>1 DEF Moved
  <2>3. QED
    BY <1>2, <2>2
<1>4. m = Left(s, n) \/ Gap(i + m + 1)'
  <2>1. i + m + 1 \in Nat \ {0} /\ i + m + 1 + 1 = i + 1 + m + 1
    BY <1>1
  <2>2. Gap(i + m + 1)' = Gap(i + 1 + m + 1)
    BY <2>1 DEF Moved
  <2>3. QED
    BY <1>2, <2>2
<1>5. i + m <= Rest'
  BY <1>1, <1>2 DEF Moved
<1>6. QED
  BY <1>3, <1>4, <1>5 DEF Comes, Left, Expected

(* When nothing was lost before it, the first symbol of what comes is a     *)
(* field or the end.                                                       *)
LEMMA ComesFirst ==
  ASSUME NEW s \in Seq(Symbol), NEW n \in 0..Len(s), Comes(s, n, 0), ~Gap(1)
  PROVE  /\ n < Len(s) => Sym(1) = s[n + 1] /\ Comes(s, n + 1, 1)
         /\ n = Len(s) => Sym(1) = End
<1>1. Len(s) \in Nat /\ n \in Nat /\ Left(s, n) = Len(s) - n + 1 /\ Left(s, n) \in Nat
  BY LenProperties DEF Left
<1>2. PICK m \in 0..Left(s, n) :
        /\ 0 + m <= Rest
        /\ \A j \in 1..m : Sym(0 + j) = Expected(s, n, j)
        /\ m = Left(s, n) \/ Gap(0 + m + 1)
  BY DEF Comes
<1>3. m >= 1
  <2>1. SUFFICES ASSUME m = 0 PROVE FALSE
    BY <1>1
  <2>2. 0 + m + 1 = 1 /\ m # Left(s, n)
    BY <1>1, <2>1
  <2>3. Gap(1)
    BY <1>2, <2>2
  <2>4. QED
    BY <2>3
<1>4. Sym(1) = Expected(s, n, 1)
  <2>1. 1 \in 1..m /\ 0 + 1 = 1
    BY <1>1, <1>3
  <2>2. QED
    BY <1>2, <2>1
<1>5. CASE n < Len(s)
  <2>1. Sym(1) = s[n + 1]
    BY <1>1, <1>4, <1>5 DEF Expected
  <2>2. m - 1 \in 0..Left(s, n + 1) /\ 1 + (m - 1) = 0 + m /\ Left(s, n + 1) = Left(s, n) - 1
    BY <1>1, <1>3, <1>5 DEF Left
  <2>3. ASSUME NEW j \in 1..(m - 1) PROVE Sym(1 + j) = Expected(s, n + 1, j)
    <3>1. 1 + j \in 1..m /\ 0 + (1 + j) = 1 + j /\ n + (1 + j) = (n + 1) + j
      BY <1>1, <1>3
    <3>2. Sym(1 + j) = Expected(s, n, 1 + j)
      BY <1>2, <3>1
    <3>3. QED
      BY <3>1, <3>2 DEF Expected
  <2>4. m - 1 = Left(s, n + 1) \/ Gap(1 + (m - 1) + 1)
    <3>1. 1 + (m - 1) + 1 = 0 + m + 1
      BY <1>1
    <3>2. CASE m = Left(s, n)
      BY <2>2, <3>2
    <3>3. CASE Gap(0 + m + 1)
      BY <3>1, <3>3
    <3>4. QED
      BY <1>2, <3>2, <3>3
  <2>5. Comes(s, n + 1, 1)
    <3>1. 1 + (m - 1) <= Rest
      BY <1>2, <2>2
    <3>2. QED
      BY <2>2, <2>3, <2>4, <3>1 DEF Comes
  <2>6. QED
    BY <1>5, <2>1, <2>5
<1>6. CASE n = Len(s)
  BY <1>1, <1>4, <1>6 DEF Expected
<1>7. QED
  BY <1>1, <1>5, <1>6

LEMMA ComesStays ==
  ASSUME Rest \in Nat, Grown, NEW s \in Seq(Symbol), NEW n \in 0..Len(s), NEW i \in Nat,
         Comes(s, n, i)
  PROVE  Comes(s, n, i)'
<1>1. Left(s, n) \in Nat
  BY LenProperties DEF Left
<1>2. PICK m \in 0..Left(s, n) :
        /\ i + m <= Rest
        /\ \A j \in 1..m : Sym(i + j) = Expected(s, n, j)
        /\ m = Left(s, n) \/ Gap(i + m + 1)
  BY DEF Comes
<1>3. ASSUME NEW j \in 1..m PROVE Sym(i + j)' = Expected(s, n, j)
  <2>1. i + j \in 1..Rest
    BY <1>1, <1>2
  <2>2. QED
    BY <1>2, <2>1 DEF Grown
<1>4. m = Left(s, n) \/ Gap(i + m + 1)'
  <2>1. i + m + 1 \in Nat \ {0}
    BY <1>1
  <2>2. Gap(i + m + 1)' = Gap(i + m + 1)
    BY <2>1 DEF Grown
  <2>3. QED
    BY <1>2, <2>2
<1>5. i + m <= Rest'
  BY <1>1, <1>2 DEF Grown
<1>6. QED
  BY <1>3, <1>4, <1>5 DEF Comes, Left, Expected

(* The next symbol of the wire is lost: the stream closes up behind the     *)
(* driver's symbols, and what comes there ends at the gap.                  *)
Closed ==
  /\ Rest' = Rest - 1 /\ Len(queue) + 1 <= Rest
  /\ \A i \in 1..Len(queue) : Sym(i)' = Sym(i) /\ Gap(i)' = Gap(i)
  /\ \A i \in (Len(queue) + 1)..(Rest - 1) : Sym(i)' = Sym(i + 1)
  /\ \A i \in Nat : i = Len(queue) + 1 => Gap(i)'

LEMMA ComesToTheGap ==
  ASSUME Rest \in Nat, Len(queue) \in Nat, Closed, NEW s \in Seq(Symbol),
         NEW n \in 0..Len(s), NEW i \in 0..Len(queue), Comes(s, n, i)
  PROVE  Comes(s, n, i)'
<1>1. Left(s, n) \in Nat
  BY LenProperties DEF Left
<1>2. PICK m \in 0..Left(s, n) :
        /\ i + m <= Rest
        /\ \A j \in 1..m : Sym(i + j) = Expected(s, n, j)
        /\ m = Left(s, n) \/ Gap(i + m + 1)
  BY DEF Comes
<1>3. PICK l \in 0..Left(s, n) :
        /\ l <= m /\ i + l <= Len(queue)
        /\ (l = m /\ i + m + 1 <= Len(queue)) \/ i + l = Len(queue) \/ (l = m /\ m = Left(s, n))
  <2>1. CASE i + m <= Len(queue)
    <3>1. m <= m /\ (i + m + 1 <= Len(queue) \/ i + m = Len(queue))
      BY <1>1, <2>1
    <3>2. QED
      BY <2>1, <3>1
  <2>2. CASE i + m > Len(queue)
    <3>0. Len(queue) - i \in 0..Left(s, n)
      BY <1>1, <2>2
    <3>1. PICK d \in 0..Left(s, n) : d = Len(queue) - i
      BY <3>0, Zenon
    <3>2. d <= m /\ i + d = Len(queue) /\ i + d <= Len(queue)
      BY <1>1, <2>2, <3>1
    <3>3. QED
      BY <3>2
  <2>3. QED
    BY <1>1, <2>1, <2>2
<1>4. ASSUME NEW j \in 1..l PROVE Sym(i + j)' = Expected(s, n, j)
  <2>1. i + j \in 1..Len(queue) /\ j \in 1..m
    BY <1>1, <1>3
  <2>2. QED
    BY <1>2, <2>1 DEF Closed
<1>5. l = Left(s, n) \/ Gap(i + l + 1)'
  <2>1. CASE l = m /\ i + m + 1 <= Len(queue)
    <3>1. i + m + 1 \in 1..Len(queue)
      BY <1>1, <2>1
    <3>2. Gap(i + m + 1)' = Gap(i + m + 1)
      BY <3>1 DEF Closed
    <3>3. QED
      BY <1>2, <2>1, <3>2
  <2>2. CASE i + l = Len(queue)
    <3>1. i + l + 1 \in Nat /\ i + l + 1 = Len(queue) + 1
      BY <1>1, <2>2
    <3>2. QED
      BY <3>1 DEF Closed
  <2>3. QED
    BY <1>3, <2>1, <2>2
<1>6. i + l <= Rest'
  BY <1>1, <1>3 DEF Closed
<1>7. QED
  BY <1>4, <1>5, <1>6 DEF Comes, Left, Expected

(* Nothing was lost further back than just behind the driver's symbols.     *)
LEMMA ComesBehindTheGap ==
  ASSUME Rest \in Nat, Len(queue) \in Nat, Closed, NEW s \in Seq(Symbol),
         NEW n \in 0..Len(s), NEW i \in Nat, i > Len(queue), Comes(s, n, i + 1)
  PROVE  Comes(s, n, i)'
<1>1. Left(s, n) \in Nat
  BY LenProperties DEF Left
<1>2. PICK m \in 0..Left(s, n) :
        /\ i + 1 + m <= Rest
        /\ \A j \in 1..m : Sym(i + 1 + j) = Expected(s, n, j)
        /\ m = Left(s, n) \/ Gap(i + 1 + m + 1)
  BY DEF Comes
<1>3. ~Gap(i + 1 + m + 1)
  <2>1. ~(i + 1 + m + 1 <= Len(queue)) /\ i + 1 + m + 1 # Len(queue) + 1
    BY <1>1
  <2>2. QED
    BY <2>1 DEF Gap
<1>4. ASSUME NEW j \in 1..m PROVE Sym(i + j)' = Expected(s, n, j)
  <2>1. i + j \in (Len(queue) + 1)..(Rest - 1) /\ i + j + 1 = i + 1 + j
    BY <1>1, <1>2
  <2>2. Sym(i + j)' = Sym(i + 1 + j)
    BY <2>1 DEF Closed
  <2>3. QED
    BY <1>2, <2>2
<1>5. i + m <= Rest'
  BY <1>1, <1>2 DEF Closed
<1>6. QED
  BY <1>2, <1>3, <1>4, <1>5 DEF Comes, Left, Expected

(* The invariants of the stream survive every step that takes a symbol ...  *)
LEMMA WholeMoves ==
  ASSUME Typed, Whole, gps # "ended", UNCHANGED fixes, Moved
  PROVE  Whole'
<1>1. Rest' = Rest - 1 /\ Rest \in Nat /\ \A i \in 1..(Rest - 1) : Sym(i)' = Sym(i + 1)
  BY Lengths DEF Moved
<1>2. ASSUME NEW i \in 1..(Rest - 1), Sym(i)' = Dollar
      PROVE  \E k \in 0..fixes' : \E s \in Sentences(k) : Comes(s, 0, i)'
  <2>1. Sym(i + 1) = Dollar /\ i + 1 \in 1..Rest /\ i \in Nat
    BY <1>1, <1>2
  <2>k. PICK k \in 0..fixes : \E s \in Sentences(k) : Comes(s, 0, i + 1)
    BY <2>1 DEF Whole
  <2>2. PICK s \in Sentences(k) : Comes(s, 0, i + 1)
    BY <2>k
  <2>3. s \in Seq(Symbol) /\ 0 \in 0..Len(s)
    BY <2>2, SentenceIs, LenProperties DEF Typed, Plain
  <2>4. Comes(s, 0, i)'
    BY <1>1, <2>1, <2>2, <2>3, ComesSooner
  <2>5. QED
    BY <2>2, <2>4
<1>3. QED
  BY <1>1, <1>2 DEF Whole

(* ... and every step that leaves the stream alone ...                      *)
LEMMA WholeStays ==
  ASSUME Typed, Whole, gps' # "ended" => gps # "ended", Grown, Rest' = Rest,
         UNCHANGED fixes
  PROVE  Whole'
<1> SUFFICES ASSUME gps' # "ended", NEW i \in 1..Rest, Sym(i)' = Dollar
             PROVE  \E k \in 0..fixes : \E s \in Sentences(k) : Comes(s, 0, i)'
  BY DEF Whole
<1>s. Sym(i) = Dollar
  BY DEF Grown
<1>k. PICK k \in 0..fixes : \E s \in Sentences(k) : Comes(s, 0, i)
  BY <1>s DEF Whole
<1>1. PICK s \in Sentences(k) : Comes(s, 0, i)
  BY <1>k
<1>2. Comes(s, 0, i)'
  <2>1. s \in Seq(Symbol) /\ 0 \in 0..Len(s) /\ i \in Nat /\ Rest \in Nat
    BY SentenceIs, LenProperties, Lengths DEF Plain, Typed
  <2>2. QED
    BY <1>1, <2>1, ComesStays
<1>3. QED
  BY <1>1, <1>2

(* ... or adds to its end.                                                  *)
LEMMA InsideStays ==
  ASSUME Typed, Inside, gps' # "ended" => gps # "ended",
         flag_read' /\ ~torn' => flag_read /\ ~torn /\ buf' = buf,
         Grown, fixes' \in Nat, fixes <= fixes'
  PROVE  Inside'
<1> SUFFICES ASSUME gps' # "ended", flag_read', ~torn'
             PROVE  \E k \in 0..fixes' : \E s \in Sentences(k) :
                      /\ Len(buf') <= Len(s) /\ \A j \in 1..Len(buf') : buf'[j] = s[j]
                      /\ Comes(s, Len(buf), 0)'
  BY DEF Inside
<1>b. buf' = buf
  OBVIOUS
<1>k. PICK k \in 0..fixes : \E s \in Sentences(k) :
        /\ Len(buf) <= Len(s) /\ \A j \in 1..Len(buf) : buf[j] = s[j]
        /\ Comes(s, Len(buf), 0)
  BY DEF Inside
<1>1. PICK s \in Sentences(k) :
        /\ Len(buf) <= Len(s) /\ \A j \in 1..Len(buf) : buf[j] = s[j]
        /\ Comes(s, Len(buf), 0)
  BY <1>k
<1>n. PICK n \in Nat : n = Len(buf)
  BY Lengths
<1>2. Comes(s, n, 0)'
  <2>1. s \in Seq(Symbol) /\ n \in 0..Len(s) /\ Rest \in Nat
    BY <1>1, <1>n, SentenceIs, LenProperties, Lengths DEF Plain, Typed
  <2>2. QED
    BY <1>1, <1>n, <2>1, ComesStays
<1>3. Comes(s, Len(buf), 0)'
  BY <1>b, <1>n, <1>2
<1>4. k \in 0..fixes'
  BY DEF Typed
<1>5. QED
  BY <1>1, <1>b, <1>3, <1>4

-----------------------------------------------------------------------------
(* The steps. *)

LEMMA InitInv == Init => Inv
<1> SUFFICES ASSUME Init PROVE Inv
  OBVIOUS
<1>1. /\ gps = "delay" /\ flag_read = FALSE /\ fixes = 0 /\ location = <<>>
      /\ wire = <<>> /\ queue = <<>> /\ buf = <<>>
      /\ missing = FALSE /\ torn = FALSE /\ spoiled = FALSE
  BY DEF Init
<1>2. <<>> \in Seq(Symbol) /\ <<>> \in Seq(Received) /\ Len(<<>>) = 0
  BY EmptySeq
<1>3. queue \in Seq(Received) /\ {wire, buf} \subseteq Seq(Symbol)
  BY <1>1, <1>2, Zenon
<1>4. Rest = 0
  <2>1. Len(queue) = 0 /\ Len(wire) = 0
    BY <1>1, <1>2, Zenon
  <2>2. QED
    BY <2>1 DEF Rest
<1>5. Typed /\ Flushed /\ Inside /\ LocationIsAFix
  BY <1>1, <1>3 DEF Typed, Flushed, Inside, LocationIsAFix
<1>6. Whole
  BY <1>4 DEF Whole
<1>7. QED
  BY <1>5, <1>6 DEF Inv

(* A new sentence is whole, and everything before it stays as it was.       *)
LEMMA StartSentenceInv == Inv /\ StartSentence => Inv'
<1> SUFFICES ASSUME Inv, StartSentence PROVE Inv'
  OBVIOUS
<1>1. /\ wire = <<>> /\ Typed /\ fixes \in Nat
      /\ UNCHANGED <<gps, queue, missing, flag_read, buf, torn, location, spoiled>>
  BY DEF Inv, Typed, StartSentence, driver, parse, position
<1>2. PICK k \in {fixes, fixes + 1} :
        fixes' = k /\ \E s \in Sentences(k) : wire' = <<Dollar>> \o s \o <<End>>
  BY DEF StartSentence
<1>3. PICK s \in Sentences(k) : wire' = <<Dollar>> \o s \o <<End>>
  BY <1>2
<1>4. k \in Nat /\ fixes <= k
  BY <1>1
<1>5. Plain(s) /\ s \in Seq(Symbol) /\ Len(s) \in Nat
  BY <1>4, SentenceIs, LenProperties DEF Plain
<1>6. /\ wire' \in Seq(Symbol) /\ Len(wire') = Len(s) + 2
      /\ wire'[1] = Dollar /\ wire'[Len(s) + 2] = End
      /\ \A j \in 1..Len(s) : wire'[1 + j] = s[j]
  <2> DEFINE d == <<Dollar>>
             e == <<End>>
             m == d \o s
  <2>1. /\ d \in Seq(Symbol) /\ Len(d) = 1 /\ d[1] = Dollar
        /\ e \in Seq(Symbol) /\ Len(e) = 1 /\ e[1] = End
    BY Ends2
  <2> HIDE DEF d, e
  <2>2. /\ m \in Seq(Symbol) /\ Len(m) = Len(d) + Len(s)
        /\ \A i \in 1..(Len(d) + Len(s)) : m[i] = IF i <= Len(d) THEN d[i] ELSE s[i - Len(d)]
    BY <1>5, <2>1, ConcatProperties
  <2>3. Len(m) = Len(s) + 1 /\ m[1] = Dollar
    BY <1>5, <2>1, <2>2
  <2>4. \A j \in 1..Len(s) : m[1 + j] = s[j]
    <3> SUFFICES ASSUME NEW j \in 1..Len(s) PROVE m[1 + j] = s[j]
      OBVIOUS
    <3>1. 1 + j \in 1..(Len(d) + Len(s)) /\ ~(1 + j <= Len(d)) /\ (1 + j) - Len(d) = j
      BY <1>5, <2>1
    <3>2. QED
      BY <2>2, <3>1
  <2> HIDE DEF m
  <2>5. m \in Seq(Symbol) /\ e \in Seq(Symbol)
    BY <2>1, <2>2
  <2>6. /\ m \o e \in Seq(Symbol) /\ Len(m \o e) = Len(m) + Len(e)
        /\ \A i \in 1..(Len(m) + Len(e)) : (m \o e)[i] = IF i <= Len(m) THEN m[i] ELSE e[i - Len(m)]
    BY <2>5, ConcatProperties
  <2>7. wire' = m \o e
    BY <1>3 DEF m, d, e
  <2>8. /\ wire' \in Seq(Symbol) /\ Len(wire') = Len(m) + Len(e)
        /\ \A i \in 1..(Len(m) + Len(e)) : wire'[i] = IF i <= Len(m) THEN m[i] ELSE e[i - Len(m)]
    BY <2>6, <2>7
  <2>9. \A i \in 1..Len(m) : wire'[i] = m[i]
    BY <1>5, <2>1, <2>3, <2>8
  <2>10. wire'[Len(s) + 2] = End
    <3>1. Len(s) + 2 \in 1..(Len(m) + Len(e)) /\ ~(Len(s) + 2 <= Len(m))
          /\ (Len(s) + 2) - Len(m) = 1
      BY <1>5, <2>1, <2>3
    <3>2. wire'[Len(s) + 2] = e[(Len(s) + 2) - Len(m)]
      BY <2>8, <3>1
    <3>3. QED
      BY <2>1, <3>1, <3>2
  <2>11. \A j \in 1..Len(s) : wire'[1 + j] = s[j]
    BY <1>5, <2>3, <2>4, <2>9
  <2>12. QED
    BY <1>5, <2>1, <2>3, <2>8, <2>9, <2>10, <2>11
<1>7. Typed'
  BY <1>1, <1>2, <1>4, <1>6 DEF Typed
<1>q. Len(queue) \in Nat /\ Len(wire) = 0 /\ Rest = Len(queue)
  <2>1. Len(wire) = 0
    BY <1>1, EmptySeq, Zenon
  <2>2. QED
    BY <1>1, <2>1, Lengths DEF Rest
<1>8. Rest' = Rest + Len(s) + 2
  BY <1>1, <1>5, <1>6, <1>q DEF Rest
<1>9. \A x \in 1..Rest : Sym(x)' = Sym(x)
  BY <1>1, <1>q DEF Sym
<1>r. PICK r \in Nat : r = Rest
  BY <1>q
<1>10. ASSUME NEW j \in 1..(Len(s) + 2) PROVE Sym(r + j)' = wire'[j]
  <2>1. ~(r + j <= Len(queue)) /\ (r + j) - Len(queue) = j
    BY <1>5, <1>q, <1>r
  <2>2. QED
    BY <1>1, <2>1 DEF Sym
<1>11. Comes(s, 0, r + 1)'
  <2>l. Left(s, 0) = Len(s) + 1 /\ Left(s, 0) \in Nat
    BY <1>5 DEF Left
  <2>1. ASSUME NEW j \in 1..Left(s, 0) PROVE Sym(r + 1 + j)' = Expected(s, 0, j)
    <3>1. r + 1 + j = r + (1 + j) /\ 1 + j \in 1..(Len(s) + 2) /\ 0 + j = j
      BY <1>5, <1>q, <2>l
    <3>2. Sym(r + 1 + j)' = wire'[1 + j]
      BY <1>10, <3>1
    <3>3. CASE j <= Len(s)
      BY <1>5, <1>6, <2>l, <3>1, <3>2, <3>3 DEF Expected
    <3>4. CASE ~(j <= Len(s))
      <4>1. 1 + j = Len(s) + 2
        BY <1>5, <2>l, <3>4
      <4>2. QED
        BY <1>6, <3>1, <3>2, <3>4, <4>1 DEF Expected
    <3>5. QED
      BY <3>3, <3>4
  <2>3. r + 1 + Left(s, 0) <= Rest'
    BY <1>5, <1>8, <1>q, <1>r, <2>l
  <2>4. Left(s, 0) \in 0..Left(s, 0)
    BY <2>l
  <2>5. QED
    BY <2>1, <2>3, <2>4 DEF Comes, Left, Expected
<1>12. Rest \in Nat /\ Rest' \in Nat /\ Rest <= Rest' /\ \A t : Plain(t) => 0 \in 0..Len(t)
  BY <1>5, <1>8, <1>q, LenProperties DEF Plain
<1>g. Grown
  <2>1. \A x \in Nat \ {0} : Gap(x)' = Gap(x)
    BY <1>1 DEF Gap
  <2>2. QED
    BY <1>9, <1>12, <2>1 DEF Grown
<1>13. Whole'
  <2> SUFFICES ASSUME gps # "ended", NEW i \in 1..Rest', Sym(i)' = Dollar
               PROVE  \E k_ \in 0..fixes' : \E t \in Sentences(k_) : Comes(t, 0, i)'
    BY <1>1 DEF Whole
  <2>1. CASE i <= Rest
    <3>1. i \in 1..Rest /\ Sym(i) = Dollar
      BY <1>9, <1>12, <2>1
    <3>2. PICK l \in 0..fixes : \E t \in Sentences(l) : Comes(t, 0, i)
      BY <3>1 DEF Inv, Whole
    <3>3. PICK t \in Sentences(l) : Comes(t, 0, i)
      BY <3>2
    <3>4. t \in Seq(Symbol) /\ 0 \in 0..Len(t) /\ i \in Nat
      BY <1>1, <1>12, <3>1, SentenceIs DEF Plain
    <3>5. Comes(t, 0, i)'
      BY <1>g, <1>12, <3>3, <3>4, ComesStays
    <3>6. l \in 0..fixes'
      BY <1>1, <1>2, <1>4
    <3>7. QED
      BY <3>3, <3>5, <3>6
  <2>2. CASE i = r + 1
    <3>1. k \in 0..fixes'
      BY <1>2, <1>4
    <3>2. Comes(s, 0, i)'
      BY <1>11, <2>2
    <3>3. QED
      BY <3>1, <3>2
  <2>3. CASE i > Rest + 1
    <3>1. PICK j \in 2..(Len(s) + 2) : i = r + j
      <4>1. i - r \in 2..(Len(s) + 2) /\ i = r + (i - r)
        BY <1>5, <1>8, <1>q, <1>r, <2>3
      <4>2. QED
        BY <4>1
    <3>2. Sym(i)' = wire'[j]
      BY <1>5, <1>10, <3>1
    <3>3. CASE j = Len(s) + 2
      BY <1>6, <3>2, <3>3, Ends2
    <3>4. CASE j < Len(s) + 2
      <4>1. j - 1 \in 1..Len(s) /\ 1 + (j - 1) = j
        BY <1>5, <3>4
      <4>2. wire'[j] = s[j - 1]
        BY <1>6, <4>1
      <4>3. s[j - 1] # Dollar
        BY <1>5, <4>1, PlainFields
      <4>4. QED
        BY <3>2, <4>2, <4>3
    <3>5. QED
      BY <1>5, <3>1, <3>3, <3>4
  <2>4. QED
    BY <1>8, <1>12, <1>r, <2>1, <2>2, <2>3
<1>14. Inside'
  <2>1. fixes' \in Nat /\ fixes <= fixes'
    BY <1>2, <1>4
  <2>2. QED
    BY <1>1, <1>g, <2>1, InsideStays DEF Inv
<1>15. Flushed'
  BY <1>1 DEF Inv, Flushed
<1>16. LocationIsAFix'
  <2> SUFFICES ASSUME location # <<>>, ~spoiled
               PROVE  \E k_ \in 1..fixes' : location = Position(k_)
    BY <1>1 DEF LocationIsAFix
  <2>1. PICK l \in 1..fixes : location = Position(l)
    BY DEF Inv, LocationIsAFix
  <2>2. l \in 1..fixes'
    BY <1>1, <1>2, <1>4
  <2>3. QED
    BY <2>1, <2>2
<1>17. QED
  BY <1>7, <1>13, <1>14, <1>15, <1>16 DEF Inv

(* The head of the wire. *)
LEMMA WireMoves ==
  ASSUME Typed, wire # <<>>, wire' = Tail(wire)
  PROVE  /\ Head(wire) = wire[1] /\ Head(wire) \in Symbol
         /\ wire' \in Seq(Symbol) /\ Len(wire') = Len(wire) - 1
         /\ Len(wire) \in Nat \ {0} /\ Rest = Len(queue) + Len(wire)
         /\ \A i \in 1..(Len(wire) - 1) : wire'[i] = wire[i + 1]
<1>1. wire \in Seq(Symbol) /\ Len(wire) \in Nat \ {0}
  BY Lengths, EmptySeq
<1>2. /\ Head(wire) \in Symbol /\ Tail(wire) \in Seq(Symbol)
      /\ Len(Tail(wire)) = Len(wire) - 1
      /\ \A i \in 1..Len(Tail(wire)) : Tail(wire)[i] = wire[i + 1]
  BY <1>1, HeadTailProperties
<1>3. Head(wire) = wire[1]
  BY <1>1
<1>4. QED
  BY <1>1, <1>2, <1>3 DEF Rest

(* A symbol that is dropped before the port is set up was to be read next.  *)
LEMMA UnheardInv == Inv /\ Unheard => Inv'
<1> SUFFICES ASSUME Inv, Unheard PROVE Inv'
  OBVIOUS
<1>1. /\ wire # <<>> /\ wire' = Tail(wire) /\ gps \notin {"read", "nap"}
      /\ queue' = <<>> /\ missing' = FALSE
      /\ UNCHANGED <<gps, fixes, flag_read, buf, torn, location, spoiled>>
  BY DEF Unheard, Reading, parse, position
<1>i. Typed /\ Whole /\ Inside /\ Flushed /\ LocationIsAFix
  BY DEF Inv
<1>2. /\ wire' \in Seq(Symbol) /\ Len(wire') = Len(wire) - 1
      /\ Len(wire) \in Nat \ {0} /\ Rest = Len(queue) + Len(wire)
      /\ \A i \in 1..(Len(wire) - 1) : wire'[i] = wire[i + 1]
  BY <1>1, <1>i, WireMoves
<1>3. queue' \in Seq(Received) /\ Len(queue') = 0
  BY <1>1, EmptySeq, Zenon
<1>4. Typed'
  BY <1>1, <1>2, <1>3, <1>i DEF Typed
<1>5. LocationIsAFix' /\ Flushed'
  BY <1>1, <1>i DEF LocationIsAFix, Flushed
<1>6. CASE gps = "ended"
  BY <1>1, <1>4, <1>5, <1>6 DEF Inv, Whole, Inside
<1>7. CASE gps # "ended"
  <2>1. queue = <<>> /\ ~missing /\ ~flag_read
    BY <1>1, <1>i, <1>7 DEF Typed, Flushed
  <2>2. Len(queue) = 0
    BY <2>1, EmptySeq, Zenon
  <2>3. Rest' = Rest - 1 /\ 1 <= Rest /\ Rest = Len(wire)
    BY <1>2, <1>3, <2>2 DEF Rest
  <2>4. ASSUME NEW i \in 1..(Rest - 1) PROVE Sym(i)' = Sym(i + 1)
    <3>1. /\ ~(i <= Len(queue')) /\ ~(i + 1 <= Len(queue))
          /\ i - Len(queue') = i /\ (i + 1) - Len(queue) = i + 1
          /\ i \in 1..(Len(wire) - 1)
      BY <1>2, <1>3, <2>2, <2>3
    <3>2. Sym(i)' = wire'[i] /\ Sym(i + 1) = wire[i + 1]
      BY <3>1 DEF Sym
    <3>3. QED
      BY <1>2, <3>1, <3>2
  <2>5. ASSUME NEW i \in Nat \ {0} PROVE Gap(i)' = Gap(i + 1)
    <3>1. ~(i <= Len(queue')) /\ ~(i + 1 <= Len(queue))
      BY <1>3, <2>2
    <3>2. Gap(i)' = FALSE /\ Gap(i + 1) = FALSE
      BY <1>1, <2>1, <3>1 DEF Gap
    <3>3. QED
      BY <3>2
  <2>6. Moved
    BY <2>3, <2>4, <2>5 DEF Moved
  <2>7. Whole' /\ Inside'
    BY <1>1, <1>i, <1>7, <2>1, <2>6, WholeMoves DEF Inside
  <2>8. QED
    BY <1>4, <1>5, <2>7 DEF Inv
<1>8. QED
  BY <1>6, <1>7

(* A symbol that goes from the wire into the driver stays in its place.     *)
LEMMA ArriveInv == Inv /\ Arrive => Inv'
<1> SUFFICES ASSUME Inv, Arrive PROVE Inv'
  OBVIOUS
<1> DEFINE new == [symbol |-> Head(wire), gap |-> missing]
<1>1. /\ wire # <<>> /\ wire' = Tail(wire) /\ gps \in {"read", "nap"}
      /\ queue' = Append(queue, new) /\ missing' = FALSE
      /\ UNCHANGED <<gps, fixes, flag_read, buf, torn, location, spoiled>>
  BY DEF Arrive, Reading, parse, position
<1>i. Typed /\ Whole /\ Inside /\ Flushed /\ LocationIsAFix
  BY DEF Inv
<1>2. /\ Head(wire) = wire[1] /\ Head(wire) \in Symbol
      /\ wire' \in Seq(Symbol) /\ Len(wire') = Len(wire) - 1
      /\ Len(wire) \in Nat \ {0} /\ Rest = Len(queue) + Len(wire)
      /\ \A i \in 1..(Len(wire) - 1) : wire'[i] = wire[i + 1]
  BY <1>1, <1>i, WireMoves
<1>n. new \in Received /\ new.symbol = wire[1] /\ new.gap = missing
  BY <1>2, <1>i DEF Received, Typed
<1> HIDE DEF new
<1>l. Len(queue) \in Nat /\ queue \in Seq(Received) /\ Rest \in Nat
  BY <1>i, Lengths
<1>3. /\ queue' \in Seq(Received) /\ Len(queue') = Len(queue) + 1
      /\ \A i \in 1..Len(queue) : queue'[i] = queue[i]
      /\ queue'[Len(queue) + 1] = new
  BY <1>1, <1>l, <1>n, AppendProperties
<1>4. Typed'
  BY <1>1, <1>2, <1>3, <1>i DEF Typed
<1>5. LocationIsAFix' /\ Flushed'
  BY <1>1, <1>i DEF LocationIsAFix, Flushed
<1>6. Rest' = Rest
  BY <1>l, <1>2, <1>3 DEF Rest
<1>7. ASSUME NEW x \in 1..Rest PROVE Sym(x)' = Sym(x)
  <2>1. CASE x <= Len(queue)
    <3>1. x \in 1..Len(queue) /\ x <= Len(queue')
      BY <1>l, <1>3, <2>1
    <3>2. QED
      BY <1>3, <2>1, <3>1 DEF Sym
  <2>2. CASE x = Len(queue) + 1
    <3>1. x <= Len(queue') /\ ~(x <= Len(queue)) /\ x - Len(queue) = 1
      BY <1>l, <1>3, <2>2
    <3>2. Sym(x)' = queue'[x].symbol /\ Sym(x) = wire[x - Len(queue)]
      BY <3>1 DEF Sym
    <3>3. QED
      BY <1>3, <1>n, <2>2, <3>1, <3>2
  <2>3. CASE x > Len(queue) + 1
    <3>1. /\ ~(x <= Len(queue')) /\ ~(x <= Len(queue))
          /\ x - Len(queue') \in 1..(Len(wire) - 1)
          /\ (x - Len(queue')) + 1 = x - Len(queue)
      BY <1>2, <1>l, <1>3, <2>3
    <3>2. Sym(x)' = wire'[x - Len(queue')] /\ Sym(x) = wire[x - Len(queue)]
      BY <3>1 DEF Sym
    <3>3. QED
      BY <1>2, <3>1, <3>2
  <2>4. QED
    BY <1>l, <2>1, <2>2, <2>3
<1>8. ASSUME NEW x \in Nat \ {0} PROVE Gap(x)' = Gap(x)
  <2>1. CASE x <= Len(queue)
    <3>1. x \in 1..Len(queue) /\ x <= Len(queue')
      BY <1>l, <1>3, <2>1
    <3>2. QED
      BY <1>3, <2>1, <3>1 DEF Gap
  <2>2. CASE x = Len(queue) + 1
    <3>1. x <= Len(queue') /\ ~(x <= Len(queue))
      BY <1>l, <1>3, <2>2
    <3>2. Gap(x)' = queue'[x].gap
      BY <3>1 DEF Gap
    <3>3. Gap(x) = missing
      BY <2>2, <3>1, <1>i DEF Gap, Typed
    <3>4. QED
      BY <1>3, <1>n, <2>2, <3>2, <3>3
  <2>3. CASE x > Len(queue) + 1
    <3>1. ~(x <= Len(queue')) /\ ~(x <= Len(queue)) /\ x # Len(queue) + 1
      BY <1>l, <1>3, <2>3
    <3>2. Gap(x)' = FALSE /\ Gap(x) = FALSE
      BY <1>1, <3>1 DEF Gap
    <3>3. QED
      BY <3>2
  <2>4. QED
    BY <1>l, <2>1, <2>2, <2>3
<1>9. Grown
  BY <1>l, <1>6, <1>7, <1>8 DEF Grown
<1>10. Whole' /\ Inside'
  BY <1>1, <1>i, <1>6, <1>9, WholeStays, InsideStays DEF Typed
<1>11. QED
  BY <1>4, <1>5, <1>10 DEF Inv

(* A symbol that finds the driver full leaves a gap behind its symbols.     *)
LEMMA OverrunInv == Inv /\ Overrun => Inv'
<1> SUFFICES ASSUME Inv, Overrun PROVE Inv'
  OBVIOUS
<1>1. /\ wire # <<>> /\ wire' = Tail(wire) /\ gps \in {"read", "nap"}
      /\ missing' = TRUE
      /\ UNCHANGED <<gps, queue, fixes, flag_read, buf, torn, location, spoiled>>
  BY DEF Overrun, Reading, parse, position
<1>i. Typed /\ Whole /\ Inside /\ Flushed /\ LocationIsAFix
  BY DEF Inv
<1>2. /\ wire' \in Seq(Symbol) /\ Len(wire') = Len(wire) - 1
      /\ Len(wire) \in Nat \ {0} /\ Rest = Len(queue) + Len(wire)
      /\ \A i \in 1..(Len(wire) - 1) : wire'[i] = wire[i + 1]
  BY <1>1, <1>i, WireMoves
<1>l. Len(queue) \in Nat /\ Rest \in Nat
  BY <1>i, Lengths
<1>3. Typed'
  BY <1>1, <1>2, <1>i DEF Typed
<1>4. LocationIsAFix' /\ Flushed'
  BY <1>1, <1>i DEF LocationIsAFix, Flushed
<1>5. Rest' = Rest - 1 /\ Len(queue) + 1 <= Rest
  BY <1>1, <1>2, <1>l DEF Rest
<1>6. ASSUME NEW i \in 1..Len(queue) PROVE Sym(i)' = Sym(i) /\ Gap(i)' = Gap(i)
  <2>1. i <= Len(queue)
    BY <1>l
  <2>2. QED
    BY <1>1, <2>1 DEF Sym, Gap
<1>7. ASSUME NEW i \in (Len(queue) + 1)..(Rest - 1) PROVE Sym(i)' = Sym(i + 1)
  <2>1. /\ ~(i <= Len(queue)) /\ ~(i + 1 <= Len(queue))
        /\ i - Len(queue) \in 1..(Len(wire) - 1)
        /\ (i - Len(queue)) + 1 = (i + 1) - Len(queue)
    BY <1>l, <1>2, <1>5
  <2>2. Sym(i)' = wire'[i - Len(queue)] /\ Sym(i + 1) = wire[(i + 1) - Len(queue)]
    BY <1>1, <2>1 DEF Sym
  <2>3. QED
    BY <1>2, <2>1, <2>2
<1>8. ASSUME NEW i \in Nat, i = Len(queue) + 1 PROVE Gap(i)'
  <2>1. ~(i <= Len(queue)) /\ i = Len(queue) + 1
    BY <1>l, <1>8
  <2>2. QED
    BY <1>1, <2>1 DEF Gap
<1>9. Closed
  BY <1>5, <1>6, <1>7, <1>8 DEF Closed
<1>q. PICK q \in Nat : q = Len(queue)
  BY <1>l
<1>10. Whole'
  <2> SUFFICES ASSUME NEW i \in 1..(Rest - 1), Sym(i)' = Dollar
               PROVE  \E k \in 0..fixes : \E s \in Sentences(k) : Comes(s, 0, i)'
    BY <1>1, <1>5 DEF Whole
  <2>1. CASE i <= q
    <3>1. i \in 0..Len(queue) /\ i \in 1..Rest /\ Sym(i) = Dollar
      BY <1>6, <1>l, <1>q, <2>1
    <3>2. PICK k \in 0..fixes : \E s \in Sentences(k) : Comes(s, 0, i)
      BY <1>1, <1>i, <3>1 DEF Whole
    <3>3. PICK s \in Sentences(k) : Comes(s, 0, i)
      BY <3>2
    <3>4. s \in Seq(Symbol) /\ 0 \in 0..Len(s)
      BY <1>i, <3>3, SentenceIs, LenProperties DEF Typed, Plain
    <3>5. Comes(s, 0, i)'
      BY <1>9, <1>l, <3>1, <3>3, <3>4, ComesToTheGap
    <3>6. QED
      BY <3>3, <3>5
  <2>2. CASE i > q
    <3>1. i \in Nat /\ i > Len(queue) /\ i + 1 \in 1..Rest /\ Sym(i + 1) = Dollar
      <4>1. i \in (Len(queue) + 1)..(Rest - 1) /\ i \in Nat /\ i > Len(queue) /\ i + 1 \in 1..Rest
        BY <1>l, <1>q, <2>2
      <4>2. QED
        BY <1>7, <4>1
    <3>2. PICK k \in 0..fixes : \E s \in Sentences(k) : Comes(s, 0, i + 1)
      BY <1>1, <1>i, <3>1 DEF Whole
    <3>3. PICK s \in Sentences(k) : Comes(s, 0, i + 1)
      BY <3>2
    <3>4. s \in Seq(Symbol) /\ 0 \in 0..Len(s)
      BY <1>i, <3>3, SentenceIs, LenProperties DEF Typed, Plain
    <3>5. Comes(s, 0, i)'
      BY <1>9, <1>l, <3>1, <3>3, <3>4, ComesBehindTheGap
    <3>6. QED
      BY <3>3, <3>5
  <2>3. QED
    BY <1>q, <2>1, <2>2
<1>11. Inside'
  <2> SUFFICES ASSUME flag_read, ~torn
               PROVE  \E k \in 0..fixes : \E s \in Sentences(k) :
                        /\ Len(buf) <= Len(s) /\ \A j \in 1..Len(buf) : buf[j] = s[j]
                        /\ Comes(s, Len(buf), 0)'
    BY <1>1 DEF Inside
  <2>1. PICK k \in 0..fixes : \E s \in Sentences(k) :
          /\ Len(buf) <= Len(s) /\ \A j \in 1..Len(buf) : buf[j] = s[j]
          /\ Comes(s, Len(buf), 0)
    BY <1>1, <1>i DEF Inside
  <2>2. PICK s \in Sentences(k) :
          /\ Len(buf) <= Len(s) /\ \A j \in 1..Len(buf) : buf[j] = s[j]
          /\ Comes(s, Len(buf), 0)
    BY <2>1
  <2>n. PICK n \in Nat : n = Len(buf)
    BY <1>i, Lengths
  <2>3. s \in Seq(Symbol) /\ n \in 0..Len(s) /\ 0 \in 0..Len(queue)
    BY <1>i, <1>l, <2>2, <2>n, SentenceIs, LenProperties DEF Plain, Typed
  <2>4. Comes(s, n, 0)'
    BY <1>9, <1>l, <2>2, <2>n, <2>3, ComesToTheGap
  <2>5. Comes(s, Len(buf), 0)'
    BY <1>1, <2>n, <2>4
  <2>6. QED
    BY <2>2, <2>5
<1>12. QED
  BY <1>3, <1>4, <1>10, <1>11 DEF Inv

(* What the thread inside a sentence reads next, when nothing was lost.     *)
LEMMA NextInside ==
  ASSUME Typed, Inside, gps # "ended", flag_read, ~torn, ~Gap(1)
  PROVE  \E k \in 0..fixes : \E s \in Sentences(k) :
           /\ Plain(s) /\ Len(buf) <= Len(s) /\ \A j \in 1..Len(buf) : buf[j] = s[j]
           /\ Len(buf) = Len(s) => Sym(1) = End
           /\ Len(buf) < Len(s) => Sym(1) = s[Len(buf) + 1] /\ Comes(s, Len(buf) + 1, 1)
<1>1. PICK k \in 0..fixes : \E s \in Sentences(k) :
        /\ Len(buf) <= Len(s) /\ \A j \in 1..Len(buf) : buf[j] = s[j]
        /\ Comes(s, Len(buf), 0)
  BY DEF Inside
<1>2. PICK s \in Sentences(k) :
        /\ Len(buf) <= Len(s) /\ \A j \in 1..Len(buf) : buf[j] = s[j]
        /\ Comes(s, Len(buf), 0)
  BY <1>1
<1>3. Plain(s) /\ s \in Seq(Symbol) /\ Len(buf) \in 0..Len(s)
  BY <1>2, SentenceIs, LenProperties, Lengths DEF Plain, Typed
<1>4. /\ Len(buf) < Len(s) => Sym(1) = s[Len(buf) + 1] /\ Comes(s, Len(buf) + 1, 1)
      /\ Len(buf) = Len(s) => Sym(1) = End
  BY <1>2, <1>3, ComesFirst
<1>5. QED
  BY <1>2, <1>3, <1>4

(* A dollar begins a sentence: there is none inside one that lost nothing.  *)
LEMMA ReadDollarInv == Inv /\ ReadDollar => Inv'
<1> SUFFICES ASSUME Inv, ReadDollar PROVE Inv'
  OBVIOUS
<1>1. /\ Take /\ in = Dollar /\ gps = "read"
      /\ flag_read' = TRUE /\ torn' = Torn
      /\ buf' = IF flag_read THEN buf ELSE <<>>
      /\ UNCHANGED <<gps, wire, missing, fixes, location, spoiled>>
  BY DEF ReadDollar, Take, position
<1>i. Typed /\ Whole /\ Inside /\ Flushed /\ LocationIsAFix
  BY DEF Inv
<1>2. /\ queue' \in Seq(Received) /\ Moved /\ Sym(1) = Dollar /\ 1 <= Rest
      /\ Gap(1) = Head(queue).gap /\ Head(queue).gap \in BOOLEAN
  BY <1>1, <1>i, ReadMoves DEF Moved
<1>3. flag_read => torn' = TRUE
  <2>1. SUFFICES ASSUME flag_read, ~torn, ~Gap(1) PROVE FALSE
    BY <1>1, <1>2, <1>i DEF Typed, Torn
  <2>2. PICK k \in 0..fixes : \E s \in Sentences(k) :
           /\ Plain(s) /\ Len(buf) <= Len(s) /\ \A j \in 1..Len(buf) : buf[j] = s[j]
           /\ Len(buf) = Len(s) => Sym(1) = End
           /\ Len(buf) < Len(s) => Sym(1) = s[Len(buf) + 1] /\ Comes(s, Len(buf) + 1, 1)
    BY <1>1, <1>i, <2>1, NextInside
  <2>3. PICK s \in Sentences(k) :
           /\ Plain(s) /\ Len(buf) <= Len(s)
           /\ Len(buf) = Len(s) => Sym(1) = End
           /\ Len(buf) < Len(s) => Sym(1) = s[Len(buf) + 1]
    BY <2>2
  <2>4. Len(buf) \in Nat /\ Len(s) \in Nat
    BY <1>i, <2>3, Lengths, LenProperties DEF Plain
  <2>5. Len(buf) < Len(s)
    BY <1>2, <2>3, <2>4, Ends2
  <2>6. Len(buf) + 1 \in 1..Len(s)
    BY <2>4, <2>5
  <2>7. s[Len(buf) + 1] # Dollar
    BY <2>3, <2>6, PlainFields
  <2>8. QED
    BY <1>2, <2>3, <2>5, <2>7
<1>4. buf' \in Seq(Symbol) /\ torn' \in BOOLEAN
  <2>1. buf' = <<>> \/ buf' = buf
    BY <1>1
  <2>2. <<>> \in Seq(Symbol) /\ buf \in Seq(Symbol)
    BY <1>i, Lengths, EmptySeq
  <2>3. torn' \in BOOLEAN
    BY <1>1, <1>2, <1>i DEF Typed, Torn
  <2>4. QED
    BY <2>1, <2>2, <2>3, Zenon
<1>5. Typed'
  BY <1>1, <1>2, <1>4, <1>i DEF Typed
<1>6. Whole'
  BY <1>1, <1>2, <1>i, WholeMoves
<1>7. Inside'
  <2> SUFFICES ASSUME ~torn'
               PROVE  \E k \in 0..fixes' : \E s \in Sentences(k) :
                        /\ Len(buf') <= Len(s) /\ \A j \in 1..Len(buf') : buf'[j] = s[j]
                        /\ Comes(s, Len(buf), 0)'
    BY DEF Inside
  <2>0. buf' = <<>> /\ Len(buf') = 0
    <3>1. buf' = <<>>
      BY <1>1, <1>3
    <3>2. QED
      BY <3>1, EmptySeq, Zenon
  <2>1. PICK k \in 0..fixes : \E s \in Sentences(k) : Comes(s, 0, 1)
    <3>1. 1 \in 1..Rest
      BY <1>2, <1>i, Lengths
    <3>2. QED
      BY <1>1, <1>2, <1>i, <3>1 DEF Whole
  <2>2. PICK s \in Sentences(k) : Comes(s, 0, 1)
    BY <2>1
  <2>3. s \in Seq(Symbol) /\ 0 \in 0..Len(s) /\ Len(s) \in Nat /\ Rest \in Nat
    BY <1>i, SentenceIs, LenProperties, Lengths DEF Plain, Typed
  <2>4. Comes(s, 0, 0)'
    <3>1. Comes(s, 0, 0 + 1)
      BY <2>2
    <3>2. QED
      BY <1>2, <2>3, <3>1, ComesSooner
  <2>6. Comes(s, Len(buf), 0)'
    BY <2>0, <2>4
  <2>7. Len(buf') <= Len(s) /\ \A j \in 1..Len(buf') : buf'[j] = s[j]
    BY <2>0, <2>3
  <2>8. QED
    BY <1>1, <2>2, <2>6, <2>7
<1>8. Flushed' /\ LocationIsAFix'
  BY <1>1, <1>i DEF Flushed, LocationIsAFix
<1>9. QED
  BY <1>5, <1>6, <1>7, <1>8 DEF Inv

(* A field inside a sentence that lost nothing is the next one of it.       *)
LEMMA ReadFieldInv == Inv /\ ReadField => Inv'
<1> SUFFICES ASSUME Inv, ReadField PROVE Inv'
  OBVIOUS
<1>1. /\ Take /\ in # End /\ gps = "read" /\ torn' = Torn
      /\ buf' = IF flag_read THEN Append(buf, in) ELSE buf
      /\ UNCHANGED <<gps, wire, missing, fixes, flag_read, location, spoiled>>
  BY DEF ReadField, Take, position
<1>i. Typed /\ Whole /\ Inside /\ Flushed /\ LocationIsAFix
  BY DEF Inv
<1>2. /\ queue' \in Seq(Received) /\ Moved /\ Sym(1) = in /\ in \in Symbol
      /\ Gap(1) = Head(queue).gap /\ Head(queue).gap \in BOOLEAN
  BY <1>1, <1>i, ReadMoves
<1>3. Whole'
  BY <1>1, <1>2, <1>i, WholeMoves
<1>4. Flushed' /\ LocationIsAFix'
  BY <1>1, <1>i DEF Flushed, LocationIsAFix
<1>t. torn' \in BOOLEAN
  BY <1>1, <1>2, <1>i DEF Typed, Torn
<1>5. CASE ~flag_read
  <2>1. Typed'
    BY <1>1, <1>2, <1>5, <1>i, <1>t DEF Typed
  <2>2. Inside'
    BY <1>1, <1>5 DEF Inside
  <2>3. QED
    BY <1>3, <1>4, <2>1, <2>2 DEF Inv
<1>6. CASE flag_read
  <2>1. /\ buf' \in Seq(Symbol) /\ Len(buf') = Len(buf) + 1
        /\ \A i \in 1..Len(buf) : buf'[i] = buf[i]
        /\ buf'[Len(buf) + 1] = in
    <3>1. buf' = Append(buf, in) /\ buf \in Seq(Symbol)
      BY <1>1, <1>6, <1>i, Lengths
    <3>2. QED
      BY <1>2, <3>1, AppendProperties
  <2>2. Typed'
    BY <1>1, <1>2, <1>i, <1>t, <2>1 DEF Typed
  <2>3. CASE torn'
    <3>1. Inside'
      BY <2>3 DEF Inside
    <3>2. QED
      BY <1>3, <1>4, <2>2, <3>1 DEF Inv
  <2>4. CASE ~torn'
    <3>0. ~torn /\ ~Gap(1)
      BY <1>1, <1>2, <1>6, <2>4 DEF Torn
    <3>1. PICK k \in 0..fixes : \E s \in Sentences(k) :
             /\ Plain(s) /\ Len(buf) <= Len(s) /\ \A j \in 1..Len(buf) : buf[j] = s[j]
             /\ Len(buf) = Len(s) => Sym(1) = End
             /\ Len(buf) < Len(s) => Sym(1) = s[Len(buf) + 1] /\ Comes(s, Len(buf) + 1, 1)
      BY <1>1, <1>i, <1>6, <3>0, NextInside
    <3>2. PICK s \in Sentences(k) :
             /\ Plain(s) /\ Len(buf) <= Len(s) /\ \A j \in 1..Len(buf) : buf[j] = s[j]
             /\ Len(buf) = Len(s) => Sym(1) = End
             /\ Len(buf) < Len(s) => Sym(1) = s[Len(buf) + 1] /\ Comes(s, Len(buf) + 1, 1)
      BY <3>1
    <3>3. Len(buf) \in Nat /\ Len(s) \in Nat /\ s \in Seq(Symbol) /\ Rest \in Nat
      BY <1>i, <3>2, Lengths, LenProperties DEF Plain
    <3>4. Len(buf) < Len(s)
      BY <1>1, <1>2, <3>2, <3>3
    <3>5. PICK n \in 0..Len(s) : n = Len(buf) + 1
      BY <3>3, <3>4
    <3>6. Comes(s, n, 0)'
      <4>1. Comes(s, n, 0 + 1)
        BY <3>2, <3>4, <3>5
      <4>2. QED
        BY <1>2, <3>3, <4>1, ComesSooner
    <3>7. Comes(s, Len(buf), 0)'
      BY <2>1, <3>5, <3>6
    <3>8. Len(buf') <= Len(s) /\ \A j \in 1..Len(buf') : buf'[j] = s[j]
      <4>1. Len(buf') <= Len(s)
        BY <2>1, <3>3, <3>4
      <4>2. ASSUME NEW j \in 1..Len(buf') PROVE buf'[j] = s[j]
        <5>1. j \in 1..Len(buf) \/ j = Len(buf) + 1
          BY <2>1, <3>3
        <5>2. QED
          BY <1>2, <2>1, <3>2, <3>4, <5>1
      <4>3. QED
        BY <4>1, <4>2
    <3>9. Inside'
      BY <1>1, <3>2, <3>7, <3>8 DEF Inside
    <3>10. QED
      BY <1>3, <1>4, <2>2, <3>9 DEF Inv
  <2>5. QED
    BY <2>3, <2>4
<1>7. QED
  BY <1>5, <1>6

(* At the end of a sentence that lost nothing buf is the whole of it.       *)
LEMMA ReadEndInv == Inv /\ ReadEnd => Inv'
<1> SUFFICES ASSUME Inv, ReadEnd PROVE Inv'
  OBVIOUS
<1>1. /\ Take /\ in = End /\ gps = "read"
      /\ flag_read' = FALSE /\ torn' = FALSE /\ buf' = <<>>
      /\ UNCHANGED <<wire, missing, fixes>>
      /\ \/ /\ flag_read /\ Parsed(buf) # <<>>
            /\ location' = Parsed(buf) /\ spoiled' = Torn /\ gps' = "nap"
         \/ UNCHANGED <<location, spoiled, gps>>
  BY DEF ReadEnd, Take, position
<1>i. Typed /\ Whole /\ Inside /\ Flushed /\ LocationIsAFix
  BY DEF Inv
<1>2. /\ queue' \in Seq(Received) /\ Moved /\ Sym(1) = End
      /\ Gap(1) = Head(queue).gap /\ Head(queue).gap \in BOOLEAN
  BY <1>1, <1>i, ReadMoves
<1>3. Whole'
  BY <1>1, <1>2, <1>i, WholeMoves
<1>4. buf' \in Seq(Symbol) /\ spoiled' \in BOOLEAN
  <2>1. buf' \in Seq(Symbol)
    BY <1>1, EmptySeq, Zenon
  <2>2. spoiled' \in BOOLEAN
    BY <1>1, <1>2, <1>i DEF Typed, Torn
  <2>3. QED
    BY <2>1, <2>2
<1>5. Typed'
  BY <1>1, <1>2, <1>4, <1>i DEF Typed
<1>6. Flushed' /\ Inside'
  BY <1>1 DEF Flushed, Inside
<1>7. LocationIsAFix'
  <2>1. CASE UNCHANGED <<location, spoiled>>
    BY <1>1, <1>i, <2>1 DEF LocationIsAFix
  <2>2. CASE spoiled'
    BY <2>2 DEF LocationIsAFix
  <2>3. CASE /\ flag_read /\ Parsed(buf) # <<>> /\ location' = Parsed(buf)
             /\ spoiled' = Torn /\ ~spoiled'
    <3>0. ~torn /\ ~Gap(1)
      BY <1>2, <2>3 DEF Torn
    <3>1. PICK k \in 0..fixes : \E s \in Sentences(k) :
             /\ Plain(s) /\ Len(buf) <= Len(s) /\ \A j \in 1..Len(buf) : buf[j] = s[j]
             /\ Len(buf) = Len(s) => Sym(1) = End
             /\ Len(buf) < Len(s) => Sym(1) = s[Len(buf) + 1] /\ Comes(s, Len(buf) + 1, 1)
      BY <1>1, <1>i, <2>3, <3>0, NextInside
    <3>2. PICK s \in Sentences(k) :
             /\ Plain(s) /\ Len(buf) <= Len(s) /\ \A j \in 1..Len(buf) : buf[j] = s[j]
             /\ Len(buf) < Len(s) => Sym(1) = s[Len(buf) + 1]
      BY <3>1
    <3>3. /\ Len(buf) \in Nat /\ Len(s) \in Nat /\ s \in Seq(Symbol) /\ buf \in Seq(Symbol)
          /\ k \in Nat /\ k <= fixes /\ fixes \in Nat
      BY <1>i, <3>2, Lengths, LenProperties DEF Plain, Typed
    <3>4. Len(buf) = Len(s)
      <4>1. SUFFICES ASSUME Len(buf) < Len(s) PROVE FALSE
        BY <3>2, <3>3
      <4>2. Len(buf) + 1 \in 1..Len(s)
        BY <3>3, <4>1
      <4>3. s[Len(buf) + 1] # End
        BY <3>2, <4>2, PlainFields
      <4>4. QED
        BY <1>2, <3>2, <4>1, <4>3
    <3>5. \A j \in 1..Len(s) : s[j] = buf[j]
      BY <3>2, <3>4
    <3>6. buf = s
      BY <3>3, <3>4, <3>5, SeqEqual
    <3>7. k >= 1 /\ Parsed(buf) = Position(k)
      <4>1. Parsed(s) = <<>> \/ (k >= 1 /\ Parsed(s) = Position(k))
        BY <3>3, SentenceIs
      <4>2. QED
        BY <2>3, <3>6, <4>1, Zenon
    <3>8. k \in 1..fixes' /\ location' = Position(k)
      BY <1>1, <2>3, <3>3, <3>7
    <3>9. QED
      BY <3>8 DEF LocationIsAFix
  <2>4. QED
    BY <1>1, <2>1, <2>2, <2>3
<1>8. QED
  BY <1>3, <1>5, <1>6, <1>7 DEF Inv

(* The steps that leave the symbols and the sentence alone, or end the      *)
(* thread.                                                                 *)
LEMMA OtherInv ==
  ASSUME Inv, UNCHANGED <<wire, queue, missing, fixes, location, spoiled>>,
         UNCHANGED parse \/ (flag_read' = FALSE /\ buf' = <<>> /\ torn' = FALSE),
         gps' \in {"delay", "setOpt", "read", "nap", "ended"},
         gps' # "ended" => gps # "ended",
         gps' \in {"delay", "setOpt"} => gps \in {"delay", "setOpt"}
  PROVE  Inv'
<1>i. Typed /\ Whole /\ Inside /\ Flushed /\ LocationIsAFix
  BY DEF Inv
<1>1. Typed'
  <2>1. buf' \in Seq(Symbol)
    <3>1. <<>> \in Seq(Symbol) /\ buf \in Seq(Symbol) /\ (buf' = <<>> \/ buf' = buf)
      BY <1>i, EmptySeq, Lengths DEF parse
    <3>2. QED
      BY <3>1, Zenon
  <2>2. QED
    BY <1>i, <2>1 DEF Typed, parse
<1>2. Grown /\ Rest' = Rest
  <2>1. Rest \in Nat
    BY <1>i, Lengths
  <2>2. Rest' = Rest /\ (\A x \in 1..Rest : Sym(x)' = Sym(x))
        /\ \A x \in Nat \ {0} : Gap(x)' = Gap(x)
    BY DEF Rest, Sym, Gap
  <2>3. QED
    BY <2>1, <2>2 DEF Grown
<1>3. Whole' /\ Inside'
  <2>1. flag_read' /\ ~torn' => flag_read /\ ~torn /\ buf' = buf
    BY DEF parse
  <2>2. QED
    BY <1>2, <1>i, <2>1, WholeStays, InsideStays DEF Typed
<1>4. Flushed' /\ LocationIsAFix'
  BY <1>i DEF Flushed, LocationIsAFix, parse
<1>5. QED
  BY <1>1, <1>3, <1>4 DEF Inv

LEMMA NextInv == Inv /\ [Next]_vars => Inv'
<1> SUFFICES ASSUME Inv, [Next]_vars PROVE Inv'
  OBVIOUS
<1>t. gps \in {"delay", "setOpt", "read", "nap", "ended"} /\ flag_read \in BOOLEAN
  BY DEF Inv, Typed
<1>1. CASE StartSentence
  BY <1>1, StartSentenceInv
<1>2. CASE Unheard \/ Arrive \/ Overrun
  BY <1>2, UnheardInv, ArriveInv, OverrunInv
<1>3. CASE ReadDollar
  BY <1>3, ReadDollarInv
<1>4. CASE ReadField
  BY <1>4, ReadFieldInv
<1>5. CASE ReadEnd
  BY <1>5, ReadEndInv
<1> USE DEF receiver, driver, position
<1>6. CASE OpenPort
  BY <1>6, <1>t, OtherInv DEF OpenPort
<1>7. CASE OpenFails
  BY <1>7, <1>t, OtherInv DEF OpenFails
<1>8. CASE SetOpt
  <2>1. queue = <<>> /\ missing = FALSE
    BY <1>8 DEF SetOpt, Inv, Flushed, Typed
  <2>2. QED
    BY <1>8, <1>t, <2>1, OtherInv DEF SetOpt
<1>9. CASE SetOptFails
  BY <1>9, <1>t, OtherInv DEF SetOptFails, EndReading
<1>10. CASE Nap
  BY <1>10, <1>t, OtherInv DEF Nap
<1>11. CASE ReadNothing
  BY <1>11, <1>t, OtherInv DEF ReadNothing, EndReading
<1>12. CASE Die
  BY <1>12, <1>t, OtherInv DEF Die, DieEarly, EndReading
<1>13. CASE Unplug
  BY <1>13, <1>t, OtherInv DEF Unplug
<1>14. CASE Cancel
  BY <1>14, <1>t, OtherInv DEF Cancel
<1>15. CASE UNCHANGED vars
  BY <1>15, <1>t, OtherInv DEF vars
<1>16. QED
  BY <1>1, <1>2, <1>3, <1>4, <1>5, <1>6, <1>7, <1>8, <1>9, <1>10, <1>11, <1>12, <1>13,
     <1>14, <1>15 DEF Next, GpsStep

(* The position that the packets carry is one the receiver reported as      *)
(* valid, whole and from one sentence, when the driver lost nothing inside  *)
(* that sentence, for any number of fixes, any size of the driver's buffer  *)
(* and any losses elsewhere: neither starting to read in the middle of a    *)
(* sentence, nor a sentence that lost a part before this one, nor the end   *)
(* of the thread mixes two of them.                                        *)
THEOREM LocationIsReported == Spec => []LocationIsAFix
<1>1. Inv => LocationIsAFix
  BY DEF Inv
<1>2. QED
  BY <1>1, InitInv, NextInv, PTL DEF Spec

-----------------------------------------------------------------------------
(* The types, and who holds the port. *)

(* What the types need beside Inv. *)
PortTyped ==
  /\ fd \in {"none", "open", "closed"}
  /\ gps \in {"setOpt", "read", "nap"} <=> fd = "open"
  /\ gps_failed \in BOOLEAN /\ cancelled \in BOOLEAN /\ unplugged \in BOOLEAN
  /\ fixes \in 0..MaxFixes /\ Len(queue) <= MaxQueue /\ gaps \in 0..MaxGaps
  /\ Len(location) \in {0, 4}

LEMMA ParsedLength ==
  ASSUME NEW line \in Seq(Symbol), Parsed(line) # <<>>
  PROVE  Len(Parsed(line)) = 4
<1>1. Len(line) >= 7 /\ Parsed(line) = SubSeq(line, 4, 7) /\ Len(line) \in Nat
  BY LenProperties DEF Parsed
<1>2. \A i \in 4..7 : line[i] \in Symbol
  <2>1. \A i \in 4..7 : i \in 1..Len(line)
    BY <1>1
  <2>2. QED
    BY <2>1, ElementOfSeq
<1>3. Len(SubSeq(line, 4, 7)) = 4
  BY <1>2, SubSeqProperties
<1>4. QED
  BY <1>1, <1>3

LEMMA PortTypedNext == ASSUME Inv, PortTyped, [Next]_vars PROVE PortTyped'
<1> USE GpsAssumption DEF PortTyped, receiver, driver, position
<1>t. /\ queue \in Seq(Received) /\ {wire, buf} \subseteq Seq(Symbol) /\ fixes \in Nat
      /\ gps \in {"delay", "setOpt", "read", "nap", "ended"} /\ missing \in BOOLEAN
      /\ MaxFixes \in Nat /\ MaxQueue \in Nat /\ MaxGaps \in Nat
      /\ Len(queue) \in Nat /\ Len(<<>>) = 0
  BY LenProperties DEF Inv, Typed
<1>1. CASE StartSentence
  BY <1>1, <1>t DEF StartSentence
<1>2. CASE Unheard
  BY <1>2, <1>t DEF Unheard
<1>3. CASE Arrive
  <2>1. [symbol |-> Head(wire), gap |-> missing] \in Received
    BY <1>3, <1>t, HeadTailProperties DEF Arrive, Received
  <2>2. Len(queue') = Len(queue) + 1 /\ Len(queue) < MaxQueue
    BY <1>3, <2>1, <1>t, AppendProperties DEF Arrive
  <2>3. Len(queue') <= MaxQueue
    BY <1>t, <2>2
  <2>4. QED
    BY <1>3, <2>3 DEF Arrive
<1>4. CASE Overrun
  <2>1. gaps' \in 0..MaxGaps
    BY <1>4, <1>t DEF Overrun
  <2>2. QED
    BY <1>4, <1>t, <2>1 DEF Overrun
<1>5. CASE ReadDollar \/ ReadField \/ ReadEnd
  <2>1. /\ queue # <<>> /\ queue' = Tail(queue) /\ gps = "read" /\ gps' \in {"read", "nap"}
        /\ UNCHANGED <<fd, gps_failed, cancelled, unplugged, fixes, gaps>>
        /\ UNCHANGED location \/ (Parsed(buf) # <<>> /\ location' = Parsed(buf))
    BY <1>5 DEF ReadDollar, ReadField, ReadEnd, Take
  <2>2. Len(Tail(queue)) = Len(queue) - 1
    BY <2>1, <1>t, HeadTailProperties
  <2>3. Len(queue') <= MaxQueue
    BY <1>t, <2>1, <2>2
  <2>4. Len(location') \in {0, 4}
    BY <1>t, <2>1, ParsedLength
  <2>5. QED
    BY <2>1, <2>3, <2>4
<1>6. CASE OpenPort
  BY <1>6, <1>t DEF OpenPort
<1>7. CASE OpenFails
  BY <1>7, <1>t DEF OpenFails
<1>8. CASE SetOpt
  BY <1>8, <1>t DEF SetOpt
<1>9. CASE SetOptFails
  BY <1>9, <1>t DEF SetOptFails, EndReading
<1>10. CASE Nap
  BY <1>10, <1>t DEF Nap
<1>11. CASE ReadNothing
  BY <1>11, <1>t DEF ReadNothing, EndReading
<1>12. CASE Die
  BY <1>12, <1>t DEF Die, DieEarly, Reading, EndReading
<1>13. CASE Unplug
  BY <1>13, <1>t DEF Unplug
<1>14. CASE Cancel
  BY <1>14, <1>t DEF Cancel
<1>15. CASE UNCHANGED vars
  BY <1>15, <1>t DEF vars
<1>16. QED
  BY <1>1, <1>2, <1>3, <1>4, <1>5, <1>6, <1>7, <1>8, <1>9, <1>10, <1>11, <1>12, <1>13,
     <1>14, <1>15 DEF Next, GpsStep

(* Every variable has its type.  The port is open exactly while the thread  *)
(* is between opening it and its end: however the thread ends, cancelled    *)
(* before or after the cleanup handler was installed or by itself, it       *)
(* leaves no open port, and it never works on a closed one.                *)
THEOREM TypeCorrect == Spec => []TypeOK
<1>1. Init => PortTyped
  <2>1. MaxFixes \in Nat /\ MaxQueue \in Nat /\ MaxGaps \in Nat /\ Len(<<>>) = 0
    BY GpsAssumption
  <2> SUFFICES ASSUME Init PROVE PortTyped
    OBVIOUS
  <2>2. /\ gps = "delay" /\ fd = "none" /\ fixes = 0 /\ queue = <<>> /\ gaps = 0
        /\ gps_failed = FALSE /\ cancelled = FALSE /\ unplugged = FALSE
        /\ location = <<>>
    BY DEF Init
  <2>3. /\ Len(queue) <= MaxQueue /\ fixes \in 0..MaxFixes /\ gaps \in 0..MaxGaps
        /\ Len(location) \in {0, 4}
    BY <2>1, <2>2
  <2>4. QED
    BY <2>2, <2>3 DEF PortTyped
<1>2. Inv /\ PortTyped => TypeOK
  BY DEF Inv, Typed, PortTyped, TypeOK
<1>3. QED
  BY <1>1, <1>2, InitInv, NextInv, PortTypedNext, PTL DEF Spec
=============================================================================
