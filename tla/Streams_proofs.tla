--------------------------- MODULE Streams_proofs ---------------------------
(***************************************************************************)
(* Proofs about modules IpcStream and NetStream, for every size of the     *)
(* buffers.  On a stream of one machine: type correctness, the order of    *)
(* the bytes, and that nobody sleeps in vain.  On a stream between two     *)
(* machines, for any number of packets under way, repetitions and faults   *)
(* besides: type correctness, the order and the completeness of the bytes, *)
(* the end of the stream, and that no step forgets a sleeper.              *)
(***************************************************************************)
EXTENDS IpcStream, NetStream, FiniteSetTheorems, SequenceTheorems, TLAPS

(***************************************************************************)
(*                        STREAMS OF ONE MACHINE                           *)
(***************************************************************************)

-----------------------------------------------------------------------------
(* Runs of bytes *)

LEMMA FromType ==
  ASSUME NEW a \in Nat, NEW n \in Nat
  PROVE  /\ From(a + 1, a + n) \in Seq(Nat)
         /\ Len(From(a + 1, a + n)) = n
         /\ \A i \in 1 .. n : From(a + 1, a + n)[i] = a + i
<1> DEFINE s == From(a + 1, a + n)
<1>1. (a + n) - (a + 1) + 1 = n
  OBVIOUS
<1>2. s = [i \in 1 .. n |-> (a + 1) + i - 1]
  BY <1>1 DEF From
<1>3. s \in [1 .. n -> Nat] /\ \A i \in 1 .. n : s[i] = a + i
  BY <1>2
<1> HIDE DEF s
<1>4. s \in Seq(Nat)
  BY <1>3, SeqDef
<1>5. DOMAIN s = 1 .. n /\ Len(s) \in Nat /\ DOMAIN s = 1 .. Len(s)
  BY <1>3, <1>4, LenProperties
<1>6. Len(s) = n
  BY <1>5
<1> QED BY <1>3, <1>4, <1>6 DEF s

\* All the bytes so far
LEMMA FromOne ==
  ASSUME NEW n \in Nat
  PROVE  /\ From(1, n) \in Seq(Nat)
         /\ Len(From(1, n)) = n
         /\ \A i \in 1 .. n : From(1, n)[i] = i
<1>1. 0 \in Nat /\ 0 + 1 = 1 /\ 0 + n = n /\ \A i \in 1 .. n : 0 + i = i
  OBVIOUS
<1>2. /\ From(0 + 1, 0 + n) \in Seq(Nat)
      /\ Len(From(0 + 1, 0 + n)) = n
      /\ \A i \in 1 .. n : From(0 + 1, 0 + n)[i] = 0 + i
  BY <1>1, FromType, Zenon
<1> QED BY <1>1, <1>2

\* Runs that follow each other
LEMMA FromJoin ==
  ASSUME NEW a \in Nat, NEW n \in Nat
  PROVE  From(1, a) \o From(a + 1, a + n) = From(1, a + n)
<1> DEFINE s == From(1, a)  t == From(a + 1, a + n)  u == From(1, a + n)
<1>1. s \in Seq(Nat) /\ Len(s) = a /\ \A i \in 1 .. a : s[i] = i
  BY FromOne
<1>2. t \in Seq(Nat) /\ Len(t) = n /\ \A i \in 1 .. n : t[i] = a + i
  BY FromType
<1>3. u \in Seq(Nat) /\ Len(u) = a + n /\ \A i \in 1 .. a + n : u[i] = i
  <2>1. a + n \in Nat
    OBVIOUS
  <2> QED BY <2>1, FromOne
<1> HIDE DEF s, t, u
<1>4. /\ s \o t \in Seq(Nat) /\ Len(s \o t) = a + n
      /\ \A i \in 1 .. a + n : (s \o t)[i] = IF i <= a THEN s[i] ELSE t[i - a]
  BY ZenonT(60), <1>1, <1>2, ConcatProperties
<1>5. \A i \in 1 .. a + n : (s \o t)[i] = u[i]
  BY SMTT(40), <1>1, <1>2, <1>3, <1>4
<1>6. s \o t = u
  BY <1>3, <1>4, <1>5, SeqEqual
<1> QED BY <1>6 DEF s, t, u

\* The beginning of a run is a run.
LEMMA FromPrefix ==
  ASSUME NEW s \in Seq(Nat), NEW t \in Seq(Nat), NEW n \in Nat, s \o t = From(1, n)
  PROVE  s = From(1, Len(s)) /\ n = Len(s) + Len(t)
<1> DEFINE u == From(1, Len(s))
<1>1. Len(s) \in Nat /\ Len(t) \in Nat
  BY LenProperties
<1>2. /\ Len(s \o t) = Len(s) + Len(t)
      /\ \A i \in 1 .. Len(s) + Len(t) : (s \o t)[i] = IF i <= Len(s) THEN s[i] ELSE t[i - Len(s)]
  BY ConcatProperties
<1>3. Len(s \o t) = n /\ \A i \in 1 .. n : (s \o t)[i] = i
  BY FromOne
<1>4. n = Len(s) + Len(t) /\ \A i \in 1 .. Len(s) : s[i] = i
  BY <1>1, <1>2, <1>3
<1>5. u \in Seq(Nat) /\ Len(u) = Len(s) /\ \A i \in 1 .. Len(s) : u[i] = i
  BY <1>1, FromOne
<1> HIDE DEF u
<1>6. s = u
  BY <1>4, <1>5, SeqEqual
<1> QED BY <1>4, <1>6 DEF u

\* A sequence cut in two
LEMMA Cut ==
  ASSUME NEW b \in Seq(Nat), NEW d \in Nat, d <= Len(b)
  PROVE  /\ SubSeq(b, 1, d) \in Seq(Nat) /\ Len(SubSeq(b, 1, d)) = d
         /\ SubSeq(b, d + 1, Len(b)) \in Seq(Nat) /\ Len(SubSeq(b, d + 1, Len(b))) = Len(b) - d
         /\ SubSeq(b, 1, d) \o SubSeq(b, d + 1, Len(b)) = b
<1>1. Len(b) \in Nat /\ \A i \in 1 .. Len(b) : b[i] \in Nat
  BY LenProperties, ElementOfSeq
<1>2. SubSeq(b, 1, d) \in Seq(Nat) /\ Len(SubSeq(b, 1, d)) = d
  BY <1>1, SubSeqProperties
<1>3. SubSeq(b, d + 1, Len(b)) \in Seq(Nat) /\ Len(SubSeq(b, d + 1, Len(b))) = Len(b) - d
  BY <1>1, SubSeqProperties
<1>4. /\ 1 \in 1 .. Len(b) + 1 /\ d \in (1 - 1) .. Len(b) /\ Len(b) \in d .. Len(b)
  BY <1>1
<1>5. SubSeq(b, 1, d) \o SubSeq(b, d + 1, Len(b)) = SubSeq(b, 1, Len(b))
  BY <1>4, ConcatAdjacentSubSeq
<1>6. SubSeq(b, 1, Len(b)) = b
  BY SubSeqFull
<1> QED BY Zenon, <1>2, <1>3, <1>5, <1>6

LEMMA ConcatNat ==
  /\ \A r, s, t \in Seq(Nat) : (r \o s) \o t = r \o (s \o t)
  /\ <<>> \in Seq(Nat) /\ \A s \in Seq(Nat) : s \o <<>> = s /\ <<>> \o s = s
<1>1. \A r, s, t \in Seq(Nat) : (r \o s) \o t = r \o (s \o t)
  <2> TAKE r, s, t \in Seq(Nat)
  <2> QED BY ConcatAssociative, SMTT(60)
<1>2. \A s \in Seq(Nat) : s \o <<>> = s /\ <<>> \o s = s
  BY ConcatEmptySeq, Zenon
<1>3. <<>> \in Seq(Nat)
  BY EmptySeq, Zenon
<1> QED BY <1>1, <1>2, <1>3

\* All of the first n bytes, in order
Whole(s, n) == s = From(1, n)

\* Bytes go around the buffer only when nothing stays in it.
Passes(direct, rest) == direct = 0 \/ rest = <<>>

\* Bytes x that pass on, bytes y that stay, bytes that go by the buffer and
\* bytes that refill it: what has been read and what is buffered stay a run.
LEMMA BytesFlow ==
  ASSUME NEW g \in Seq(Nat), NEW x \in Seq(Nat), NEW y \in Seq(Nat),
         NEW sent \in Nat, NEW direct \in Nat, NEW more \in Nat,
         Whole(g \o (x \o y), sent),
         Passes(direct, y)
  PROVE  Whole(((g \o x) \o From(sent + 1, sent + direct))
               \o (y \o From(sent + direct + 1, sent + direct + more)),
             sent + direct + more)
<1> DEFINE f == From(sent + 1, sent + direct)
           h == From(sent + direct + 1, sent + direct + more)
           gx == g \o x
<1>1. f \in Seq(Nat) /\ Len(f) = direct
  BY FromType
<1>2. sent + direct \in Nat /\ h \in Seq(Nat)
  <2>1. sent + direct \in Nat
    OBVIOUS
  <2> QED BY <2>1, FromType
<1>3. gx \in Seq(Nat) /\ gx \o y = From(1, sent)
  <2>1. gx \in Seq(Nat)
    BY ConcatProperties
  <2>2. gx \o y = g \o (x \o y)
    BY ConcatNat, ZenonT(60)
  <2> QED BY <2>1, <2>2 DEF Whole
<1>4. From(1, sent) \o f = From(1, sent + direct)
  BY FromJoin
<1>5. From(1, sent + direct) \o h = From(1, sent + direct + more)
  BY <1>2, FromJoin
<1> HIDE DEF f, h, gx
<1>6. (gx \o f) \o (y \o h) = ((gx \o f) \o y) \o h
  <2>1. gx \o f \in Seq(Nat)
    BY <1>1, <1>3, ConcatProperties
  <2> QED BY <1>2, <2>1, ConcatNat, ZenonT(60)
<1>7. (gx \o f) \o y = From(1, sent) \o f
  <2>1. CASE direct = 0
    <3>1. f = <<>>
      BY <1>1, <2>1, EmptySeq
    <3>2. gx \o f = gx /\ From(1, sent) \o f = From(1, sent)
      BY <1>3, <3>1, FromOne, ConcatEmptySeq
    <3> QED BY <1>3, <3>2
  <2>2. CASE y = <<>>
    <3>1. gx \o f \in Seq(Nat)
      BY <1>1, <1>3, ConcatProperties
    <3>2. gx \o y = gx /\ (gx \o f) \o y = gx \o f
      BY <1>3, <2>2, <3>1, ConcatEmptySeq
    <3> QED BY <1>3, <3>2
  <2> QED BY <2>1, <2>2 DEF Passes
<1>8. (gx \o f) \o (y \o h) = From(1, sent + direct + more)
  BY <1>4, <1>5, <1>6, <1>7
<1> QED BY <1>8 DEF f, h, gx, Whole

-----------------------------------------------------------------------------
(* The invariant *)

Str == [use : BOOLEAN, dead : BOOLEAN, readsleep : BOOLEAN, writesleep : BOOLEAN, left : Nat]
Proc == [state : {"running", "asleep", "ended"}, sent : 0 .. MaxSent, got : Seq(Nat)]

\* The bytes from e to its peer.
Ordered(e) ==
  process[Peer(e)].got \o (IF str[Peer(e)].use THEN buf[e] ELSE <<>>)
    = From(1, IF str[Peer(e)].use THEN process[e].sent ELSE Len(process[Peer(e)].got))

\* An end that is open has its number; two open ends know each other; the
\* flags of an end say what its process does; a sleeper has an awake peer.
Fine(e) ==
  /\ Len(buf[e]) <= Capacity
  /\ process[e].state = "asleep" <=> str[e].readsleep \/ str[e].writesleep
  /\ ~ (str[e].readsleep /\ str[e].writesleep)
  /\ str[e].use => entry[e]
  /\ process[e].state = "ended" => ~ entry[e]
  /\ str[e].use /\ ~ str[e].dead => str[Peer(e)].use /\ ~ str[Peer(e)].dead
  /\ str[e].dead => ~ str[Peer(e)].use
  /\ process[e].state = "asleep" =>
       /\ str[e].use /\ ~ str[e].dead /\ str[e].left > 0
       /\ process[Peer(e)].state = "running"
  /\ str[e].readsleep => buf[Peer(e)] = <<>>
  /\ str[e].writesleep =>
       Len(buf[e]) = Capacity /\ process[e].sent + str[e].left <= MaxSent

LocalInv == LocalTypeOK /\ \A e \in Ends : Ordered(e) /\ Fine(e)

LEMMA TwoEnds ==
  ASSUME NEW e \in Ends
  PROVE  Peer(e) \in Ends /\ Peer(e) # e /\ Peer(Peer(e)) = e /\ Ends = {e, Peer(e)}
BY DEF Ends, Peer

LEMMA TypeIs ==
  LocalTypeOK <=> /\ str \in [Ends -> Str] /\ buf \in [Ends -> Seq(Nat)]
             /\ entry \in [Ends -> BOOLEAN] /\ stranger \in BOOLEAN /\ wreck \in BOOLEAN
             /\ process \in [Ends -> Proc]
BY DEF LocalTypeOK, Str, Proc

\* The invariant says what the runs check.
LEMMA LocalInvImplies == LocalInv => LocalTypeOK /\ BytesInOrder /\ SleepersAreServed
<1> SUFFICES ASSUME LocalInv PROVE BytesInOrder /\ SleepersAreServed
  BY DEF LocalInv
<1>1. BytesInOrder
  BY DEF LocalInv, Ordered, BytesInOrder
<1>2. SleepersAreServed
  <2> SUFFICES ASSUME NEW e \in Ends, process[e].state = "asleep"
               PROVE  /\ str[e].use /\ str[Peer(e)].use /\ process[Peer(e)].state = "running"
                      /\ str[e].left > 0
                      /\ \/ str[e].readsleep /\ buf[Peer(e)] = <<>>
                         \/ str[e].writesleep /\ Len(buf[e]) = Capacity
    BY DEF SleepersAreServed
  <2>1. Fine(e)
    BY DEF LocalInv
  <2> QED BY <2>1 DEF Fine
<1> QED BY <1>1, <1>2

LEMMA LocalInitInv == LocalInit => LocalInv
<1> SUFFICES ASSUME LocalInit PROVE LocalInv
  OBVIOUS
<1>1. \A e \in Ends : /\ str[e] = [use |-> TRUE, dead |-> FALSE, readsleep |-> FALSE,
                                   writesleep |-> FALSE, left |-> 0]
                      /\ buf[e] = <<>> /\ entry[e]
                      /\ process[e] = [state |-> "running", sent |-> 0, got |-> <<>>]
                      /\ Peer(e) \in Ends
  BY TwoEnds DEF LocalInit, Closed
<1>2. LocalTypeOK
  <2>1. \A e \in Ends : str[e] \in Str /\ buf[e] \in Seq(Nat) /\ process[e] \in Proc
    <3>1. 0 \in 0 .. MaxSent /\ <<>> \in Seq(Nat)
      BY IpcStreamAssumption
    <3>2. [use |-> TRUE, dead |-> FALSE, readsleep |-> FALSE, writesleep |-> FALSE,
            left |-> 0] \in Str
      BY DEF Str
    <3>3. [state |-> "running", sent |-> 0, got |-> <<>>] \in Proc
      BY <3>1, Zenon DEF Proc
    <3> QED BY <1>1, <3>1, <3>2, <3>3
  <2>2. str \in [Ends -> Str] /\ buf \in [Ends -> Seq(Nat)] /\ process \in [Ends -> Proc]
    BY <2>1 DEF LocalInit
  <2>3. entry \in [Ends -> BOOLEAN] /\ stranger \in BOOLEAN /\ wreck \in BOOLEAN
    BY DEF LocalInit
  <2> QED BY <2>2, <2>3, TypeIs
<1>3. From(1, 0) = <<>>
  BY FromOne, EmptySeq
<1>4. \A e \in Ends : Ordered(e)
  <2>1. <<>> \o <<>> = From(1, 0)
    BY <1>3, ConcatNat
  <2> SUFFICES ASSUME NEW e \in Ends PROVE Ordered(e)
    OBVIOUS
  <2>2. process[Peer(e)].got = <<>> /\ buf[e] = <<>> /\ process[e].sent = 0 /\ str[Peer(e)].use
    BY <1>1
  <2> QED BY <2>1, <2>2 DEF Ordered
<1>5. \A e \in Ends : Fine(e)
  <2> SUFFICES ASSUME NEW e \in Ends PROVE Fine(e)
    OBVIOUS
  <2>1. /\ str[e] = [use |-> TRUE, dead |-> FALSE, readsleep |-> FALSE, writesleep |-> FALSE, left |-> 0]
        /\ str[Peer(e)] = [use |-> TRUE, dead |-> FALSE, readsleep |-> FALSE, writesleep |-> FALSE, left |-> 0]
        /\ buf[e] = <<>> /\ buf[Peer(e)] = <<>> /\ entry[e]
        /\ process[e] = [state |-> "running", sent |-> 0, got |-> <<>>]
    BY <1>1
  <2>2. Len(buf[e]) = 0
    BY <2>1
  <2>3. /\ str[e].use /\ ~str[e].dead /\ ~str[e].readsleep /\ ~str[e].writesleep
        /\ str[Peer(e)].use /\ ~str[Peer(e)].dead
        /\ process[e].state = "running"
    BY <2>1
  <2> QED BY <2>1, <2>2, <2>3, IpcStreamAssumption DEF Fine
<1> QED BY <1>2, <1>4, <1>5 DEF LocalInv

-----------------------------------------------------------------------------
(* Closing *)

\* What has been read of a stream is a run of bytes.
LEMMA ReadIsRun ==
  ASSUME LocalInv, NEW e \in Ends
  PROVE  process[e].got \in Seq(Nat) /\ process[e].got \o <<>> = From(1, Len(process[e].got))
<1> DEFINE p == Peer(e)
           g == process[e].got
           b == IF str[e].use THEN buf[p] ELSE <<>>
           n == IF str[e].use THEN process[p].sent ELSE Len(g)
<1>1. p \in Ends /\ Peer(p) = e
  BY TwoEnds
<1>2. g \o b = From(1, n)
  BY <1>1 DEF LocalInv, Ordered
<1>3. g \in Seq(Nat) /\ b \in Seq(Nat) /\ n \in Nat
  <2>1. process[e] \in Proc /\ process[p] \in Proc /\ buf[p] \in Seq(Nat)
    BY <1>1, TypeIs DEF LocalInv
  <2>2. g \in Seq(Nat) /\ process[p].sent \in Nat
    BY <2>1, IpcStreamAssumption DEF Proc
  <2>3. Len(g) \in Nat
    BY <2>2, LenProperties
  <2> QED BY <2>1, <2>2, <2>3, ConcatNat
<1> HIDE DEF g, b, n
<1>4. g = From(1, Len(g)) /\ g \o <<>> = g
  BY <1>2, <1>3, FromPrefix, ConcatNat
<1> QED BY <1>3, <1>4 DEF g

\* Closing an end keeps the invariant, whether the process goes on or ends.
LEMMA ShutPreserves ==
  ASSUME LocalInv, NEW e \in Ends, NEW state \in {"running", "ended"},
         Shut(e), Woken(e, state),
         entry' \in [Ends -> BOOLEAN], entry'[Peer(e)] = entry[Peer(e)],
         state = "ended" => ~ entry'[e],
         UNCHANGED <<stranger, wreck>>
  PROVE  LocalInv'
<1> DEFINE p == Peer(e)
<1>1. p \in Ends /\ p # e /\ Peer(p) = e /\ Ends = {e, p}
  BY TwoEnds
<1>2. /\ str \in [Ends -> Str] /\ buf \in [Ends -> Seq(Nat)] /\ process \in [Ends -> Proc]
      /\ Ordered(e) /\ Ordered(p) /\ Fine(e) /\ Fine(p)
  BY <1>1, TypeIs DEF LocalInv
<1>3. str[e].dead => ~ str[p].use /\ ~ str[p].readsleep /\ ~ str[p].writesleep
  BY <1>1, <1>2 DEF Fine
<1>4. /\ str' \in [Ends -> Str] /\ buf' \in [Ends -> Seq(Nat)]
      /\ str'[e] = Closed
      /\ str'[p].use = str[p].use /\ ~ str'[p].readsleep /\ ~ str'[p].writesleep
      /\ str'[p].use => str'[p].dead
      /\ str[p].use => buf'[e] = buf[e]
      /\ \A d \in Ends : Len(buf'[d]) <= Capacity
  <2>1. Closed \in Str
    BY DEF Closed, Str
  <2>2. CASE str[e].dead
    <3>1. str' = [str EXCEPT ![e] = Closed] /\ buf' = [d \in Ends |-> <<>>]
      BY <2>2 DEF Shut
    <3>2. str'[e] = Closed /\ str'[p] = str[p] /\ str' \in [Ends -> Str]
      BY <1>1, <1>2, <2>1, <3>1
    <3>3. buf' \in [Ends -> Seq(Nat)] /\ \A d \in Ends : Len(buf'[d]) <= Capacity
      BY <3>1, ConcatNat, IpcStreamAssumption
    <3> QED BY <1>3, <2>2, <3>2, <3>3
  <2>3. CASE ~ str[e].dead
    <3> DEFINE q == [str[p] EXCEPT !.dead = TRUE, !.readsleep = FALSE,
                                   !.writesleep = FALSE, !.left = 0]
    <3>1. str' = [[str EXCEPT ![e] = Closed] EXCEPT ![p] = q] /\ buf' = buf
      BY <1>1, <1>2, <2>3 DEF Shut
    <3>2. q \in Str /\ q.use = str[p].use /\ q.dead /\ ~ q.readsleep /\ ~ q.writesleep
      BY <1>1, <1>2 DEF Str
    <3> HIDE DEF q
    <3>3. str'[e] = Closed /\ str'[p] = q /\ str' \in [Ends -> Str]
      BY <1>1, <1>2, <2>1, <3>1, <3>2
    <3>4. \A d \in Ends : Len(buf[d]) <= Capacity
      BY <1>1, <1>2 DEF Fine
    <3> QED BY <1>2, <3>1, <3>2, <3>3, <3>4
  <2> QED BY <2>2, <2>3
<1>5. /\ process' \in [Ends -> Proc] /\ process'[e].state = state
      /\ process'[p].state # "asleep"
      /\ process'[p].state = "ended" => process[p].state = "ended"
      /\ \A d \in Ends : process'[d].got = process[d].got /\ process'[d].sent = process[d].sent
  <2> DEFINE w == ~ str[e].dead /\ (str[p].readsleep \/ str[p].writesleep)
             q == [process[p] EXCEPT !.state = IF w THEN "running" ELSE process[p].state]
             o == [process[e] EXCEPT !.state = state]
  <2>1. process' = [[process EXCEPT ![e] = o] EXCEPT ![p] = q]
    BY <1>1, <1>2 DEF Woken, Wakes
  <2>2. /\ q \in Proc /\ q.state # "asleep" /\ q.got = process[p].got /\ q.sent = process[p].sent
        /\ q.state = "ended" => process[p].state = "ended"
    BY <1>1, <1>2, <1>3 DEF Fine, Proc
  <2>3. o \in Proc /\ o.state = state /\ o.got = process[e].got /\ o.sent = process[e].sent
    BY <1>2 DEF Proc
  <2> HIDE DEF w, q, o
  <2>4. process'[e] = o /\ process'[p] = q /\ process' \in [Ends -> Proc]
    BY <1>1, <1>2, <2>1, <2>2, <2>3
  <2> QED BY <1>1, <2>2, <2>3, <2>4
<1>6. Ordered(e)'
  BY <1>1, <1>2, <1>4, <1>5 DEF Ordered
<1>7. Ordered(p)'
  <2>1. ~ str'[e].use
    BY <1>4 DEF Closed
  <2>2. process'[e].got \o <<>> = From(1, Len(process'[e].got))
    BY <1>5, ReadIsRun
  <2> QED BY <1>1, <2>1, <2>2 DEF Ordered
<1>8. Fine(e)' /\ Fine(p)'
  <2>1. Closed.use = FALSE /\ Closed.dead = FALSE /\ Closed.readsleep = FALSE /\ Closed.writesleep = FALSE
    BY DEF Closed
  <2>2. Fine(e)'
    BY <1>1, <1>4, <1>5, <2>1 DEF Fine
  <2>3. Fine(p)'
    BY <1>1, <1>2, <1>4, <1>5, <2>1 DEF Fine
  <2> QED BY <2>2, <2>3
<1>9. LocalTypeOK'
  <2>1. stranger' \in BOOLEAN /\ wreck' \in BOOLEAN
    BY DEF LocalInv, LocalTypeOK
  <2> QED BY <1>4, <1>5, <2>1 DEF LocalTypeOK, Str, Proc
<1> QED BY <1>1, <1>6, <1>7, <1>8, <1>9 DEF LocalInv

LEMMA ClosePreserves == ASSUME LocalInv, NEW e \in Ends, LocalClose(e) PROVE LocalInv'
<1>1. /\ entry' \in [Ends -> BOOLEAN] /\ entry'[Peer(e)] = entry[Peer(e)]
      /\ "running" \in {"running", "ended"}
  <2>1. entry \in [Ends -> BOOLEAN] /\ stranger \in BOOLEAN
    BY DEF LocalInv, LocalTypeOK
  <2>2. entry' = [entry EXCEPT ![e] = (e = "acceptor" /\ stranger)]
    BY DEF LocalClose
  <2> QED BY <2>1, <2>2, TwoEnds
<1> QED BY <1>1, ShutPreserves DEF LocalClose

LEMMA EndPreserves == ASSUME LocalInv, NEW e \in Ends, End(e) PROVE LocalInv'
<1>1. /\ entry' \in [Ends -> BOOLEAN] /\ entry'[Peer(e)] = entry[Peer(e)] /\ ~ entry'[e]
  <2>1. entry \in [Ends -> BOOLEAN] /\ entry' = [entry EXCEPT ![e] = FALSE]
    BY DEF LocalInv, LocalTypeOK, End
  <2> QED BY <2>1, TwoEnds
<1>2. CASE entry[e]
  BY <1>1, <1>2, ShutPreserves DEF End
<1>3. CASE ~ entry[e]
  <2> DEFINE p == Peer(e)
             o == [process[e] EXCEPT !.state = "ended"]
  <2>1. p \in Ends /\ p # e /\ Peer(p) = e /\ Ends = {e, p}
    BY TwoEnds
  <2>2. /\ str \in [Ends -> Str] /\ buf \in [Ends -> Seq(Nat)] /\ process \in [Ends -> Proc]
        /\ Ordered(e) /\ Ordered(p) /\ Fine(e) /\ Fine(p)
    BY <2>1, TypeIs DEF LocalInv
  <2>3. /\ process' = [process EXCEPT ![e] = o] /\ UNCHANGED <<str, buf, stranger, wreck>>
    BY <1>3 DEF End
  <2>4. o \in Proc /\ o.state = "ended" /\ o.got = process[e].got /\ o.sent = process[e].sent
    BY <2>2 DEF Proc
  <2> HIDE DEF o
  <2>5. process'[e] = o /\ process'[p] = process[p] /\ process' \in [Ends -> Proc]
    BY <2>1, <2>2, <2>3, <2>4
  <2>6. LocalTypeOK'
    <3>1. stranger' \in BOOLEAN /\ wreck' \in BOOLEAN
      BY SMTT(40), <2>3 DEF LocalInv, LocalTypeOK
    <3> QED BY <1>1, <2>2, <2>3, <2>5, <3>1 DEF LocalTypeOK, Str, Proc
  <2>7. Ordered(e)' /\ Ordered(p)'
    BY <2>1, <2>2, <2>3, <2>4, <2>5 DEF Ordered
  <2>8. ~ str[e].use
    BY <1>3, <2>2 DEF Fine
  <2>9. Fine(e)' /\ Fine(p)'
    BY <1>1, <2>1, <2>2, <2>3, <2>4, <2>5, <2>8 DEF Fine
  <2> QED BY <2>1, <2>6, <2>7, <2>9 DEF LocalInv
<1> QED BY <1>2, <1>3

-----------------------------------------------------------------------------
(* Reading and writing *)

LEMMA LeastIs ==
  ASSUME NEW a \in Nat, NEW b \in Nat
  PROVE  /\ Least(a, b) \in Nat /\ Least(a, b) <= a /\ Least(a, b) <= b
         /\ Least(a, b) = a \/ Least(a, b) = b
BY DEF Least

\* A writer fills the sleeping reader's request, then the buffer.
LEMMA WritePreserves ==
  ASSUME LocalInv, NEW e \in Ends, NEW n \in Counts, NEW nonblock \in BOOLEAN,
         LocalWrite(e, n, nonblock)
  PROVE  LocalInv'
<1> DEFINE p == Peer(e)
           fed == IF str[p].readsleep THEN Least(n, str[p].left) ELSE 0
           done == str[p].readsleep /\ fed = str[p].left
           kept == Least(n - fed, Capacity - Len(buf[e]))
           sleeps == fed + kept < n /\ ~nonblock /\ ~str[p].writesleep
           sent == process[e].sent
           first == From(sent + 1, sent + fed)
           second == From(sent + fed + 1, sent + fed + kept)
           se == [str[e] EXCEPT !.writesleep = sleeps,
                                !.left = IF sleeps THEN n - fed - kept ELSE 0]
           sp == [str[p] EXCEPT !.readsleep = str[p].readsleep /\ ~done,
                                !.left = str[p].left - fed]
           oe == [process[e] EXCEPT !.sent = sent + fed + kept,
                                 !.state = IF sleeps THEN "asleep" ELSE process[e].state]
           op == Fed(process[p], first, done)
<1>1. p \in Ends /\ p # e /\ Peer(p) = e /\ Ends = {e, p}
  BY TwoEnds
<1>2. /\ str \in [Ends -> Str] /\ buf \in [Ends -> Seq(Nat)] /\ process \in [Ends -> Proc]
      /\ entry \in [Ends -> BOOLEAN] /\ stranger \in BOOLEAN /\ wreck \in BOOLEAN
      /\ Ordered(e) /\ Ordered(p) /\ Fine(e) /\ Fine(p)
  BY SMTT(40), <1>1, TypeIs DEF LocalInv
<1>3. /\ MayCall(e) /\ str[e].use /\ ~ str[e].dead /\ sent + n <= MaxSent
      /\ buf' = [buf EXCEPT ![e] = buf[e] \o second]
      /\ str' = [[str EXCEPT ![e] = se] EXCEPT ![p] = sp]
      /\ process' = [[process EXCEPT ![e] = oe] EXCEPT ![p] = op]
      /\ UNCHANGED <<entry, stranger, wreck>>
  <2>1. str' = [[str EXCEPT ![e] = se] EXCEPT ![p] = sp]
    BY <1>1, <1>2 DEF LocalWrite
  <2>2. process' = [[process EXCEPT ![e] = oe] EXCEPT ![p] = op]
    BY <1>1, <1>2 DEF LocalWrite, Proc
  <2> QED BY ZenonT(60), <2>1, <2>2 DEF LocalWrite
<1>4. /\ str[e] \in Str /\ str[p] \in Str /\ process[e] \in Proc /\ process[p] \in Proc
      /\ buf[e] \in Seq(Nat) /\ buf[p] \in Seq(Nat)
      /\ Len(buf[e]) \in Nat /\ n \in Nat \ {0} /\ sent \in Nat
      /\ str[p].left \in Nat
  BY SMTT(40), <1>1, <1>2, LenProperties, IpcStreamAssumption DEF Str, Proc
<1>5. /\ ~ str[e].readsleep /\ ~ str[e].writesleep /\ process[e].state = "running"
      /\ str[p].use /\ ~ str[p].dead /\ process[p].state # "ended"
  BY <1>1, <1>2, <1>3, <1>4 DEF Fine, MayCall
<1>6. /\ fed \in Nat /\ kept \in Nat /\ fed + kept <= n
      /\ kept <= Capacity - Len(buf[e])
      /\ fed <= str[p].left \/ fed = 0
      /\ str[p].readsleep => done \/ (fed = n /\ fed < str[p].left)
      /\ ~ str[p].readsleep => fed = 0
      /\ fed + kept < n => kept = Capacity - Len(buf[e]) /\ (str[p].readsleep => done)
  <2>1. /\ fed \in Nat /\ fed <= n /\ fed <= str[p].left
        /\ str[p].readsleep => fed = n \/ fed = str[p].left
        /\ ~ str[p].readsleep => fed = 0
    <3> DEFINE least == Least(n, str[p].left)
    <3>1. /\ least \in Nat /\ least <= n /\ least <= str[p].left
          /\ least = n \/ least = str[p].left
      BY <1>4, LeastIs
    <3> HIDE DEF least
    <3>2. fed = IF str[p].readsleep THEN least ELSE 0
      BY DEF least
    <3> HIDE DEF fed
    <3> QED BY <1>4, <3>1, <3>2
  <2> HIDE DEF fed
  <2>2. n - fed \in Nat /\ Capacity - Len(buf[e]) \in Nat
    BY <1>2, <1>4, <2>1, IpcStreamAssumption DEF Fine
  <2>3. /\ kept \in Nat /\ kept <= n - fed /\ kept <= Capacity - Len(buf[e])
        /\ kept = n - fed \/ kept = Capacity - Len(buf[e])
    BY <2>2, LeastIs
  <2> HIDE DEF kept
  <2>4. fed + kept <= n /\ (fed + kept < n => kept = Capacity - Len(buf[e]) /\ fed < n)
    <3> HIDE DEF fed
    <3> QED BY <1>4, <2>1, <2>2, <2>3
  <2>5. str[p].readsleep => done \/ (fed = n /\ fed < str[p].left)
    <3>1. CASE fed = str[p].left
      BY <3>1
    <3>2. CASE fed # str[p].left
      <4>1. fed < str[p].left
        BY <1>4, <2>1, <3>2
      <4> QED BY <2>1, <3>2, <4>1
    <3> QED BY <3>1, <3>2
  <2> HIDE DEF done
  <2> QED BY <1>4, <2>1, <2>3, <2>4, <2>5
<1>7. sleeps => fed + kept < n /\ ~ str[p].writesleep
  OBVIOUS
<1>8. str[p].readsleep => buf[e] = <<>> /\ ~ str[p].writesleep /\ process[p].state = "asleep"
  BY <1>1, <1>2 DEF Fine
<1>9. first \in Seq(Nat) /\ second \in Seq(Nat) /\ Len(second) = kept
  <2> HIDE DEF fed, kept, sent
  <2>1. sent + fed \in Nat
    BY <1>4, <1>6
  <2> QED BY <1>4, <1>6, <2>1, FromType
<1>10. Ordered(e)'
  <2>1. process[p].got \in Seq(Nat)
    BY <1>4 DEF Proc
  <2>2. process[p].got \o (<<>> \o buf[e]) = From(1, sent)
    BY <1>2, <1>4, <1>5, ConcatNat DEF Ordered
  <2>3. fed = 0 \/ buf[e] = <<>>
    BY <1>6, <1>8
  <2>4. ((process[p].got \o <<>>) \o first) \o (buf[e] \o second) = From(1, sent + fed + kept)
    <3> HIDE DEF fed, kept, sent
    <3>1. PICK x \in Seq(Nat) : x = <<>>
      BY ConcatNat
    <3>2. process[p].got \o (x \o buf[e]) = From(1, sent)
      BY <2>2, <3>1
    <3>3. ((process[p].got \o x) \o first) \o (buf[e] \o second) = From(1, sent + fed + kept)
      <4>1. sent \in Nat /\ fed \in Nat /\ kept \in Nat /\ Passes(fed, buf[e])
        BY <1>4, <1>6, <2>3 DEF Passes
      <4>2. buf[e] \in Seq(Nat)
        BY <1>4
      <4> DEFINE g == process[p].got  y == buf[e]
      <4>3. /\ g \in Seq(Nat) /\ y \in Seq(Nat) /\ Whole(g \o (x \o y), sent)
            /\ Passes(fed, y)
        BY <2>1, <3>2, <4>1, <4>2 DEF Whole
      <4> HIDE DEF g, y
      <4>4. Whole(((g \o x) \o From(sent + 1, sent + fed))
                  \o (y \o From(sent + fed + 1, sent + fed + kept)),
                sent + fed + kept)
        BY <4>1, <4>3, BytesFlow, ZenonT(60)
      <4> QED BY <4>4 DEF g, y, Whole
    <3> QED BY <3>1, <3>3
  <2>5. (process[p].got \o first) \o (buf[e] \o second) = From(1, sent + fed + kept)
    BY <2>1, <2>4, ConcatNat
  <2> HIDE DEF fed, kept, first, second, sleeps, done
  <2>6. str'[p].use /\ process'[p].got = process[p].got \o first
    BY <1>1, <1>2, <1>3, <1>4, <1>5 DEF Str, Proc, Fed, Wakes
  <2>7. buf'[e] = buf[e] \o second /\ process'[e].sent = sent + fed + kept
    BY <1>1, <1>2, <1>3, <1>4 DEF Proc
  <2> QED BY <2>5, <2>6, <2>7 DEF Ordered
<1> HIDE DEF fed, done, kept, sleeps, first, second
<1>11. se \in Str /\ sp \in Str /\ oe \in Proc /\ op \in Proc
  <2>1. sleeps \in BOOLEAN /\ done \in BOOLEAN
    BY DEF sleeps, done
  <2>2. n - fed - kept \in Nat /\ str[p].left - fed \in Nat
    BY <1>4, <1>6
  <2>3. sent + fed + kept \in 0 .. MaxSent
    <3>1. /\ sent \in Int /\ fed \in Nat /\ kept \in Nat /\ n \in Int /\ MaxSent \in Int
          /\ sent >= 0 /\ fed + kept <= n /\ sent + n <= MaxSent
      BY <1>3, <1>4, <1>6, IpcStreamAssumption
    <3> HIDE DEF sent
    <3> QED BY <3>1
  <2>4. process[p].got \o first \in Seq(Nat)
    BY <1>4, <1>9, ConcatProperties DEF Proc
  <2>5. se \in Str /\ sp \in Str
    BY <1>4, <2>1, <2>2 DEF Str
  <2>6. oe \in Proc
    BY <1>4, <2>3 DEF Proc
  <2>7. op \in Proc
    BY <1>4, <2>1, <2>4 DEF Proc, Fed, Wakes
  <2> QED BY <2>5, <2>6, <2>7
<1>12. /\ str' \in [Ends -> Str] /\ str'[e] = se /\ str'[p] = sp
       /\ process' \in [Ends -> Proc] /\ process'[e] = oe /\ process'[p] = op
       /\ buf' \in [Ends -> Seq(Nat)] /\ buf'[e] = buf[e] \o second /\ buf'[p] = buf[p]
  <2>1. buf[e] \o second \in Seq(Nat)
    BY <1>4, <1>9, ConcatProperties
  <2> HIDE DEF se, sp, oe, op
  <2> QED BY <1>1, <1>2, <1>3, <1>11, <2>1
<1>13. /\ se.use /\ ~ se.dead /\ ~ se.readsleep /\ se.writesleep = sleeps
       /\ sleeps => se.left = n - fed - kept
       /\ sp.use /\ ~ sp.dead /\ sp.writesleep = str[p].writesleep
       /\ sp.readsleep = (str[p].readsleep /\ ~ done) /\ sp.left = str[p].left - fed
       /\ oe.sent = sent + fed + kept /\ oe.got = process[e].got
       /\ oe.state = IF sleeps THEN "asleep" ELSE "running"
       /\ op.sent = process[p].sent
       /\ op.state = IF done THEN "running" ELSE process[p].state
  BY <1>3, <1>4, <1>5 DEF Str, Proc, Fed, Wakes
<1>14. Len(buf'[e]) = Len(buf[e]) + kept
  <2>1. Len(buf[e] \o second) = Len(buf[e]) + Len(second)
    BY <1>4, <1>9, ConcatProperties
  <2> QED BY <1>9, <1>12, <2>1
<1> HIDE DEF se, sp, oe, op
<1>15. done => str[p].readsleep
  BY DEF done
<1>16. Fine(e)'
  <2>1. sleeps => oe.state = "asleep" /\ op.state = "running"
    BY <1>4, <1>5, <1>6, <1>7, <1>13, <1>2 DEF Fine, Proc
  <2>2. sleeps => /\ se.left > 0 /\ Len(buf'[e]) = Capacity
                  /\ oe.sent + se.left <= MaxSent
    <3>1. CASE sleeps
      <4>1. fed + kept < n /\ kept = Capacity - Len(buf[e]) /\ se.left = n - fed - kept
            /\ oe.sent = sent + fed + kept
        BY <1>6, <1>7, <1>13, <3>1
      <4>2. se.left > 0 /\ oe.sent + se.left = sent + n
        <5>1. n \in Int /\ fed \in Int /\ kept \in Int /\ sent \in Int
          BY <1>4, <1>6
        <5> HIDE DEF sent
        <5> QED BY <4>1, <5>1
      <4>3. Len(buf'[e]) = Capacity
        BY <1>4, <1>6, <1>14, <4>1, IpcStreamAssumption
      <4> QED BY <1>3, <4>2, <4>3
    <3> QED BY <3>1
  <2>3. Len(buf'[e]) <= Capacity
    BY <1>4, <1>6, <1>14, IpcStreamAssumption
  <2>4. entry'[e]
    BY <1>3 DEF MayCall
  <2> QED BY <1>1, <1>12, <1>13, <2>1, <2>2, <2>3, <2>4 DEF Fine
<1>17. Fine(p)'
  <2>1. sp.readsleep => /\ buf'[e] = <<>> /\ ~ sleeps /\ sp.left > 0 /\ op.state = "asleep"
    <3>1. sp.readsleep => fed = n /\ fed < str[p].left /\ kept = 0 /\ buf[e] = <<>>
      <4>1. sp.readsleep => str[p].readsleep /\ ~ done
        BY <1>13
      <4> QED BY <1>4, <1>6, <1>8, <4>1
    <3>2. sp.readsleep => Len(buf'[e]) = 0
      BY <1>14, <3>1
    <3>3. buf'[e] \in Seq(Nat)
      BY <1>12
    <3>4. sp.readsleep => buf'[e] = <<>>
      BY <3>2, <3>3, EmptySeq
    <3>5. sp.readsleep => ~ sleeps /\ sp.left > 0
      BY <1>4, <1>6, <1>7, <1>13, <3>1
    <3>6. sp.readsleep => op.state = "asleep"
      BY <1>8, <1>13
    <3> QED BY <3>4, <3>5, <3>6
  <2>2. str[p].writesleep => /\ ~ done /\ ~ sleeps /\ sp.left = str[p].left
                             /\ op.state = "asleep"
    BY <1>1, <1>2, <1>4, <1>6, <1>7, <1>8, <1>13, <1>15 DEF Fine
  <2>3. op.state = "asleep" => sp.readsleep \/ str[p].writesleep
    BY <1>1, <1>2, <1>13 DEF Fine
  <2>4. entry'[p] /\ op.state # "ended"
    BY SMTT(40), <1>1, <1>2, <1>3, <1>5, <1>13 DEF Fine
  <2> QED BY <1>1, <1>2, <1>8, <1>12, <1>13, <2>1, <2>2, <2>3, <2>4 DEF Fine
<1>18. Ordered(p)'
  BY <1>1, <1>2, <1>3, <1>12, <1>13 DEF Ordered
<1>19. LocalTypeOK'
  BY <1>2, <1>3, <1>12 DEF LocalTypeOK, Str, Proc
<1> QED BY <1>1, <1>10, <1>16, <1>17, <1>18, <1>19 DEF LocalInv

\* A reader empties the buffer, then takes from the sleeping writer, whose
\* next bytes move up.
LEMMA ReadPreserves ==
  ASSUME LocalInv, NEW e \in Ends, NEW n \in Counts, NEW nonblock \in BOOLEAN,
         LocalRead(e, n, nonblock)
  PROVE  LocalInv'
<1> DEFINE p == Peer(e)
           drained == Drained(p, n)
           gone == SubSeq(buf[p], 1, drained)
           rest == SubSeq(buf[p], drained + 1, Len(buf[p]))
           taken == Least(n - drained, Offers(p))
           moved == MovesUp(p, taken, rest)
           done == str[p].writesleep /\ taken + moved = Offers(p)
           sleeps == drained + taken < n /\ ~nonblock /\ ~str[p].readsleep /\ ~str[e].dead
           sent == process[p].sent
           first == From(sent + 1, sent + taken)
           second == From(sent + taken + 1, sent + taken + moved)
           se == [str[e] EXCEPT !.readsleep = sleeps,
                                !.left = IF sleeps THEN n - drained - taken ELSE 0]
           sp == [str[p] EXCEPT !.writesleep = str[p].writesleep /\ ~done,
                                !.left = str[p].left - taken - moved]
           oe == [process[e] EXCEPT !.got = (process[e].got \o gone) \o first,
                                 !.state = IF sleeps THEN "asleep" ELSE process[e].state]
           op == Drawn(process[p], taken + moved, done)
<1>1. p \in Ends /\ p # e /\ Peer(p) = e /\ Ends = {e, p}
  BY TwoEnds
<1>2. /\ str \in [Ends -> Str] /\ buf \in [Ends -> Seq(Nat)] /\ process \in [Ends -> Proc]
      /\ entry \in [Ends -> BOOLEAN] /\ stranger \in BOOLEAN /\ wreck \in BOOLEAN
      /\ Ordered(e) /\ Ordered(p) /\ Fine(e) /\ Fine(p)
  BY <1>1, TypeIs DEF LocalInv
<1>3. /\ MayCall(e) /\ str[e].use
      /\ buf' = [buf EXCEPT ![p] = rest \o second]
      /\ str' = [[str EXCEPT ![e] = se] EXCEPT ![p] = sp]
      /\ process' = [[process EXCEPT ![e] = oe] EXCEPT ![p] = op]
      /\ UNCHANGED <<entry, stranger, wreck>>
  <2>1. str' = [[str EXCEPT ![e] = se] EXCEPT ![p] = sp]
    BY <1>1, <1>2 DEF LocalRead
  <2>2. process' = [[process EXCEPT ![e] = oe] EXCEPT ![p] = op]
    BY <1>1, <1>2 DEF LocalRead, Proc
  <2> QED BY ZenonT(60), <2>1, <2>2 DEF LocalRead
<1>4. /\ str[e] \in Str /\ str[p] \in Str /\ process[e] \in Proc /\ process[p] \in Proc
      /\ buf[e] \in Seq(Nat) /\ buf[p] \in Seq(Nat)
      /\ Len(buf[p]) \in Nat /\ n \in Nat \ {0} /\ sent \in Nat
      /\ str[p].left \in Nat
  BY SMTT(40), <1>1, <1>2, LenProperties, IpcStreamAssumption DEF Str, Proc
<1>5. /\ ~ str[e].readsleep /\ ~ str[e].writesleep /\ process[e].state = "running"
      /\ ~ str[e].dead => str[p].use /\ ~ str[p].dead
      /\ str[p].use => process[p].state # "ended"
  BY <1>1, <1>2, <1>3, <1>4 DEF Fine, MayCall
<1>6. /\ drained \in Nat /\ drained <= n /\ drained <= Len(buf[p])
      /\ drained = n \/ drained = Len(buf[p])
  BY <1>4, LeastIs DEF Drained
<1> HIDE DEF drained
<1>7. /\ gone \in Seq(Nat) /\ rest \in Seq(Nat) /\ Len(rest) = Len(buf[p]) - drained
      /\ gone \o rest = buf[p]
  BY <1>4, <1>6, Cut
<1> HIDE DEF gone, rest
<1>8. /\ Offers(p) \in Nat
      /\ ~ str[p].writesleep => Offers(p) = 0
      /\ str[p].writesleep => Offers(p) = str[p].left
  BY <1>4 DEF Offers
<1>9. /\ taken \in Nat /\ drained + taken <= n /\ taken <= Offers(p)
      /\ drained + taken = n \/ taken = Offers(p)
  <2>1. n - drained \in Nat
    BY <1>4, <1>6
  <2>2. /\ taken \in Nat /\ taken <= n - drained /\ taken <= Offers(p)
        /\ taken = n - drained \/ taken = Offers(p)
    <3> HIDE DEF p
    <3> QED BY <1>8, <2>1, LeastIs
  <2> HIDE DEF taken
  <2> QED BY <1>4, <1>6, <2>2
<1> HIDE DEF taken
<1>10. /\ moved \in Nat /\ taken + moved <= Offers(p)
       /\ Len(rest) + moved <= Capacity
       /\ taken + moved = Offers(p) \/ Len(rest) + moved = Capacity
  <2>1. Len(rest) \in Nat /\ Offers(p) - taken \in Nat /\ Capacity - Len(rest) \in Nat
    <3>1. Len(buf[p]) <= Capacity
      BY <1>2 DEF Fine
    <3>2. Len(rest) \in Nat /\ Len(rest) <= Capacity
      BY <1>4, <1>6, <1>7, <3>1, IpcStreamAssumption
    <3>3. Offers(p) - taken \in Nat
      <4> HIDE DEF p
      <4> QED BY <1>8, <1>9
    <3> QED BY <3>2, <3>3, IpcStreamAssumption
  <2>2. /\ moved \in Nat /\ moved <= Offers(p) - taken /\ moved <= Capacity - Len(rest)
        /\ moved = Offers(p) - taken \/ moved = Capacity - Len(rest)
    BY <2>1, LeastIs DEF MovesUp
  <2> HIDE DEF moved
  <2> QED BY <1>8, <1>9, <2>1, <2>2, IpcStreamAssumption
<1> HIDE DEF moved
<1>11. first \in Seq(Nat) /\ second \in Seq(Nat) /\ Len(second) = moved
  <2> HIDE DEF sent
  <2>1. sent + taken \in Nat
    BY <1>4, <1>9
  <2> QED BY <1>4, <1>9, <1>10, <2>1, FromType
<1>12. Passes(taken, rest)
  <2>1. taken = 0 \/ drained = Len(buf[p])
    BY <1>4, <1>6, <1>9
  <2>2. drained = Len(buf[p]) => Len(rest) = 0
    BY <1>4, <1>7
  <2> QED BY <1>7, <2>1, <2>2, EmptySeq DEF Passes
<1>13. Whole(((process[e].got \o gone) \o first) \o (rest \o second), sent + taken + moved)
  <2> DEFINE g == process[e].got
  <2>1. g \in Seq(Nat)
    BY SMTT(40), <1>4 DEF Proc
  <2>2. Whole(g \o (gone \o rest), sent)
    BY <1>1, <1>2, <1>3, <1>7 DEF Ordered, Whole
  <2> HIDE DEF g, sent
  <2>3. Whole(((g \o gone) \o From(sent + 1, sent + taken))
               \o (rest \o From(sent + taken + 1, sent + taken + moved)),
             sent + taken + moved)
    BY <1>4, <1>7, <1>9, <1>10, <1>12, <2>1, <2>2, BytesFlow, Zenon
  <2> QED BY <2>3 DEF g
<1>14. sleeps => /\ drained + taken < n /\ ~ str[p].readsleep /\ ~ str[e].dead
                 /\ taken = Offers(p) /\ moved = 0 /\ rest = <<>>
                 /\ str[p].writesleep => done
  <2>1. drained + taken < n => /\ drained = Len(buf[p]) /\ taken = Offers(p) /\ moved = 0
    BY <1>4, <1>6, <1>8, <1>9, <1>10
  <2>2. drained = Len(buf[p]) => Len(rest) = 0
    BY <1>4, <1>7
  <2>3. Len(rest) = 0 => rest = <<>>
    BY <1>7, EmptySeq
  <2>4. sleeps => drained + taken < n /\ ~ str[p].readsleep /\ ~ str[e].dead
    OBVIOUS
  <2>5. taken = Offers(p) /\ moved = 0 => taken + moved = Offers(p)
    BY <1>8
  <2> HIDE DEF sleeps
  <2> QED BY <2>1, <2>2, <2>3, <2>4, <2>5
<1>15. done => str[p].writesleep
  OBVIOUS
<1>16. str[p].writesleep /\ ~ done =>
         /\ taken + moved < str[p].left /\ Len(rest) + moved = Capacity
  BY <1>8, <1>9, <1>10
<1> HIDE DEF done, sleeps, first, second
<1>17. se \in Str /\ sp \in Str /\ oe \in Proc /\ op \in Proc
  <2>1. sleeps \in BOOLEAN /\ done \in BOOLEAN
    BY DEF sleeps, done
  <2>2. n - drained - taken \in Nat /\ str[p].left - taken - moved \in Nat
    BY SMTT(40), <1>4, <1>6, <1>8, <1>9, <1>10
  <2>3. sent + (taken + moved) \in 0 .. MaxSent
    <3>1. sent + str[p].left <= MaxSent \/ ~ str[p].writesleep
      BY <1>2 DEF Fine
    <3>2. sent \in 0 .. MaxSent
      BY <1>4 DEF Proc
    <3>3. taken + moved <= str[p].left \/ taken + moved = 0
      BY <1>4, <1>8, <1>9, <1>10
    <3>4. ~ str[p].writesleep => taken + moved = 0
      BY <1>8, <1>9, <1>10
    <3> HIDE DEF sent
    <3>5. taken + moved \in Nat
      BY <1>9, <1>10
    <3> QED BY <1>4, <3>1, <3>2, <3>3, <3>4, <3>5, IpcStreamAssumption
  <2>4. (process[e].got \o gone) \o first \in Seq(Nat)
    <3>1. process[e].got \in Seq(Nat)
      BY <1>4 DEF Proc
    <3>2. process[e].got \o gone \in Seq(Nat)
      BY <1>7, <3>1, ConcatProperties
    <3> QED BY <1>11, <3>2, ConcatProperties
  <2>5. se \in Str /\ sp \in Str
    BY <1>4, <2>1, <2>2 DEF Str
  <2>6. oe \in Proc
    BY <1>4, <2>4 DEF Proc
  <2>7. op \in Proc
    BY <1>4, <2>1, <2>3 DEF Proc, Drawn, Wakes
  <2> QED BY <2>5, <2>6, <2>7
<1>18. /\ str' \in [Ends -> Str] /\ str'[e] = se /\ str'[p] = sp
       /\ process' \in [Ends -> Proc] /\ process'[e] = oe /\ process'[p] = op
       /\ buf' \in [Ends -> Seq(Nat)] /\ buf'[p] = rest \o second /\ buf'[e] = buf[e]
  <2>1. rest \o second \in Seq(Nat)
    BY <1>7, <1>11, ConcatProperties
  <2> HIDE DEF se, sp, oe, op
  <2> QED BY <1>1, <1>2, <1>3, <1>17, <2>1
<1>19. /\ se.use /\ se.dead = str[e].dead /\ ~ se.writesleep /\ se.readsleep = sleeps
       /\ sleeps => se.left = n - drained - taken
       /\ sp.use = str[p].use /\ sp.dead = str[p].dead /\ sp.readsleep = str[p].readsleep
       /\ sp.writesleep = (str[p].writesleep /\ ~ done)
       /\ sp.left = str[p].left - taken - moved
       /\ oe.sent = process[e].sent /\ oe.got = (process[e].got \o gone) \o first
       /\ oe.state = IF sleeps THEN "asleep" ELSE "running"
       /\ op.sent = sent + (taken + moved) /\ op.got = process[p].got
       /\ op.state = IF done THEN "running" ELSE process[p].state
  BY <1>3, <1>4, <1>5 DEF Str, Proc, Drawn, Wakes
<1>20. Len(buf'[p]) = Len(rest) + moved
  <2>1. Len(rest \o second) = Len(rest) + Len(second)
    BY <1>7, <1>11, ConcatProperties
  <2> QED BY <1>11, <1>18, <2>1
<1> HIDE DEF se, sp, oe, op
<1>21. Ordered(p)'
  <2>1. sent + taken + moved = sent + (taken + moved)
    BY <1>4, <1>9, <1>10
  <2> QED BY <1>1, <1>13, <1>18, <1>19, <2>1 DEF Ordered, Whole
<1>22. Fine(e)'
  <2>1. sleeps => /\ se.left > 0 /\ op.state = "running"
    <3>1. sleeps => n - drained - taken > 0
      BY <1>4, <1>6, <1>9, <1>14
    <3>2. process[p].state \in {"running", "asleep", "ended"}
      BY <1>4 DEF Proc
    <3>3. process[p].state = "asleep" => str[p].readsleep \/ str[p].writesleep
      BY <1>2 DEF Fine
    <3> QED BY <1>5, <1>14, <1>19, <3>1, <3>2, <3>3
  <2>2. sleeps => buf'[p] = <<>>
    <3>1. sleeps => Len(buf'[p]) = 0
      <4>1. Len(<<>>) = 0
        BY ConcatNat, EmptySeq
      <4> QED BY <1>14, <1>20, <4>1
    <3> QED BY <1>18, <3>1, EmptySeq
  <2>3. entry'[e] /\ Len(buf'[e]) <= Capacity
    BY <1>2, <1>3, <1>18 DEF MayCall, Fine
  <2>4. /\ ~ str[e].dead => sp.use /\ ~ sp.dead
        /\ str[e].dead => ~ sp.use
    BY <1>2, <1>5, <1>19 DEF Fine
  <2> QED BY <1>1, <1>14, <1>18, <1>19, <2>1, <2>2, <2>3, <2>4 DEF Fine
<1>23. Fine(p)'
  <2>1. Len(buf'[p]) <= Capacity
    BY <1>10, <1>20
  <2>2. sp.writesleep => /\ ~ sleeps /\ sp.left > 0 /\ Len(buf'[p]) = Capacity
                         /\ op.sent + sp.left <= MaxSent /\ op.state = "asleep"
    <3> SUFFICES ASSUME str[p].writesleep, ~ done
                 PROVE  /\ ~ sleeps /\ sp.left > 0 /\ Len(buf'[p]) = Capacity
                        /\ op.sent + sp.left <= MaxSent /\ op.state = "asleep"
      BY <1>19
    <3>1. ~ sleeps /\ Len(buf'[p]) = Capacity
      BY <1>14, <1>16, <1>20
    <3>2. process[p].state = "asleep" /\ sent + str[p].left <= MaxSent
      BY <1>2 DEF Fine
    <3> HIDE DEF sent
    <3>3. sp.left > 0 /\ op.sent + sp.left = sent + str[p].left
      <4> DEFINE left == str[p].left
      <4>1. /\ sp.left = left - taken - moved /\ op.sent = sent + (taken + moved)
            /\ taken + moved < left
        BY <1>16, <1>19
      <4>2. left \in Nat /\ taken \in Nat /\ moved \in Nat /\ sent \in Nat
        BY <1>4, <1>9, <1>10
      <4> HIDE DEF left
      <4>3. sp.left > 0 /\ op.sent + sp.left = sent + left
        BY <4>1, <4>2
      <4> QED BY <4>3 DEF left
    <3> QED BY <1>19, <3>1, <3>2, <3>3
  <2>3. str[p].readsleep => /\ ~ sleeps /\ ~ str[p].writesleep /\ ~ done
                            /\ sp.left = str[p].left /\ op.state = "asleep"
    <3>1. str[p].readsleep => ~ str[p].writesleep /\ process[p].state = "asleep"
      BY <1>2 DEF Fine
    <3>2. ~ str[p].writesleep => taken = 0 /\ moved = 0
      BY <1>8, <1>9, <1>10
    <3> QED BY <1>4, <1>14, <1>15, <1>19, <3>1, <3>2
  <2>4. op.state = "asleep" => sp.readsleep \/ sp.writesleep
    BY <1>2, <1>19 DEF Fine
  <2>5. op.state = "ended" => ~ entry'[p]
    BY <1>2, <1>3, <1>19 DEF Fine
  <2>6. sp.use => entry'[p]
    BY <1>2, <1>3, <1>19 DEF Fine
  <2>7. /\ sp.use /\ ~ sp.dead => se.use /\ ~ se.dead
        /\ sp.dead => ~ se.use
    BY <1>1, <1>2, <1>3, <1>19 DEF Fine
  <2>8. op.state = "asleep" => sp.use /\ ~ sp.dead /\ process[p].state = "asleep" /\ str[p].left > 0
    BY <1>2, <1>19 DEF Fine
  <2>9. sp.readsleep => buf'[e] = <<>>
    BY <1>1, <1>2, <1>18, <1>19 DEF Fine
  <2>10. op.state = "asleep" => sp.left > 0 /\ oe.state = "running"
    BY <1>19, <2>2, <2>3, <2>4, <2>8
  <2>11. ~ (sp.readsleep /\ sp.writesleep) /\ (sp.readsleep \/ sp.writesleep => op.state = "asleep")
    BY <1>19, <2>2, <2>3
  <2> QED BY <1>1, <1>18, <2>1, <2>2, <2>4, <2>5, <2>6, <2>7, <2>8, <2>9, <2>10, <2>11 DEF Fine
<1>24. Ordered(e)'
  BY <1>1, <1>2, <1>3, <1>18, <1>19 DEF Ordered
<1>25. LocalTypeOK'
  BY <1>2, <1>3, <1>18 DEF LocalTypeOK, Str, Proc
<1> QED BY SMTT(40), <1>1, <1>21, <1>22, <1>23, <1>24, <1>25 DEF LocalInv

-----------------------------------------------------------------------------
(* The theorems *)

LEMMA LocalStepInv == LocalInv /\ [LocalNext]_local_vars => LocalInv'
<1> SUFFICES ASSUME LocalInv, [LocalNext]_local_vars PROVE LocalInv'
  OBVIOUS
<1>1. ASSUME NEW e \in Ends, NEW n \in Counts, NEW nonblock \in BOOLEAN,
             LocalWrite(e, n, nonblock)
      PROVE  LocalInv'
  BY <1>1, WritePreserves
<1>2. ASSUME NEW e \in Ends, NEW n \in Counts, NEW nonblock \in BOOLEAN,
             LocalRead(e, n, nonblock)
      PROVE  LocalInv'
  BY <1>2, ReadPreserves
<1>3. ASSUME NEW e \in Ends, LocalClose(e) PROVE LocalInv'
  BY <1>3, ClosePreserves
<1>4. ASSUME NEW e \in Ends, End(e) PROVE LocalInv'
  BY <1>4, EndPreserves
<1>5. ASSUME NEW e \in Ends, Crash(e) PROVE LocalInv'
  <2>1. wreck' \in BOOLEAN /\ UNCHANGED <<str, buf, entry, stranger, process>>
    BY <1>5 DEF Crash
  <2> QED BY <2>1 DEF LocalInv, LocalTypeOK, Ordered, Fine
<1>6. CASE UNCHANGED local_vars
  BY <1>6 DEF local_vars, LocalInv, LocalTypeOK, Ordered, Fine
<1> QED BY <1>1, <1>2, <1>3, <1>4, <1>5, <1>6 DEF LocalNext

LEMMA LocalInvariance == LocalSpec => []LocalInv
BY LocalInitInv, LocalStepInv, PTL DEF LocalSpec

\* The two ends of a stream keep their types, whatever the size of the
\* buffers (modules/ipc.c, struct stream).
THEOREM LocalTypeCorrect == LocalSpec => []LocalTypeOK
BY LocalInvariance, LocalInvImplies, PTL

\* Every byte arrives once and in the order of the writes, by the buffer or
\* around it (ipc_stream_write, ipc_stream_read, close_this_stream).
THEOREM BytesArriveInOrder == LocalSpec => []BytesInOrder
BY LocalInvariance, LocalInvImplies, PTL

\* A process that sleeps on a stream waits for an awake peer that can end its
\* sleep (ipc_stream_write, ipc_stream_read, close_this_stream).
THEOREM NobodySleepsInVain == LocalSpec => []SleepersAreServed
BY LocalInvariance, LocalInvImplies, PTL

(***************************************************************************)
(*                     STREAMS BETWEEN TWO MACHINES                        *)
(*                                                                         *)
(* First the invariant: a relation between two ends with what they have    *)
(* under way, that a handler of one of them keeps.                         *)
(***************************************************************************)

Streams ==
  [use : BOOLEAN, notready : BOOLEAN, dead : BOOLEAN, closing : BOOLEAN, peerclosing : BOOLEAN,
   readsleep : BOOLEAN, writesleep : BOOLEAN, req : {"none", "sent", "stale"}, retries : Nat,
   in : Seq(Nat), out : Seq(Nat), sent : Nat, data : Seq(Seq(Nat)),
   my : Nat, peer : Nat, left : Nat]
Processes ==
  [state : {"running", "asleep", "lost", "corrupt", "ended"}, written : Nat, log : Seq(Nat),
   eof : BOOLEAN]
Packets ==
  [kind : {"resp", "ack_ack", "reset", "data"}, number : Nat, ack : Nat,
   flags : SUBSET {"DATA", "CLOSING"}, load : Seq(Nat)]

\* An end with its process and the packets it has under way; the same as a
\* handler sees it.
Sides == [s : Streams, p : Processes, n : SUBSET Packets]
Worlds == [s : Streams, p : Processes, n : SUBSET Packets, room : Nat, route : BOOLEAN]

Side(e) == [s |-> end[e], p |-> proc[e], n |-> net[Peer(e)]]

\* The bytes of q are the byte a of a process and those that follow it.
Run(q, a) == \A i \in DOMAIN q : q[i] = a + i - 1

\* The number of the first byte in the out buffer (if it is not empty)
Oldest(x) == x.p.written - Len(x.s.out) + 1

Kept(s) == IF s.data = <<>> THEN <<>> ELSE s.data[1]

\* The number of the byte that y gets next, if k was the first
Wanted(k, y) == k + Len(y.p.log) + Len(y.s.in) + Len(Kept(y.s))

\* What of the packet under way has arrived
Arrival(x, y) == IF y.s.peer = x.s.my THEN x.s.sent ELSE 0

HasReset(x) == \E d \in x.n : d.kind = "reset"
HasData(x) == \E d \in x.n : d.kind = "data"

\* The number of an end's first packet
Born(e) == IF e = "requester" THEN 1 ELSE 0

\* Buffers and counters of an end
Shape(e, x) ==
  /\ ~x.s.use => x.s = GivenBack(x.s)
  /\ Len(x.s.in) <= BufferLen /\ Len(x.s.out) <= BufferLen /\ x.s.sent <= Len(x.s.out)
  /\ Len(x.s.data) <= 1 /\ (x.s.data # <<>> => Len(x.s.data[1]) \in 1 .. BufferLen)
  /\ Run(x.s.out, Oldest(x))
  /\ x.s.notready => /\ x.s.in = <<>> /\ x.s.out = <<>> /\ x.s.data = <<>> /\ x.s.sent = 0
                     /\ x.p.written = 0 /\ x.p.log = <<>>
                     /\ x.s.my = Born(e) /\ x.s.peer = 1 - Born(e)
  /\ e = "acceptor" /\ x.s.use => x.s.peer >= 1 /\ (x.s.my = 0 => x.p.written = Len(x.s.out))
  /\ e = "requester" /\ x.s.use => x.s.my >= 1
  /\ e = "requester" /\ x.s.my = 1 => x.s.out = <<>> /\ (x.s.notready \/ x.s.dead)
  /\ x.p.written <= MaxBytes[e]
  /\ x.s.retries <= MaxResend
  /\ IsFiniteSet(x.n) /\ Cardinality(x.n) <= MaxPackets[Peer(e)]

\* The flags of an end and the state of its process
Manner(e, x) ==
  /\ x.s.use /\ x.s.req # "none" => x.s.notready \/ x.s.dead
  /\ x.s.req = "stale" => e = "acceptor"
  /\ x.s.closing /\ x.s.writesleep => x.s.dead \/ x.s.peerclosing \/ x.s.req = "stale"
  /\ x.p.state = "running" => ~x.s.readsleep
  /\ x.s.writesleep /\ (x.p.state = "running" \/ x.s.readsleep) => x.s.dead \/ x.s.peerclosing
  /\ x.s.writesleep => x.s.dead \/ x.s.peerclosing \/ x.p.written + x.s.left <= MaxBytes[e]
  /\ e = "requester" /\ x.s.req = "sent" => ~x.s.readsleep /\ ~x.s.writesleep
  /\ x.s.use => x.p.state # "lost" /\ (x.p.eof => x.s.dead)

\* The way from x, at e, to y
Flow(k, e, x, y) ==
  /\ Run(y.p.log, k)
  /\ y.s.use => /\ Run(y.s.in, k + Len(y.p.log))
                /\ Run(Kept(y.s), k + Len(y.p.log) + Len(y.s.in))
  /\ y.s.peerclosing => x.s.closing \/ ~x.s.use
  /\ e = "acceptor" /\ y.s.use /\ y.s.peer = 0 => y.p.log = <<>> /\ y.s.in = <<>> /\ y.s.data = <<>>
  /\ x.s.use /\ y.s.use =>
       /\ y.s.peer \in {x.s.my - 1, x.s.my}
       /\ ~x.s.peerclosing => Wanted(k, y) = Oldest(x) + Arrival(x, y)
       /\ y.s.peer = x.s.my /\ x.s.sent = 0 =>
            \/ x.s.closing /\ (x.s.out = <<>> \/ x.s.peerclosing)
            \/ x.s.my = Born(e)
       /\ y.s.peer = x.s.my /\ y.s.data # <<>> => x.s.sent > 0

\* A packet from x to y
Fits(k, e, d, x, y) ==
  /\ e = "acceptor" => d.ack >= 1
  /\ "CLOSING" \in d.flags => x.s.closing \/ ~x.s.use
  /\ x.s.use =>
       /\ d.number <= x.s.my /\ d.ack <= x.s.peer
       /\ d.number = x.s.my /\ d.number # 0 =>
            IF "DATA" \in d.flags THEN x.s.sent > 0 /\ Len(d.load) = x.s.sent
            ELSE x.s.closing /\ (x.s.out = <<>> \/ x.s.peerclosing)
  /\ y.s.use =>
       /\ d.number <= y.s.peer + 1 /\ d.ack <= y.s.my
       /\ "DATA" \in d.flags /\ d.number = y.s.peer + 1 =>
            /\ Len(d.load) \in 1 .. BufferLen
            /\ Run(d.load, Wanted(k, y)) /\ Wanted(k, y) + Len(d.load) - 1 <= x.p.written

Fitting(k, e, x, y) == \A d \in x.n : d.kind = "data" => Fits(k, e, d, x, y)

\* All that x wrote has come to y.
Complete(k, x, y) ==
  /\ x.s.closing \/ ~x.s.use
  /\ y.s.data = <<>> /\ Wanted(k, y) = x.p.written + 1

\* How a stream ends when no fault has happened
Endings(k, x, y, calm) ==
  calm =>
    /\ y.s.use /\ ~y.s.closing =>
         /\ y.s.dead \/ HasReset(x) \/ ~x.s.use \/ (x.s.closing /\ HasReset(y)) => Complete(k, x, y)
         /\ y.p.eof => Complete(k, x, y) /\ y.s.in = <<>>
    /\ x.s.use /\ x.s.dead /\ x.s.closing => y.s.closing \/ ~y.s.use

\* How it begins, for the requester r and the acceptor a
Handshake(r, a, calm) ==
  /\ \A d \in r.n : d.kind # "resp"
  /\ \A d \in a.n : d.kind # "ack_ack"
  /\ r.s.use /\ r.s.req = "sent" =>
       /\ \A d \in r.n : d.kind = "reset"
       /\ ~HasReset(a)
       /\ a.s.use => a.s.notready
       /\ HasData(a) \/ HasReset(r) => a.s.closing \/ ~a.s.use
  /\ calm => a.s.req # "stale"
  /\ calm /\ a.s.use /\ a.s.req = "sent" /\ ~a.s.closing /\ ~a.s.dead /\ r.s.use =>
       /\ r.s.notready /\ ~HasData(a)
       /\ HasData(r) \/ HasReset(a) => r.s.closing

Meeting(e, x, y, calm) ==
  IF e = "requester" THEN Handshake(x, y, calm) ELSE Handshake(y, x, calm)

GoodAt(k, l, e, x, y, calm) ==
  /\ Shape(e, x) /\ Manner(e, x)
  /\ Flow(k, e, x, y) /\ Fitting(k, e, x, y) /\ Endings(k, x, y, calm)
  /\ Shape(Peer(e), y) /\ Manner(Peer(e), y)
  /\ Flow(l, Peer(e), y, x) /\ Fitting(l, Peer(e), y, x) /\ Endings(l, y, x, calm)
  /\ Meeting(e, x, y, calm)

\* In a handler of the end e, whose peer is y
HoldsAt(k, l, e, w, y, calm) ==
  /\ w \in Worlds /\ w.room = MaxPackets[Peer(e)]
  /\ y \in Sides /\ calm \in BOOLEAN /\ (calm => w.route)
  /\ k \in Firsts(e) /\ l \in Firsts(Peer(e))
  /\ GoodAt(k, l, e, w, y, calm)

Holds(e, w, y, calm) == \E k \in Firsts(e), l \in Firsts(Peer(e)) : HoldsAt(k, l, e, w, y, calm)

Good(e, x, y, calm) == \E k \in Firsts(e), l \in Firsts(Peer(e)) : GoodAt(k, l, e, x, y, calm)

Once ==
  \A e \in Ends :
    /\ <<"unanswered", e>> \in upset => ~end[e].use \/ e = "acceptor"
    /\ <<"unconfirmed", e>> \in upset => end[e].req # "sent" \/ e = "requester"
    /\ <<"silent", e>> \in upset \/ <<"no route", e>> \in upset => end[e].dead \/ ~end[e].use

Sound == Good("requester", Side("requester"), Side("acceptor"), upset = {})

-----------------------------------------------------------------------------
(* Types *)

LEMMA PeerEnds ==
  ASSUME NEW e \in Ends
  PROVE  Peer(e) \in Ends /\ Peer(Peer(e)) = e /\ Peer(e) # e /\ Ends = {e, Peer(e)}
  BY DEF Ends, Peer

LEMMA ConstantTypes ==
  /\ BufferLen \in Nat /\ BufferLen >= 1 /\ MaxResend \in Nat
  /\ \A e \in Ends : MaxPackets[e] \in Nat /\ MaxBytes[e] \in Nat
<1>1. BufferLen \in Nat \ {0} /\ MaxResend \in Nat \ {0} /\ MaxPackets \in [Ends -> Nat \ {0}]
      /\ MaxBytes \in [Ends -> Nat]
  BY NetStreamAssumption
<1> QED BY <1>1

LEMMA FreeType == Free \in Streams
  BY DEF Free, Streams

LEMMA FreeFields ==
  /\ Free.use = FALSE /\ Free.notready = FALSE /\ Free.dead = FALSE /\ Free.closing = FALSE
  /\ Free.peerclosing = FALSE /\ Free.readsleep = FALSE /\ Free.writesleep = FALSE
  /\ Free.req = "none" /\ Free.retries = 0 /\ Free.in = <<>> /\ Free.out = <<>> /\ Free.sent = 0
  /\ Free.data = <<>> /\ Free.my = 0 /\ Free.peer = 0 /\ Free.left = 0
  BY DEF Free

LEMMA EqualStreams ==
  ASSUME NEW s \in Streams, NEW r \in Streams,
         s.use = r.use, s.notready = r.notready, s.dead = r.dead, s.closing = r.closing,
         s.peerclosing = r.peerclosing, s.readsleep = r.readsleep, s.writesleep = r.writesleep,
         s.req = r.req, s.retries = r.retries, s.in = r.in, s.out = r.out, s.sent = r.sent,
         s.data = r.data, s.my = r.my, s.peer = r.peer, s.left = r.left
  PROVE  s = r
<1>1. \A q \in Streams :
        q = [use |-> q.use, notready |-> q.notready, dead |-> q.dead, closing |-> q.closing,
             peerclosing |-> q.peerclosing, readsleep |-> q.readsleep, writesleep |-> q.writesleep, req
             |-> q.req, retries |-> q.retries, in |-> q.in, out |-> q.out, sent |-> q.sent, data |->
             q.data, my |-> q.my, peer |-> q.peer, left |-> q.left]
  BY DEF Streams
<1> QED BY <1>1

\* A slot that was given back
LEMMA GivenFields ==
  ASSUME NEW s \in Streams, NEW g, g = GivenBack(s)
  PROVE  /\ g \in Streams /\ g.req = s.req /\ g.retries = s.retries
         /\ g.use = FALSE /\ g.notready = FALSE /\ g.dead = FALSE /\ g.closing = FALSE
         /\ g.peerclosing = FALSE /\ g.readsleep = FALSE /\ g.writesleep = FALSE
         /\ g.in = <<>> /\ g.out = <<>> /\ g.sent = 0 /\ g.data = <<>>
         /\ g.my = 0 /\ g.peer = 0 /\ g.left = 0
<1>1. s.req \in {"none", "sent", "stale"} /\ s.retries \in Nat
  BY DEF Streams
<1> DEFINE a == s.req
           b == s.retries
<1>2. g = [Free EXCEPT !.req = a, !.retries = b] /\ a \in {"none", "sent", "stale"} /\ b \in Nat
  BY <1>1 DEF GivenBack
<1> HIDE DEF a, b
<1>3. g \in Streams /\ g.req = a /\ g.retries = b
      /\ g.use = Free.use /\ g.notready = Free.notready /\ g.dead = Free.dead
      /\ g.closing = Free.closing /\ g.peerclosing = Free.peerclosing
      /\ g.readsleep = Free.readsleep /\ g.writesleep = Free.writesleep
      /\ g.in = Free.in /\ g.out = Free.out /\ g.sent = Free.sent /\ g.data = Free.data
      /\ g.my = Free.my /\ g.peer = Free.peer /\ g.left = Free.left
  BY <1>2, FreeType DEF Streams
<1> QED BY <1>3, FreeFields DEF a, b

\* A slot that differs from a given back one in the request only
GivenLike(s, r) ==
  /\ s.use = r.use /\ s.notready = r.notready /\ s.dead = r.dead /\ s.closing = r.closing
  /\ s.peerclosing = r.peerclosing /\ s.readsleep = r.readsleep /\ s.writesleep = r.writesleep
  /\ s.in = r.in /\ s.out = r.out /\ s.sent = r.sent
  /\ s.data = r.data /\ s.my = r.my /\ s.peer = r.peer /\ s.left = r.left

LEMMA GivenFrom ==
  ASSUME NEW s \in Streams, NEW r \in Streams, s = GivenBack(s), GivenLike(s, r)
  PROVE  r = GivenBack(r)
<1> DEFINE g == GivenBack(r)
<1>1. /\ s.use = FALSE /\ s.notready = FALSE /\ s.dead = FALSE /\ s.closing = FALSE
      /\ s.peerclosing = FALSE /\ s.readsleep = FALSE /\ s.writesleep = FALSE
      /\ s.in = <<>> /\ s.out = <<>> /\ s.sent = 0 /\ s.data = <<>>
      /\ s.my = 0 /\ s.peer = 0 /\ s.left = 0
  BY GivenFields
<1>2. /\ g \in Streams /\ g.req = r.req /\ g.retries = r.retries
      /\ g.use = FALSE /\ g.notready = FALSE /\ g.dead = FALSE /\ g.closing = FALSE
      /\ g.peerclosing = FALSE /\ g.readsleep = FALSE /\ g.writesleep = FALSE
      /\ g.in = <<>> /\ g.out = <<>> /\ g.sent = 0 /\ g.data = <<>>
      /\ g.my = 0 /\ g.peer = 0 /\ g.left = 0
  BY GivenFields
<1> HIDE DEF g
<1>3. r = g
  BY <1>1, <1>2, EqualStreams DEF GivenLike
<1> QED BY <1>3 DEF g

LEMMA GivenTwice ==
  ASSUME NEW s \in Streams, NEW g, g = GivenBack(s)
  PROVE  g = GivenBack(g)
  BY GivenFields DEF GivenBack

-----------------------------------------------------------------------------
(* Sequences of bytes *)

LEMMA EmptyRun == \A a : Run(<<>>, a)
  BY DEF Run

LEMMA RunOfPart ==
  ASSUME NEW q \in Seq(Nat), NEW a \in Int, Run(q, a),
         NEW i \in Nat, i <= Len(q)
  PROVE  /\ SubSeq(q, 1, i) \in Seq(Nat) /\ Len(SubSeq(q, 1, i)) = i
         /\ Run(SubSeq(q, 1, i), a)
         /\ SubSeq(q, i + 1, Len(q)) \in Seq(Nat) /\ Len(SubSeq(q, i + 1, Len(q))) = Len(q) - i
         /\ Run(SubSeq(q, i + 1, Len(q)), a + i)
<1>1. Len(q) \in Nat /\ DOMAIN q = 1 .. Len(q)
  OBVIOUS
<1>2. /\ SubSeq(q, 1, i) \in Seq(Nat) /\ Len(SubSeq(q, 1, i)) = i
      /\ \A j \in 1 .. i : SubSeq(q, 1, i)[j] = q[j]
  BY <1>1
<1>3. /\ SubSeq(q, i + 1, Len(q)) \in Seq(Nat) /\ Len(SubSeq(q, i + 1, Len(q))) = Len(q) - i
      /\ \A j \in 1 .. Len(q) - i : SubSeq(q, i + 1, Len(q))[j] = q[i + j]
  <2>1. i + 1 \in Int /\ Len(q) \in Int /\ \A j \in i + 1 .. Len(q) : q[j] \in Nat
    BY <1>1
  <2>2. /\ SubSeq(q, i + 1, Len(q)) \in Seq(Nat)
        /\ Len(SubSeq(q, i + 1, Len(q))) = IF i + 1 <= Len(q) THEN Len(q) - (i + 1) + 1 ELSE 0
        /\ \A j \in 1 .. Len(q) - (i + 1) + 1 : SubSeq(q, i + 1, Len(q))[j] = q[i + 1 + j - 1]
    BY <2>1, SubSeqProperties
  <2>3. Len(q) - (i + 1) + 1 = Len(q) - i /\ \A j \in 1 .. Len(q) - i : i + 1 + j - 1 = i + j
    BY <1>1
  <2> DEFINE r == SubSeq(q, i + 1, Len(q))
  <2>4. r \in Seq(Nat) /\ Len(r) = Len(q) - i
    <3>1. r \in Seq(Nat) /\ Len(r) = IF i + 1 <= Len(q) THEN Len(q) - (i + 1) + 1 ELSE 0
      BY <2>2
    <3>2. Len(q) \in Nat
      OBVIOUS
    <3> HIDE DEF r
    <3> QED BY <3>1, <3>2
  <2>5. ASSUME NEW j \in 1 .. Len(q) - i PROVE r[j] = q[i + j]
    <3>1. j \in 1 .. Len(q) - (i + 1) + 1
      BY <2>3
    <3>2. r[j] = q[i + 1 + j - 1]
      BY <2>2, <3>1
    <3> HIDE DEF r
    <3> QED BY <2>3, <3>2
  <2> QED BY <2>4, <2>5
<1>4. Run(SubSeq(q, 1, i), a)
  BY <1>1, <1>2 DEF Run
<1>5. Run(SubSeq(q, i + 1, Len(q)), a + i)
  <2> DEFINE r == SubSeq(q, i + 1, Len(q))
  <2>1. DOMAIN r = 1 .. Len(q) - i
    BY <1>3
  <2>2. ASSUME NEW j \in 1 .. Len(q) - i PROVE r[j] = a + i + j - 1
    <3>1. r[j] = q[i + j]
      BY <1>3
    <3>3. i + j \in 1 .. Len(q)
      BY <1>1
    <3>2. q[i + j] = a + (i + j) - 1
      BY <1>1, <3>3 DEF Run
    <3> QED BY <3>1, <3>2
  <2> HIDE DEF r
  <2>3. \A j \in DOMAIN r : r[j] = a + i + j - 1
    BY <2>1, <2>2
  <2> QED BY <2>3 DEF r, Run
<1> QED BY <1>2, <1>3, <1>4, <1>5

LEMMA RunsJoin ==
  ASSUME NEW q \in Seq(Nat), NEW r \in Seq(Nat), NEW a \in Int, Run(q, a), Run(r, a + Len(q))
  PROVE  q \o r \in Seq(Nat) /\ Len(q \o r) = Len(q) + Len(r) /\ Run(q \o r, a)
<1>1. /\ Len(q) \in Nat /\ DOMAIN q = 1 .. Len(q) /\ Len(r) \in Nat /\ DOMAIN r = 1 .. Len(r)
      /\ q \o r \in Seq(Nat) /\ Len(q \o r) = Len(q) + Len(r)
  OBVIOUS
<1>2. DOMAIN (q \o r) = 1 .. Len(q) + Len(r)
  BY <1>1
<1>3. \A i \in 1 .. Len(q) + Len(r) :
        (q \o r)[i] = IF i <= Len(q) THEN q[i] ELSE r[i - Len(q)]
  BY <1>1
<1>4. ASSUME NEW i \in 1 .. Len(q) + Len(r) PROVE (q \o r)[i] = a + i - 1
  <2>1. CASE i <= Len(q)
    <3>1. i \in 1 .. Len(q)
      BY <1>1, <2>1
    <3>2. q[i] = a + i - 1
      BY <1>1, <3>1 DEF Run
    <3> QED BY <1>3, <2>1, <3>2
  <2>2. CASE ~(i <= Len(q))
    <3>1. i - Len(q) \in 1 .. Len(r)
      BY <1>1, <2>2
    <3>2. r[i - Len(q)] = a + Len(q) + (i - Len(q)) - 1
      BY <1>1, <3>1 DEF Run
    <3> QED BY <1>1, <1>3, <2>2, <3>2
  <2> QED BY <2>1, <2>2
<1> QED BY <1>1, <1>2, <1>4 DEF Run

\* The bytes a process writes next
LEMMA RunOfNew ==
  ASSUME NEW a \in Nat, NEW n \in Nat
  PROVE  LET q == [i \in 1 .. n |-> a + i] IN
         q \in Seq(Nat) /\ Len(q) = n /\ Run(q, a + 1)
<1> DEFINE q == [i \in 1 .. n |-> a + i]
<1>1. q \in [1 .. n -> Nat]
  OBVIOUS
<1>2. q \in Seq(Nat)
  BY <1>1, SeqDef
<1>3. DOMAIN q = 1 .. n /\ Len(q) \in Nat /\ DOMAIN q = 1 .. Len(q)
  BY <1>2, LenProperties
<1>4. Len(q) = n
  BY <1>3
<1>5. \A i \in 1 .. n : q[i] = a + 1 + i - 1
  OBVIOUS
<1> QED BY <1>2, <1>3, <1>4, <1>5 DEF Run


-----------------------------------------------------------------------------
(* The invariant *)

\* Of an end it looks at the stream, the process and the packets only.
LEMMA GoodSame ==
  ASSUME NEW k, NEW l, NEW e, NEW c, NEW x, NEW y, NEW t, NEW u,
         t.s = x.s, t.p = x.p, t.n = x.n, u.s = y.s, u.p = y.p, u.n = y.n,
         GoodAt(k, l, e, x, y, c)
  PROVE  GoodAt(k, l, e, t, u, c)
<1>1. Shape(e, t) /\ Shape(Peer(e), u)
  BY DEF GoodAt, Shape, Oldest
<1>2. Manner(e, t) /\ Manner(Peer(e), u)
  BY DEF GoodAt, Manner
<1>3. Flow(k, e, t, u) /\ Flow(l, Peer(e), u, t)
  BY DEF GoodAt, Flow, Wanted, Arrival, Oldest
<1>4. Fitting(k, e, t, u) /\ Fitting(l, Peer(e), u, t)
  BY DEF GoodAt, Fitting, Fits, Wanted
<1>5. HasReset(t) = HasReset(x) /\ HasReset(u) = HasReset(y)
      /\ HasData(t) = HasData(x) /\ HasData(u) = HasData(y)
  BY DEF HasReset, HasData
<1>6. Endings(k, t, u, c) /\ Endings(l, u, t, c)
  BY <1>5 DEF GoodAt, Endings, Complete, Wanted
<1>7. Meeting(e, t, u, c)
  BY <1>5 DEF GoodAt, Meeting, Handshake
<1> QED BY <1>1, <1>2, <1>3, <1>4, <1>6, <1>7 DEF GoodAt

\* It is the same seen from either end.
LEMMA GoodTurned ==
  ASSUME NEW e \in Ends, NEW x, NEW y, NEW c
  PROVE  Good(e, x, y, c) <=> Good(Peer(e), y, x, c)
<1>1. \A k, l : GoodAt(k, l, e, x, y, c) <=> GoodAt(l, k, Peer(e), y, x, c)
  <2>1. Meeting(e, x, y, c) <=> Meeting(Peer(e), y, x, c)
    BY DEF Meeting, Ends, Peer
  <2> QED BY <2>1, PeerEnds DEF GoodAt
<1> QED BY <1>1, PeerEnds DEF Good

\* A fault only takes away from what is required.
LEMMA GoodUpset ==
  ASSUME NEW k, NEW l, NEW e, NEW x, NEW y, NEW c, GoodAt(k, l, e, x, y, c)
  PROVE  GoodAt(k, l, e, x, y, FALSE)
<1>1. Endings(k, x, y, FALSE) /\ Endings(l, y, x, FALSE)
  BY DEF Endings
<1>2. Meeting(e, x, y, FALSE)
  BY DEF GoodAt, Meeting, Handshake
<1> QED BY <1>1, <1>2 DEF GoodAt

\* So does the loss of packets.
LEMMA GoodWithFewer ==
  ASSUME NEW k, NEW l, NEW e \in Ends, NEW c \in BOOLEAN, NEW x \in Sides, NEW y \in Sides,
         NEW t, NEW u, t.s = x.s, t.p = x.p, t.n \subseteq x.n, u.s = y.s, u.p = y.p, u.n \subseteq y.n,
         GoodAt(k, l, e, x, y, c)
  PROVE  GoodAt(k, l, e, t, u, c)
<1>1. Shape(e, t) /\ Shape(Peer(e), u)
  <2>1. /\ IsFiniteSet(x.n) /\ Cardinality(x.n) <= MaxPackets[Peer(e)]
        /\ IsFiniteSet(y.n) /\ Cardinality(y.n) <= MaxPackets[Peer(Peer(e))]
    BY DEF GoodAt, Shape
  <2>2. /\ IsFiniteSet(t.n) /\ Cardinality(t.n) <= Cardinality(x.n)
        /\ IsFiniteSet(u.n) /\ Cardinality(u.n) <= Cardinality(y.n)
    BY <2>1, FS_Subset
  <2>3. /\ Cardinality(t.n) \in Nat /\ Cardinality(u.n) \in Nat /\ Cardinality(x.n) \in Nat
        /\ Cardinality(y.n) \in Nat
        /\ MaxPackets[Peer(e)] \in Nat /\ MaxPackets[Peer(Peer(e))] \in Nat
    BY <2>1, <2>2, FS_CardinalityType, PeerEnds, ConstantTypes
  <2>4. Cardinality(t.n) <= MaxPackets[Peer(e)] /\ Cardinality(u.n) <= MaxPackets[Peer(Peer(e))]
    BY <2>1, <2>2, <2>3
  <2> QED BY <2>2, <2>4 DEF GoodAt, Shape, Oldest
<1>2. Manner(e, t) /\ Manner(Peer(e), u)
  BY DEF GoodAt, Manner
<1>3. Flow(k, e, t, u) /\ Flow(l, Peer(e), u, t)
  BY DEF GoodAt, Flow, Wanted, Arrival, Oldest
<1>4. Fitting(k, e, t, u) /\ Fitting(l, Peer(e), u, t)
  BY DEF GoodAt, Fitting, Fits, Wanted
<1>5. (HasReset(t) => HasReset(x)) /\ (HasReset(u) => HasReset(y))
      /\ (HasData(t) => HasData(x)) /\ (HasData(u) => HasData(y))
  BY DEF HasReset, HasData
<1>6. Endings(k, t, u, c) /\ Endings(l, u, t, c)
  BY <1>5 DEF GoodAt, Endings, Complete, Wanted
<1>7. Meeting(e, t, u, c)
  <2>1. (\A d \in t.n : d \in x.n) /\ (\A d \in u.n : d \in y.n)
    OBVIOUS
  <2> QED BY <1>5, <2>1 DEF GoodAt, Meeting, Handshake
<1> QED BY <1>1, <1>2, <1>3, <1>4, <1>6, <1>7 DEF GoodAt


-----------------------------------------------------------------------------
(* What the parts of a handler do *)

LEMMA FirstsType ==
  ASSUME NEW e \in Ends, NEW k \in Firsts(e)
  PROVE  k \in Nat /\ k >= 1
  BY ConstantTypes DEF Firsts

\* The fields of the records
LEMMA WorldFields ==
  ASSUME NEW w \in Worlds
  PROVE  /\ w.s \in Streams /\ w.p \in Processes /\ w.n \subseteq Packets
         /\ w.room \in Nat /\ w.route \in BOOLEAN
  BY DEF Worlds

LEMMA StreamFields ==
  ASSUME NEW s \in Streams
  PROVE  /\ s.use \in BOOLEAN /\ s.notready \in BOOLEAN /\ s.dead \in BOOLEAN /\ s.closing \in BOOLEAN
         /\ s.peerclosing \in BOOLEAN /\ s.readsleep \in BOOLEAN /\ s.writesleep \in BOOLEAN
         /\ s.req \in {"none", "sent", "stale"} /\ s.retries \in Nat
         /\ s.in \in Seq(Nat) /\ s.out \in Seq(Nat) /\ s.sent \in Nat /\ s.data \in Seq(Seq(Nat))
         /\ s.my \in Nat /\ s.peer \in Nat /\ s.left \in Nat
         /\ Len(s.in) \in Nat /\ Len(s.out) \in Nat /\ Len(s.data) \in Nat
  BY DEF Streams

LEMMA ProcessFields ==
  ASSUME NEW p \in Processes
  PROVE  /\ p.state \in {"running", "asleep", "lost", "corrupt", "ended"}
         /\ p.written \in Nat /\ p.log \in Seq(Nat) /\ p.eof \in BOOLEAN /\ Len(p.log) \in Nat
  BY DEF Processes

LEMMA KeptType ==
  ASSUME NEW s \in Streams
  PROVE  Kept(s) \in Seq(Nat) /\ Len(Kept(s)) \in Nat
<1>1. s.data \in Seq(Seq(Nat))
  BY StreamFields
<1>2. CASE s.data = <<>>
  BY <1>2 DEF Kept
<1>3. CASE s.data # <<>>
  <2>1. Len(s.data) \in Nat /\ Len(s.data) # 0 /\ DOMAIN s.data = 1 .. Len(s.data)
    BY <1>1, <1>3
  <2>2. s.data[1] \in Seq(Nat)
    BY <1>1, <2>1
  <2> QED BY <1>3, <2>2 DEF Kept
<1> QED BY <1>2, <1>3

\* The numbers that the invariant speaks of
LEMMA Numbers ==
  ASSUME NEW k, NEW l, NEW e \in Ends, NEW w, NEW y, NEW c, HoldsAt(k, l, e, w, y, c)
  PROVE  /\ k \in Nat /\ l \in Nat
         /\ w.s \in Streams /\ w.p \in Processes /\ y.s \in Streams /\ y.p \in Processes
         /\ w.n \subseteq Packets /\ y.n \subseteq Packets /\ w.room \in Nat /\ w.route \in BOOLEAN
         /\ Len(Kept(w.s)) \in Nat /\ Len(Kept(y.s)) \in Nat
         /\ Wanted(k, y) \in Nat /\ Wanted(l, w) \in Nat
         /\ Arrival(w, y) \in Nat /\ Arrival(y, w) \in Nat
         /\ MaxBytes[e] \in Nat /\ MaxBytes[Peer(e)] \in Nat
         /\ MaxPackets[e] \in Nat /\ MaxPackets[Peer(e)] \in Nat
         /\ BufferLen \in Nat /\ BufferLen >= 1 /\ c \in BOOLEAN
<1>1. k \in Nat /\ l \in Nat
  BY FirstsType, PeerEnds DEF HoldsAt
<1>2. w.s \in Streams /\ w.p \in Processes /\ y.s \in Streams /\ y.p \in Processes
      /\ w.n \subseteq Packets /\ y.n \subseteq Packets /\ w.room \in Nat /\ w.route \in BOOLEAN
  BY DEF HoldsAt, Worlds, Sides
<1>3. Len(Kept(w.s)) \in Nat /\ Len(Kept(y.s)) \in Nat
  BY <1>2, KeptType
<1>4. Wanted(k, y) \in Nat /\ Wanted(l, w) \in Nat
  <2>1. Len(w.p.log) \in Nat /\ Len(w.s.in) \in Nat
    BY <1>2, StreamFields, ProcessFields
  <2>2. Len(y.p.log) \in Nat /\ Len(y.s.in) \in Nat
    BY <1>2, StreamFields, ProcessFields
  <2>3. ASSUME NEW a \in Nat, NEW b \in Nat, NEW d \in Nat, NEW f \in Nat PROVE a + b + d + f \in Nat
    OBVIOUS
  <2>4. k + Len(y.p.log) + Len(y.s.in) + Len(Kept(y.s)) \in Nat
    BY <1>1, <1>3, <2>2, <2>3
  <2>5. l + Len(w.p.log) + Len(w.s.in) + Len(Kept(w.s)) \in Nat
    BY <1>1, <1>3, <2>1, <2>3
  <2> QED BY <2>4, <2>5 DEF Wanted
<1>5. Arrival(w, y) \in Nat /\ Arrival(y, w) \in Nat
  BY <1>2, StreamFields DEF Arrival
<1> QED BY <1>1, <1>2, <1>3, <1>4, <1>5, ConstantTypes, PeerEnds DEF HoldsAt


-----------------------------------------------------------------------------
(* Records of a handler with some fields changed *)

OutSet(w, r, m, t) ==
  /\ t \in Worlds /\ t.s.out = r /\ t.p.written = m
  /\ t.s.use = w.s.use /\ t.s.notready = w.s.notready /\ t.s.dead = w.s.dead /\ t.s.closing = w.s.closing
  /\ t.s.peerclosing = w.s.peerclosing /\ t.s.readsleep = w.s.readsleep /\ t.s.writesleep = w.s.writesleep /\ t.s.req = w.s.req
  /\ t.s.retries = w.s.retries /\ t.s.in = w.s.in /\ t.s.sent = w.s.sent /\ t.s.data = w.s.data
  /\ t.s.my = w.s.my /\ t.s.peer = w.s.peer /\ t.s.left = w.s.left
  /\ t.p.state = w.p.state /\ t.p.log = w.p.log /\ t.p.eof = w.p.eof
  /\ t.n = w.n /\ t.room = w.room /\ t.route = w.route

LEMMA IsOutSet ==
  ASSUME NEW w \in Worlds, NEW r \in Seq(Nat), NEW m \in Nat,
         NEW t, t = [w EXCEPT !.s.out = r, !.p.written = m]
  PROVE  OutSet(w, r, m, t)
  BY DEF Worlds, Streams, Processes, OutSet

SentSet(w, b, t) ==
  /\ t \in Worlds /\ t.s.sent = b
  /\ t.s.use = w.s.use /\ t.s.notready = w.s.notready /\ t.s.dead = w.s.dead /\ t.s.closing = w.s.closing
  /\ t.s.peerclosing = w.s.peerclosing /\ t.s.readsleep = w.s.readsleep /\ t.s.writesleep = w.s.writesleep /\ t.s.req = w.s.req
  /\ t.s.retries = w.s.retries /\ t.s.in = w.s.in /\ t.s.out = w.s.out /\ t.s.data = w.s.data
  /\ t.s.my = w.s.my /\ t.s.peer = w.s.peer /\ t.s.left = w.s.left
  /\ t.p = w.p
  /\ t.n = w.n /\ t.room = w.room /\ t.route = w.route

LEMMA IsSentSet ==
  ASSUME NEW w \in Worlds, NEW b \in Nat,
         NEW t, t = [w EXCEPT !.s.sent = b]
  PROVE  SentSet(w, b, t)
  BY DEF Worlds, Streams, Processes, SentSet

DeadSet(w, b, t) ==
  /\ t \in Worlds /\ t.s.dead = b
  /\ t.s.use = w.s.use /\ t.s.notready = w.s.notready /\ t.s.closing = w.s.closing /\ t.s.peerclosing = w.s.peerclosing
  /\ t.s.readsleep = w.s.readsleep /\ t.s.writesleep = w.s.writesleep /\ t.s.req = w.s.req /\ t.s.retries = w.s.retries
  /\ t.s.in = w.s.in /\ t.s.out = w.s.out /\ t.s.sent = w.s.sent /\ t.s.data = w.s.data
  /\ t.s.my = w.s.my /\ t.s.peer = w.s.peer /\ t.s.left = w.s.left
  /\ t.p = w.p
  /\ t.n = w.n /\ t.room = w.room /\ t.route = w.route

LEMMA IsDeadSet ==
  ASSUME NEW w \in Worlds, NEW b \in BOOLEAN,
         NEW t, t = [w EXCEPT !.s.dead = b]
  PROVE  DeadSet(w, b, t)
  BY DEF Worlds, Streams, Processes, DeadSet

ClosingSet(w, b, t) ==
  /\ t \in Worlds /\ t.s.closing = b
  /\ t.s.use = w.s.use /\ t.s.notready = w.s.notready /\ t.s.dead = w.s.dead /\ t.s.peerclosing = w.s.peerclosing
  /\ t.s.readsleep = w.s.readsleep /\ t.s.writesleep = w.s.writesleep /\ t.s.req = w.s.req /\ t.s.retries = w.s.retries
  /\ t.s.in = w.s.in /\ t.s.out = w.s.out /\ t.s.sent = w.s.sent /\ t.s.data = w.s.data
  /\ t.s.my = w.s.my /\ t.s.peer = w.s.peer /\ t.s.left = w.s.left
  /\ t.p = w.p
  /\ t.n = w.n /\ t.room = w.room /\ t.route = w.route

LEMMA IsClosingSet ==
  ASSUME NEW w \in Worlds, NEW b \in BOOLEAN,
         NEW t, t = [w EXCEPT !.s.closing = b]
  PROVE  ClosingSet(w, b, t)
  BY DEF Worlds, Streams, Processes, ClosingSet

PeerclosingSet(w, b, t) ==
  /\ t \in Worlds /\ t.s.peerclosing = b
  /\ t.s.use = w.s.use /\ t.s.notready = w.s.notready /\ t.s.dead = w.s.dead /\ t.s.closing = w.s.closing
  /\ t.s.readsleep = w.s.readsleep /\ t.s.writesleep = w.s.writesleep /\ t.s.req = w.s.req /\ t.s.retries = w.s.retries
  /\ t.s.in = w.s.in /\ t.s.out = w.s.out /\ t.s.sent = w.s.sent /\ t.s.data = w.s.data
  /\ t.s.my = w.s.my /\ t.s.peer = w.s.peer /\ t.s.left = w.s.left
  /\ t.p = w.p
  /\ t.n = w.n /\ t.room = w.room /\ t.route = w.route

LEMMA IsPeerclosingSet ==
  ASSUME NEW w \in Worlds, NEW b \in BOOLEAN,
         NEW t, t = [w EXCEPT !.s.peerclosing = b]
  PROVE  PeerclosingSet(w, b, t)
  BY DEF Worlds, Streams, Processes, PeerclosingSet

NotreadySet(w, b, t) ==
  /\ t \in Worlds /\ t.s.notready = b
  /\ t.s.use = w.s.use /\ t.s.dead = w.s.dead /\ t.s.closing = w.s.closing /\ t.s.peerclosing = w.s.peerclosing
  /\ t.s.readsleep = w.s.readsleep /\ t.s.writesleep = w.s.writesleep /\ t.s.req = w.s.req /\ t.s.retries = w.s.retries
  /\ t.s.in = w.s.in /\ t.s.out = w.s.out /\ t.s.sent = w.s.sent /\ t.s.data = w.s.data
  /\ t.s.my = w.s.my /\ t.s.peer = w.s.peer /\ t.s.left = w.s.left
  /\ t.p = w.p
  /\ t.n = w.n /\ t.room = w.room /\ t.route = w.route

LEMMA IsNotreadySet ==
  ASSUME NEW w \in Worlds, NEW b \in BOOLEAN,
         NEW t, t = [w EXCEPT !.s.notready = b]
  PROVE  NotreadySet(w, b, t)
  BY DEF Worlds, Streams, Processes, NotreadySet

ReqSet(w, b, t) ==
  /\ t \in Worlds /\ t.s.req = b
  /\ t.s.use = w.s.use /\ t.s.notready = w.s.notready /\ t.s.dead = w.s.dead /\ t.s.closing = w.s.closing
  /\ t.s.peerclosing = w.s.peerclosing /\ t.s.readsleep = w.s.readsleep /\ t.s.writesleep = w.s.writesleep /\ t.s.retries = w.s.retries
  /\ t.s.in = w.s.in /\ t.s.out = w.s.out /\ t.s.sent = w.s.sent /\ t.s.data = w.s.data
  /\ t.s.my = w.s.my /\ t.s.peer = w.s.peer /\ t.s.left = w.s.left
  /\ t.p = w.p
  /\ t.n = w.n /\ t.room = w.room /\ t.route = w.route

LEMMA IsReqSet ==
  ASSUME NEW w \in Worlds, NEW b \in {"none", "sent", "stale"},
         NEW t, t = [w EXCEPT !.s.req = b]
  PROVE  ReqSet(w, b, t)
  BY DEF Worlds, Streams, Processes, ReqSet

InSet(w, q, r, t) ==
  /\ t \in Worlds /\ t.s.in = r /\ t.p.log = q
  /\ t.s.use = w.s.use /\ t.s.notready = w.s.notready /\ t.s.dead = w.s.dead /\ t.s.closing = w.s.closing
  /\ t.s.peerclosing = w.s.peerclosing /\ t.s.readsleep = w.s.readsleep /\ t.s.writesleep = w.s.writesleep /\ t.s.req = w.s.req
  /\ t.s.retries = w.s.retries /\ t.s.out = w.s.out /\ t.s.sent = w.s.sent /\ t.s.data = w.s.data
  /\ t.s.my = w.s.my /\ t.s.peer = w.s.peer /\ t.s.left = w.s.left
  /\ t.p.state = w.p.state /\ t.p.written = w.p.written /\ t.p.eof = w.p.eof
  /\ t.n = w.n /\ t.room = w.room /\ t.route = w.route

LEMMA IsInSet ==
  ASSUME NEW w \in Worlds, NEW q \in Seq(Nat), NEW r \in Seq(Nat),
         NEW t, t = [w EXCEPT !.p.log = q, !.s.in = r]
  PROVE  InSet(w, q, r, t)
  BY DEF Worlds, Streams, Processes, InSet

DataMoved(w, q, r, t) ==
  /\ t \in Worlds /\ t.s.in = q /\ t.s.data = r
  /\ t.s.use = w.s.use /\ t.s.notready = w.s.notready /\ t.s.dead = w.s.dead /\ t.s.closing = w.s.closing
  /\ t.s.peerclosing = w.s.peerclosing /\ t.s.readsleep = w.s.readsleep /\ t.s.writesleep = w.s.writesleep /\ t.s.req = w.s.req
  /\ t.s.retries = w.s.retries /\ t.s.out = w.s.out /\ t.s.sent = w.s.sent /\ t.s.my = w.s.my
  /\ t.s.peer = w.s.peer /\ t.s.left = w.s.left
  /\ t.p = w.p
  /\ t.n = w.n /\ t.room = w.room /\ t.route = w.route

LEMMA IsDataMoved ==
  ASSUME NEW w \in Worlds, NEW q \in Seq(Nat), NEW r \in Seq(Seq(Nat)),
         NEW t, t = [w EXCEPT !.s.in = q, !.s.data = r]
  PROVE  DataMoved(w, q, r, t)
  BY DEF Worlds, Streams, Processes, DataMoved

PeerSet(w, m, r, t) ==
  /\ t \in Worlds /\ t.s.peer = m /\ t.s.data = r
  /\ t.s.use = w.s.use /\ t.s.notready = w.s.notready /\ t.s.dead = w.s.dead /\ t.s.closing = w.s.closing
  /\ t.s.peerclosing = w.s.peerclosing /\ t.s.readsleep = w.s.readsleep /\ t.s.writesleep = w.s.writesleep /\ t.s.req = w.s.req
  /\ t.s.retries = w.s.retries /\ t.s.in = w.s.in /\ t.s.out = w.s.out /\ t.s.sent = w.s.sent
  /\ t.s.my = w.s.my /\ t.s.left = w.s.left
  /\ t.p = w.p
  /\ t.n = w.n /\ t.room = w.room /\ t.route = w.route

LEMMA IsPeerSet ==
  ASSUME NEW w \in Worlds, NEW m \in Nat, NEW r \in Seq(Seq(Nat)),
         NEW t, t = [w EXCEPT !.s.peer = m, !.s.data = r]
  PROVE  PeerSet(w, m, r, t)
  BY DEF Worlds, Streams, Processes, PeerSet

AdvanceSet(w, m, r, t) ==
  /\ t \in Worlds /\ ~t.s.notready /\ t.s.my = m /\ t.s.out = r /\ t.s.sent = 0
  /\ t.s.use = w.s.use /\ t.s.dead = w.s.dead /\ t.s.closing = w.s.closing /\ t.s.peerclosing = w.s.peerclosing
  /\ t.s.readsleep = w.s.readsleep /\ t.s.writesleep = w.s.writesleep /\ t.s.req = w.s.req /\ t.s.retries = w.s.retries
  /\ t.s.in = w.s.in /\ t.s.data = w.s.data /\ t.s.peer = w.s.peer /\ t.s.left = w.s.left
  /\ t.p = w.p
  /\ t.n = w.n /\ t.room = w.room /\ t.route = w.route

LEMMA IsAdvanceSet ==
  ASSUME NEW w \in Worlds, NEW m \in Nat, NEW r \in Seq(Nat),
         NEW t, t = [w EXCEPT !.s.notready = FALSE, !.s.my = m, !.s.out = r, !.s.sent = 0]
  PROVE  AdvanceSet(w, m, r, t)
  BY DEF Worlds, Streams, Processes, AdvanceSet


-----------------------------------------------------------------------------
(* Changes that parts of the invariant do not see *)

\* From x to t nothing changes that concerns the way from x, except that bytes
\* are added to the out buffer of an end that is not closing ...
Onward(x, t) ==
  /\ t.s.use = x.s.use /\ t.s.my = x.s.my /\ t.s.sent = x.s.sent /\ t.s.peer = x.s.peer
  /\ Oldest(t) = Oldest(x) /\ x.p.written \in Nat /\ t.p.written \in Nat /\ x.p.written <= t.p.written
  /\ x.s.closing => t.s.closing /\ (x.s.out = <<>> => t.s.out = <<>>)
  /\ x.s.peerclosing => t.s.peerclosing

\* ... and from y to u nothing that concerns the way to y.
Inward(y, u) ==
  /\ u.s.use = y.s.use /\ u.s.my = y.s.my /\ u.s.peer = y.s.peer
  /\ u.p.log = y.p.log /\ u.s.in = y.s.in /\ u.s.data = y.s.data
  /\ u.s.peerclosing => y.s.peerclosing

LEMMA InwardWanted ==
  ASSUME NEW k, NEW y, NEW u, Inward(y, u)
  PROVE  Wanted(k, u) = Wanted(k, y) /\ Kept(u.s) = Kept(y.s)
  BY DEF Inward, Wanted, Kept

LEMMA FlowFrom ==
  ASSUME NEW k, NEW e, NEW x, NEW y, NEW t, Flow(k, e, x, y), Onward(x, t)
  PROVE  Flow(k, e, t, y)
<1>1. Arrival(t, y) = Arrival(x, y)
  BY DEF Onward, Arrival
<1> QED BY <1>1 DEF Flow, Onward

LEMMA FlowTo ==
  ASSUME NEW k, NEW e, NEW x, NEW y, NEW u, Flow(k, e, x, y), Inward(y, u)
  PROVE  Flow(k, e, x, u)
<1>1. Wanted(k, u) = Wanted(k, y) /\ Kept(u.s) = Kept(y.s) /\ Arrival(x, u) = Arrival(x, y)
  BY InwardWanted DEF Inward, Arrival
<1> QED BY <1>1 DEF Flow, Inward

LEMMA FittingFrom ==
  ASSUME NEW k, NEW e, NEW x, NEW y, NEW t, Fitting(k, e, x, y), Onward(x, t),
         t.n \subseteq x.n, x.n \subseteq Packets, Wanted(k, y) \in Nat
  PROVE  Fitting(k, e, t, y)
<1> SUFFICES ASSUME NEW d \in t.n, d.kind = "data" PROVE Fits(k, e, d, t, y)
  BY DEF Fitting
<1>1. Fits(k, e, d, x, y)
  BY DEF Fitting
<1>2. d \in Packets
  OBVIOUS
<1>3. d.load \in Seq(Nat)
  BY <1>2 DEF Packets
<1>4. Len(d.load) \in Nat
  BY <1>3
<1>5. Wanted(k, y) + Len(d.load) - 1 <= x.p.written => Wanted(k, y) + Len(d.load) - 1 <= t.p.written
  BY <1>4 DEF Onward
<1> QED BY <1>1, <1>5 DEF Fits, Onward

LEMMA FittingTo ==
  ASSUME NEW k, NEW e, NEW x, NEW y, NEW u, Fitting(k, e, x, y), Inward(y, u)
  PROVE  Fitting(k, e, x, u)
<1>1. Wanted(k, u) = Wanted(k, y)
  BY InwardWanted
<1> QED BY <1>1 DEF Fitting, Fits, Inward

LEMMA EndingsFrom ==
  ASSUME NEW k, NEW x, NEW y, NEW t, NEW c, Endings(k, x, y, c),
         t.s.use = x.s.use, t.s.closing = x.s.closing, t.s.dead => x.s.dead,
         HasReset(t) => HasReset(x), c /\ Complete(k, x, y) => Complete(k, t, y)
  PROVE  Endings(k, t, y, c)
  BY DEF Endings

LEMMA EndingsTo ==
  ASSUME NEW k, NEW x, NEW y, NEW u, NEW c, Endings(k, x, y, c),
         HasReset(u) => HasReset(y), u.s.use = y.s.use, y.s.closing => u.s.closing,
         u.s.dead => y.s.dead, u.p.eof => y.p.eof,
         y.s.in = <<>> => u.s.in = <<>>,
         c /\ Complete(k, x, y) => Complete(k, x, u)
  PROVE  Endings(k, x, u, c)
  BY DEF Endings

-----------------------------------------------------------------------------
\* Bytes of the process go to the out buffer.
Accepted(w, n, t) ==
  /\ t \in Worlds /\ Len(t.s.out) = Len(w.s.out) + n /\ t.p.written = w.p.written + n
  /\ Oldest(t) = Oldest(w) /\ Run(t.s.out, Oldest(w))
       /\ t.s.use = w.s.use /\ t.s.notready = w.s.notready /\ t.s.dead = w.s.dead /\ t.s.closing = w.s.closing
       /\ t.s.peerclosing = w.s.peerclosing /\ t.s.readsleep = w.s.readsleep /\ t.s.writesleep = w.s.writesleep /\ t.s.req = w.s.req
       /\ t.s.retries = w.s.retries /\ t.s.in = w.s.in /\ t.s.sent = w.s.sent /\ t.s.data = w.s.data
       /\ t.s.my = w.s.my /\ t.s.peer = w.s.peer /\ t.s.left = w.s.left
       /\ t.p.state = w.p.state /\ t.p.log = w.p.log /\ t.p.eof = w.p.eof
       /\ t.n = w.n /\ t.room = w.room /\ t.route = w.route

LEMMA AcceptFields ==
  ASSUME NEW w \in Worlds, NEW n \in Nat, NEW t, t = Accept(w, n), Run(w.s.out, Oldest(w))
  PROVE  Accepted(w, n, t)
<1>1. w.s \in Streams /\ w.p \in Processes
  BY WorldFields
<1>2. w.s.out \in Seq(Nat) /\ w.p.written \in Nat /\ Len(w.s.out) \in Nat
  BY <1>1, StreamFields, ProcessFields
<1> DEFINE q == [i \in 1 .. n |-> w.p.written + i]
           a == Oldest(w)
           r == w.s.out \o q
           m == w.p.written + n
<1>3. q \in Seq(Nat) /\ Len(q) = n /\ Run(q, w.p.written + 1)
  BY <1>2, RunOfNew
<1>4. t = [w EXCEPT !.s.out = r, !.p.written = m]
  BY DEF Accept
<1> HIDE DEF q
<1>5. a \in Int /\ a + Len(w.s.out) = w.p.written + 1
  BY SMTT(40), <1>2 DEF Oldest
<1>6. Run(q, a + Len(w.s.out)) /\ Run(w.s.out, a)
  BY <1>3, <1>5
<1> HIDE DEF a
<1>7. w.s.out \o q \in Seq(Nat) /\ Len(w.s.out \o q) = Len(w.s.out) + Len(q) /\ Run(w.s.out \o q, a)
  BY <1>2, <1>3, <1>5, <1>6, RunsJoin
<1>8. r \in Seq(Nat) /\ Len(r) = Len(w.s.out) + n /\ Run(r, a)
  BY <1>3, <1>7
<1> HIDE DEF r
<1>9. m \in Nat /\ r \in Seq(Nat)
  BY <1>2, <1>8
<1> HIDE DEF m
<1>10. OutSet(w, r, m, t)
  BY <1>4, <1>9, IsOutSet
<1>11. Len(t.s.out) = Len(w.s.out) + n /\ Run(t.s.out, a)
  BY <1>8, <1>10 DEF OutSet
<1>12. t.p.written = w.p.written + n
  BY <1>10 DEF m, OutSet
<1>13. t.p.written - Len(t.s.out) + 1 = w.p.written - Len(w.s.out) + 1
  BY <1>2, <1>11, <1>12
<1>14. Oldest(t) = Oldest(w) /\ Run(t.s.out, Oldest(w))
  BY <1>11, <1>13 DEF a, Oldest
<1> QED BY <1>10, <1>11, <1>12, <1>14 DEF Accepted, OutSet


LEMMA AcceptHolds ==
  ASSUME NEW k, NEW l, NEW e \in Ends, NEW w, NEW y, NEW c, HoldsAt(k, l, e, w, y, c),
         NEW n \in Nat, n <= Room(w.s), w.p.written + n <= MaxBytes[e],
         ~w.s.notready, ~w.s.dead, ~w.s.closing, w.s.use,
         w.s.writesleep => w.s.peerclosing \/ w.p.written + n + w.s.left <= MaxBytes[e],
         NEW t, t = Accept(w, n)
  PROVE  HoldsAt(k, l, e, t, y, c)
<1>o. w.room = MaxPackets[Peer(e)] /\ (c => w.route) /\ k \in Firsts(e) /\ l \in Firsts(Peer(e))
  BY DEF HoldsAt
<1>a. /\ w \in Worlds /\ w.s \in Streams /\ w.p \in Processes /\ w.n \subseteq Packets
      /\ y \in Sides /\ y.s \in Streams /\ y.p \in Processes /\ y.n \subseteq Packets
      /\ c \in BOOLEAN
  BY DEF HoldsAt, Worlds, Sides
<1>b. /\ k \in Nat /\ l \in Nat /\ Len(Kept(w.s)) \in Nat /\ Len(Kept(y.s)) \in Nat
      /\ Wanted(k, y) \in Nat /\ Wanted(l, w) \in Nat /\ Arrival(w, y) \in Nat /\ Arrival(y, w) \in Nat
      /\ MaxBytes[e] \in Nat /\ MaxPackets[Peer(e)] \in Nat /\ BufferLen \in Nat /\ BufferLen >= 1
  BY Numbers
<1>c. Shape(e, w)
  BY DEF HoldsAt, GoodAt
<1>d. Manner(e, w)
  BY DEF HoldsAt, GoodAt
<1>e. Flow(k, e, w, y)
  BY DEF HoldsAt, GoodAt
<1>f. Fitting(k, e, w, y)
  BY DEF HoldsAt, GoodAt
<1>g. Endings(k, w, y, c)
  BY DEF HoldsAt, GoodAt
<1>h. Shape(Peer(e), y)
  BY DEF HoldsAt, GoodAt
<1>i. Manner(Peer(e), y)
  BY DEF HoldsAt, GoodAt
<1>j. Flow(l, Peer(e), y, w)
  BY DEF HoldsAt, GoodAt
<1>k. Fitting(l, Peer(e), y, w)
  BY DEF HoldsAt, GoodAt
<1>m. Endings(l, y, w, c)
  BY DEF HoldsAt, GoodAt
<1>n. Meeting(e, w, y, c)
  BY DEF HoldsAt, GoodAt
<1>1. /\ w.s.out \in Seq(Nat) /\ w.p.written \in Nat /\ Len(w.s.out) \in Nat
      /\ w.s.sent \in Nat
  BY <1>a, StreamFields, ProcessFields
<1>2. Accepted(w, n, t)
  <2>1. Run(w.s.out, Oldest(w))
    BY <1>c DEF Shape
  <2> QED BY <1>a, <2>1, AcceptFields
<1>3. t.p.written <= MaxBytes[e] /\ Len(t.s.out) <= BufferLen /\ t.s.sent <= Len(t.s.out)
      /\ t.p.written >= w.p.written /\ t.p.written \in Nat
  <2>1. Len(t.s.out) = Len(w.s.out) + n /\ t.p.written = w.p.written + n /\ t.s.sent = w.s.sent
        /\ w.s.sent <= Len(w.s.out) /\ n <= BufferLen - Len(w.s.out)
    BY <1>2, <1>c DEF Accepted, Shape, Room
  <2>2. ASSUME NEW a \in Nat, NEW b \in Nat, NEW d \in Nat, NEW f, n <= b - a, d <= a, f = a + n
        PROVE  f <= b /\ d <= f
    BY <2>2
  <2>6. Len(w.s.out) \in Nat /\ w.s.sent \in Nat /\ BufferLen \in Nat
    BY <1>1, <1>b
  <2>7. Len(t.s.out) <= BufferLen /\ w.s.sent <= Len(t.s.out)
    BY <2>6, <2>1, <2>2
  <2>5. Len(t.s.out) <= BufferLen /\ t.s.sent <= Len(t.s.out)
    BY <2>7, <2>1
  <2>3. t.p.written <= MaxBytes[e]
    BY <2>1
  <2>4. t.p.written >= w.p.written /\ t.p.written \in Nat
    BY <1>1, <2>1
  <2> QED BY <2>3, <2>4, <2>5
<1>4. Shape(e, t)
  BY <1>2, <1>3, <1>c DEF Shape, Accepted
<1>5. Manner(e, t)
  BY <1>2, <1>d DEF Manner, Accepted
<1>6. Onward(w, t) /\ Inward(w, t)
  BY <1>1, <1>2, <1>3 DEF Onward, Inward, Accepted
<1>7. Flow(k, e, t, y) /\ Flow(l, Peer(e), y, t)
  BY <1>6, FlowFrom, FlowTo, <1>e, <1>j
<1>8. Fitting(k, e, t, y) /\ Fitting(l, Peer(e), y, t)
  <2>1. t.n \subseteq w.n
    BY <1>2 DEF Accepted
  <2> QED BY <1>6, <2>1, FittingFrom, FittingTo, <1>a, <1>b, <1>f, <1>k
<1>9. Endings(k, t, y, c)
  <2>1. ~Complete(k, w, y)
    BY DEF Complete
  <2> QED BY ZenonT(60), <1>2, <2>1, EndingsFrom, <1>g DEF Accepted, HasReset
<1>10. Endings(l, y, t, c)
  <2>1. Complete(l, y, t) <=> Complete(l, y, w)
    BY <1>2, <1>6, InwardWanted DEF Complete, Accepted
  <2> QED BY ZenonT(60), <1>2, <2>1, EndingsTo, <1>m DEF Accepted, HasReset
<1>11. Meeting(e, t, y, c)
  BY <1>2, <1>n DEF Meeting, Handshake, HasReset, HasData, Accepted
<1>12. t \in Worlds /\ t.room = w.room /\ t.route = w.route
  BY <1>2 DEF Accepted
<1> QED
  BY <1>4, <1>5, <1>7, <1>8, <1>9, <1>10, <1>11, <1>12, <1>o, <1>a, <1>h, <1>i DEF HoldsAt, GoodAt

-----------------------------------------------------------------------------
(* The state of the process, its requests and sleeps change. *)

Quiet(w, t) ==
  /\ t \in Worlds /\ (~w.s.use => t.s = GivenBack(t.s))
  /\ t.s.use = w.s.use /\ t.s.notready = w.s.notready /\ t.s.dead = w.s.dead
  /\ t.s.closing = w.s.closing /\ t.s.peerclosing = w.s.peerclosing
  /\ t.s.in = w.s.in /\ t.s.out = w.s.out /\ t.s.sent = w.s.sent /\ t.s.data = w.s.data
  /\ t.s.my = w.s.my /\ t.s.peer = w.s.peer /\ t.s.retries <= MaxResend
  /\ t.p.written = w.p.written /\ t.p.log = w.p.log
  /\ t.n = w.n /\ t.room = w.room /\ t.route = w.route

LEMMA QuietHolds ==
  ASSUME NEW k, NEW l, NEW e \in Ends, NEW w, NEW y, NEW c, HoldsAt(k, l, e, w, y, c),
         NEW t, Quiet(w, t), Manner(e, t), Meeting(e, t, y, c),
         t.p.eof => w.p.eof \/ (c /\ w.s.use /\ ~w.s.closing => Complete(l, y, w) /\ w.s.in = <<>>)
  PROVE  HoldsAt(k, l, e, t, y, c)
<1>o. w.room = MaxPackets[Peer(e)] /\ (c => w.route) /\ k \in Firsts(e) /\ l \in Firsts(Peer(e))
  BY DEF HoldsAt
<1>a. /\ w \in Worlds /\ w.s \in Streams /\ w.p \in Processes /\ w.n \subseteq Packets
      /\ y \in Sides /\ y.s \in Streams /\ y.p \in Processes /\ y.n \subseteq Packets
      /\ c \in BOOLEAN
  BY DEF HoldsAt, Worlds, Sides
<1>b. /\ k \in Nat /\ l \in Nat /\ Len(Kept(w.s)) \in Nat /\ Len(Kept(y.s)) \in Nat
      /\ Wanted(k, y) \in Nat /\ Wanted(l, w) \in Nat /\ Arrival(w, y) \in Nat /\ Arrival(y, w) \in Nat
      /\ MaxBytes[e] \in Nat /\ MaxPackets[Peer(e)] \in Nat /\ BufferLen \in Nat /\ BufferLen >= 1
  BY Numbers
<1>c. Shape(e, w)
  BY DEF HoldsAt, GoodAt
<1>e. Flow(k, e, w, y)
  BY DEF HoldsAt, GoodAt
<1>f. Fitting(k, e, w, y)
  BY DEF HoldsAt, GoodAt
<1>g. Endings(k, w, y, c)
  BY DEF HoldsAt, GoodAt
<1>h. Shape(Peer(e), y)
  BY DEF HoldsAt, GoodAt
<1>i. Manner(Peer(e), y)
  BY DEF HoldsAt, GoodAt
<1>j. Flow(l, Peer(e), y, w)
  BY DEF HoldsAt, GoodAt
<1>k. Fitting(l, Peer(e), y, w)
  BY DEF HoldsAt, GoodAt
<1>m. Endings(l, y, w, c)
  BY DEF HoldsAt, GoodAt
<1>1. w.p.written \in Nat
  BY <1>a, ProcessFields
<1>2. Oldest(t) = Oldest(w)
  BY DEF Quiet, Oldest
<1>3. Shape(e, t)
  BY <1>c, <1>2 DEF Shape, Quiet
<1>4. Onward(w, t) /\ Inward(w, t)
  BY <1>1, <1>2 DEF Onward, Inward, Quiet
<1>5. Flow(k, e, t, y) /\ Flow(l, Peer(e), y, t)
  BY <1>4, FlowFrom, FlowTo, <1>e, <1>j
<1>6. Fitting(k, e, t, y) /\ Fitting(l, Peer(e), y, t)
  <2>1. t.n \subseteq w.n
    BY DEF Quiet
  <2> QED BY <1>4, <2>1, FittingFrom, FittingTo, <1>a, <1>b, <1>f, <1>k
<1>7. Endings(k, t, y, c)
  <2>1. Complete(k, w, y) <=> Complete(k, t, y)
    BY DEF Complete, Quiet
  <2> QED BY <2>1, EndingsFrom, <1>g DEF Quiet, HasReset
<1>8. Endings(l, y, t, c)
  <2>1. Complete(l, y, t) <=> Complete(l, y, w)
    BY <1>4, InwardWanted DEF Complete, Quiet
  <2>2. HasReset(t) <=> HasReset(w)
    BY DEF Quiet, HasReset
  <2> QED BY <2>1, <2>2, <1>m DEF Quiet, Endings
<1>9. t \in Worlds /\ t.room = w.room /\ t.route = w.route
  BY DEF Quiet
<1> QED
  BY <1>3, <1>5, <1>6, <1>7, <1>8, <1>9, <1>o, <1>a, <1>h, <1>i DEF HoldsAt, GoodAt

-----------------------------------------------------------------------------
(* The first bytes of the in buffer go to the process. *)

Consumed(l, w, n, t) ==
  /\ t \in Worlds /\ Run(t.p.log, l) /\ Run(t.s.in, l + Len(t.p.log))
  /\ Len(t.s.in) <= Len(w.s.in) /\ (w.s.in = <<>> => t.s.in = <<>> /\ t.p.log = w.p.log)
  /\ l + Len(t.p.log) + Len(t.s.in) = l + Len(w.p.log) + Len(w.s.in)
  /\ Len(t.s.in) = Len(w.s.in) - n /\ Len(t.s.in) \in Nat
       /\ t.s.use = w.s.use /\ t.s.notready = w.s.notready /\ t.s.dead = w.s.dead /\ t.s.closing = w.s.closing
       /\ t.s.peerclosing = w.s.peerclosing /\ t.s.readsleep = w.s.readsleep /\ t.s.writesleep = w.s.writesleep /\ t.s.req = w.s.req
       /\ t.s.retries = w.s.retries /\ t.s.out = w.s.out /\ t.s.sent = w.s.sent /\ t.s.data = w.s.data
       /\ t.s.my = w.s.my /\ t.s.peer = w.s.peer /\ t.s.left = w.s.left
       /\ t.p.state = w.p.state /\ t.p.written = w.p.written /\ t.p.eof = w.p.eof
       /\ t.n = w.n /\ t.room = w.room /\ t.route = w.route

LEMMA ConsumeFields ==
  ASSUME NEW w \in Worlds, NEW n \in Nat, n <= Len(w.s.in), NEW l \in Nat,
         Run(w.p.log, l), Run(w.s.in, l + Len(w.p.log)), NEW t, t = Consume(w, n)
  PROVE  Consumed(l, w, n, t)
<1>1. w.s \in Streams /\ w.p \in Processes
  BY WorldFields
<1>2. w.s.in \in Seq(Nat) /\ w.p.log \in Seq(Nat) /\ Len(w.s.in) \in Nat /\ Len(w.p.log) \in Nat
  BY <1>1, StreamFields, ProcessFields
<1> DEFINE a == SubSeq(w.s.in, 1, n)
           r == SubSeq(w.s.in, n + 1, Len(w.s.in))
           q == w.p.log \o a
           z == l + Len(w.p.log)
<1>3. t = [w EXCEPT !.p.log = q, !.s.in = r]
  BY DEF Consume
<1>4. z \in Int /\ z \in Nat
  BY <1>2
<1>5. Run(w.s.in, z)
  OBVIOUS
<1> HIDE DEF z
<1>6. /\ a \in Seq(Nat) /\ Len(a) = n /\ Run(a, z)
      /\ r \in Seq(Nat) /\ Len(r) = Len(w.s.in) - n /\ Run(r, z + n)
  BY <1>2, <1>4, <1>5, RunOfPart
<1>7. ASSUME w.s.in = <<>> PROVE r = <<>> /\ q = w.p.log
  <2>1. n = 0
    BY <1>2, <1>7
  <2>2. a = <<>> /\ r = <<>>
    <3>1. Len(a) = 0 /\ Len(r) = 0
      BY <1>2, <1>6, <1>7, <2>1
    <3>2. a \in Seq(Nat) /\ r \in Seq(Nat)
      BY <1>6
    <3> HIDE DEF a, r
    <3> QED BY <3>1, <3>2
  <2>3. w.p.log \o <<>> = w.p.log
    BY <1>2
  <2> QED BY <2>2, <2>3
<1> HIDE DEF a, r
<1>8. Run(a, l + Len(w.p.log)) /\ l \in Int
  BY <1>6 DEF z
<1>9. w.p.log \o a \in Seq(Nat) /\ Len(w.p.log \o a) = Len(w.p.log) + Len(a) /\ Run(w.p.log \o a, l)
  BY <1>2, <1>6, <1>8, RunsJoin
<1>10. q \in Seq(Nat) /\ Len(q) = Len(w.p.log) + n /\ Run(q, l)
  BY <1>6, <1>9
<1>11. w.s.in = <<>> => r = <<>> /\ q = w.p.log
  BY <1>7 DEF a, r
<1> HIDE DEF q
<1>12. InSet(w, q, r, t)
  <2>1. q \in Seq(Nat) /\ r \in Seq(Nat)
    BY <1>6, <1>10
  <2> QED BY <1>3, <2>1, IsInSet
<1>13. t.s.in = r /\ t.p.log = q
  BY <1>12 DEF InSet
<1>14. z + n = l + Len(q) /\ Len(r) <= Len(w.s.in) /\ l + Len(q) + Len(r) = l + Len(w.p.log) + Len(w.s.in)
       /\ Len(r) \in Nat
  <2>1. l \in Nat /\ Len(w.s.in) \in Nat /\ Len(w.p.log) \in Nat /\ n \in Nat /\ n <= Len(w.s.in)
    BY <1>2
  <2>2. Len(r) = Len(w.s.in) - n
    BY <1>6
  <2>3. Len(q) = Len(w.p.log) + n
    BY <1>10
  <2>4. Len(r) <= Len(w.s.in) /\ Len(r) \in Nat
    BY <2>1, <2>2
  <2>5. l + Len(w.p.log) + n = l + Len(q)
    BY <2>1, <2>3
  <2>6. l + Len(q) + Len(r) = l + Len(w.p.log) + Len(w.s.in)
    <3>1. l + (Len(w.p.log) + n) + (Len(w.s.in) - n) = l + Len(w.p.log) + Len(w.s.in)
      <4>1. ASSUME NEW a1 \in Nat, NEW b1 \in Nat, NEW n1 \in Nat
            PROVE  l + (a1 + n1) + (b1 - n1) = l + a1 + b1
        OBVIOUS
      <4> QED BY ZenonT(60), <2>1, <4>1
    <3> QED BY <2>2, <2>3, <3>1
  <2> QED BY <2>4, <2>5, <2>6 DEF z
<1>15. Run(r, l + Len(q))
  BY <1>6, <1>14
<1>16. /\ Run(t.p.log, l) /\ Run(t.s.in, l + Len(t.p.log)) /\ Len(t.s.in) <= Len(w.s.in)
       /\ l + Len(t.p.log) + Len(t.s.in) = l + Len(w.p.log) + Len(w.s.in)
       /\ (w.s.in = <<>> => t.s.in = <<>> /\ t.p.log = w.p.log)
       /\ Len(t.s.in) = Len(w.s.in) - n /\ Len(t.s.in) \in Nat
  BY <1>6, <1>10, <1>11, <1>13, <1>14, <1>15
<1> QED BY <1>12, <1>16 DEF Consumed, InSet

LEMMA ConsumeHolds ==
  ASSUME NEW k, NEW l, NEW e \in Ends, NEW w, NEW y, NEW c, HoldsAt(k, l, e, w, y, c),
         NEW n \in Nat, n <= Len(w.s.in), w.s.use, NEW t, t = Consume(w, n)
  PROVE  HoldsAt(k, l, e, t, y, c) /\ Consumed(l, w, n, t)
<1>o. w.room = MaxPackets[Peer(e)] /\ (c => w.route) /\ k \in Firsts(e) /\ l \in Firsts(Peer(e))
  BY DEF HoldsAt
<1>a. /\ w \in Worlds /\ w.s \in Streams /\ w.p \in Processes /\ w.n \subseteq Packets
      /\ y \in Sides /\ y.s \in Streams /\ y.p \in Processes /\ y.n \subseteq Packets
      /\ c \in BOOLEAN
  BY DEF HoldsAt, Worlds, Sides
<1>b. /\ k \in Nat /\ l \in Nat /\ Len(Kept(w.s)) \in Nat /\ Len(Kept(y.s)) \in Nat
      /\ Wanted(k, y) \in Nat /\ Wanted(l, w) \in Nat /\ Arrival(w, y) \in Nat /\ Arrival(y, w) \in Nat
      /\ MaxBytes[e] \in Nat /\ MaxPackets[Peer(e)] \in Nat /\ BufferLen \in Nat /\ BufferLen >= 1
  BY Numbers
<1>c. Shape(e, w)
  BY DEF HoldsAt, GoodAt
<1>d. Manner(e, w)
  BY DEF HoldsAt, GoodAt
<1>e. Flow(k, e, w, y)
  BY DEF HoldsAt, GoodAt
<1>f. Fitting(k, e, w, y)
  BY DEF HoldsAt, GoodAt
<1>g. Endings(k, w, y, c)
  BY DEF HoldsAt, GoodAt
<1>h. Shape(Peer(e), y)
  BY DEF HoldsAt, GoodAt
<1>i. Manner(Peer(e), y)
  BY DEF HoldsAt, GoodAt
<1>j. Flow(l, Peer(e), y, w)
  BY DEF HoldsAt, GoodAt
<1>k. Fitting(l, Peer(e), y, w)
  BY DEF HoldsAt, GoodAt
<1>m. Endings(l, y, w, c)
  BY DEF HoldsAt, GoodAt
<1>n. Meeting(e, w, y, c)
  BY DEF HoldsAt, GoodAt
<1>1. Len(w.s.in) \in Nat /\ Len(w.p.log) \in Nat /\ w.p.written \in Nat
  BY <1>a, StreamFields, ProcessFields
<1>2. Consumed(l, w, n, t)
  BY <1>a, <1>b, <1>j, ConsumeFields DEF Flow
<1>3. Oldest(t) = Oldest(w) /\ Kept(t.s) = Kept(w.s) /\ Arrival(y, t) = Arrival(y, w)
  BY <1>2 DEF Consumed, Oldest, Kept, Arrival
<1>4. Wanted(l, t) = Wanted(l, w)
  <2>1. l + Len(t.p.log) + Len(t.s.in) = l + Len(w.p.log) + Len(w.s.in)
    BY <1>2 DEF Consumed
  <2> QED BY <1>3, <2>1 DEF Wanted
<1>5. Shape(e, t)
  <2>1. Len(t.s.in) <= BufferLen
    <3>1. Len(w.s.in) <= BufferLen /\ Len(t.s.in) = Len(w.s.in) - n /\ BufferLen \in Nat
      BY <1>b, <1>c, <1>2 DEF Shape, Consumed
    <3> QED BY <1>1, <3>1
  <2> QED BY <1>2, <1>3, <1>c, <2>1 DEF Shape, Consumed
<1>6. Manner(e, t)
  BY <1>2, <1>d DEF Manner, Consumed
<1>7. Onward(w, t)
  BY <1>1, <1>2, <1>3 DEF Onward, Consumed
<1>8. Flow(k, e, t, y)
  BY <1>7, FlowFrom, <1>e
<1>9. Flow(l, Peer(e), y, t)
  <2>1. Run(Kept(t.s), l + Len(t.p.log) + Len(t.s.in))
    <3>1. Run(Kept(w.s), l + Len(w.p.log) + Len(w.s.in))
      BY <1>j DEF Flow
    <3> QED BY <1>2, <1>3, <3>1 DEF Consumed
  <2> QED BY <1>2, <1>3, <1>4, <2>1, <1>j DEF Flow, Consumed
<1>10. Fitting(k, e, t, y)
  <2>1. t.n \subseteq w.n
    BY <1>2 DEF Consumed
  <2> QED BY <1>7, <2>1, FittingFrom, <1>a, <1>b, <1>f
<1>11. Fitting(l, Peer(e), y, t)
  BY <1>2, <1>4, <1>k DEF Fitting, Fits, Consumed
<1>12. Endings(k, t, y, c)
  <2>1. Complete(k, w, y) <=> Complete(k, t, y)
    BY <1>2 DEF Complete, Consumed
  <2> QED BY <2>1, <1>2, EndingsFrom, <1>g DEF Consumed, HasReset
<1>13. Endings(l, y, t, c)
  <2>1. Complete(l, y, t) <=> Complete(l, y, w)
    BY <1>2, <1>4 DEF Complete, Consumed
  <2>2. HasReset(t) <=> HasReset(w)
    BY <1>2 DEF Consumed, HasReset
  <2> QED BY ZenonT(60), <2>1, <2>2, <1>2, EndingsTo, <1>m DEF Consumed
<1>14. Meeting(e, t, y, c)
  BY <1>2, <1>n DEF Meeting, Handshake, HasReset, HasData, Consumed
<1>15. t \in Worlds /\ t.room = w.room /\ t.route = w.route
  BY <1>2 DEF Consumed
<1> QED
  BY <1>2, <1>5, <1>6, <1>8, <1>9, <1>10, <1>11, <1>12, <1>13, <1>14, <1>15, <1>o, <1>a, <1>h, <1>i
  DEF HoldsAt, GoodAt

-----------------------------------------------------------------------------
(* The packet that waits moves to the in buffer. *)

LEMMA MoveDataHolds ==
  ASSUME NEW k, NEW l, NEW e \in Ends, NEW w, NEW y, NEW c, HoldsAt(k, l, e, w, y, c),
         MovesData(w.s), NEW t, t = MoveData(w)
  PROVE  HoldsAt(k, l, e, t, y, c) /\ \E q, r : DataMoved(w, q, r, t)
<1>o. w.room = MaxPackets[Peer(e)] /\ (c => w.route) /\ k \in Firsts(e) /\ l \in Firsts(Peer(e))
  BY DEF HoldsAt
<1>a. /\ w \in Worlds /\ w.s \in Streams /\ w.p \in Processes /\ w.n \subseteq Packets
      /\ y \in Sides /\ y.s \in Streams /\ y.p \in Processes /\ y.n \subseteq Packets
      /\ c \in BOOLEAN
  BY DEF HoldsAt, Worlds, Sides
<1>b. /\ k \in Nat /\ l \in Nat /\ Len(Kept(w.s)) \in Nat /\ Len(Kept(y.s)) \in Nat
      /\ Wanted(k, y) \in Nat /\ Wanted(l, w) \in Nat /\ Arrival(w, y) \in Nat /\ Arrival(y, w) \in Nat
      /\ MaxBytes[e] \in Nat /\ MaxPackets[Peer(e)] \in Nat /\ BufferLen \in Nat /\ BufferLen >= 1
  BY Numbers
<1>c. Shape(e, w)
  BY DEF HoldsAt, GoodAt
<1>d. Manner(e, w)
  BY DEF HoldsAt, GoodAt
<1>e. Flow(k, e, w, y)
  BY DEF HoldsAt, GoodAt
<1>f. Fitting(k, e, w, y)
  BY DEF HoldsAt, GoodAt
<1>g. Endings(k, w, y, c)
  BY DEF HoldsAt, GoodAt
<1>h. Shape(Peer(e), y)
  BY DEF HoldsAt, GoodAt
<1>i. Manner(Peer(e), y)
  BY DEF HoldsAt, GoodAt
<1>j. Flow(l, Peer(e), y, w)
  BY DEF HoldsAt, GoodAt
<1>k. Fitting(l, Peer(e), y, w)
  BY DEF HoldsAt, GoodAt
<1>m. Endings(l, y, w, c)
  BY DEF HoldsAt, GoodAt
<1>n. Meeting(e, w, y, c)
  BY DEF HoldsAt, GoodAt
<1>1. w.s.data # <<>> /\ w.s.in = <<>>
  BY DEF MovesData
<1>2. w.p.written \in Nat /\ w.s.data \in Seq(Seq(Nat)) /\ w.p.log \in Seq(Nat) /\ Len(w.p.log) \in Nat
  BY <1>a, StreamFields, ProcessFields
<1> DEFINE q == w.s.data[1]
           r == <<>>
<1>3. q \in Seq(Nat) /\ q = Kept(w.s) /\ r \in Seq(Seq(Nat)) /\ Len(q) \in Nat
  BY <1>a, <1>b, <1>1, KeptType DEF Kept
<1>4. t = [w EXCEPT !.s.in = q, !.s.data = r]
  BY DEF MoveData
<1>5. Len(q) \in 1 .. BufferLen /\ r = <<>>
  BY <1>c, <1>1 DEF Shape
<1> HIDE DEF q, r
<1>6. DataMoved(w, q, r, t)
  BY <1>3, <1>4, <1>a, IsDataMoved
<1>7. t.s.in = Kept(w.s) /\ t.s.data = <<>> /\ Kept(t.s) = <<>>
  BY <1>3, <1>5, <1>6 DEF DataMoved, Kept
<1>8. Oldest(t) = Oldest(w) /\ Arrival(y, t) = Arrival(y, w)
  BY <1>6 DEF DataMoved, Oldest, Arrival
<1>9. Wanted(l, t) = Wanted(l, w)
  <2>1. Len(w.s.in) = 0 /\ Len(Kept(t.s)) = 0 /\ Len(t.s.in) = Len(Kept(w.s)) /\ t.p.log = w.p.log
    BY <1>1, <1>6, <1>7 DEF DataMoved
  <2>2. l + Len(w.p.log) + Len(Kept(w.s)) + 0 = l + Len(w.p.log) + 0 + Len(Kept(w.s))
    BY SMTT(40), <1>b, <1>2
  <2> QED BY <2>1, <2>2 DEF Wanted
<1>10. Shape(e, t)
  <2>1. Len(t.s.in) <= BufferLen /\ Len(t.s.data) <= 1
    <3>1. Len(t.s.in) = Len(q) /\ Len(q) <= BufferLen /\ Len(t.s.data) = 0
      BY <1>b, <1>5, <1>6, <1>7 DEF DataMoved
    <3> QED BY <3>1
  <2>2. ~w.s.notready /\ w.s.use
    <3>1. ~w.s.use => w.s = GivenBack(w.s)
      BY <1>c DEF Shape
    <3>2. ~w.s.use => w.s.data = <<>>
      BY <1>a, <3>1, GivenFields
    <3> QED BY <1>1, <1>c, <3>2 DEF Shape
  <2> QED BY <1>6, <1>7, <1>8, <1>c, <2>1, <2>2 DEF Shape, DataMoved
<1>11. Manner(e, t)
  BY <1>6, <1>d DEF Manner, DataMoved
<1>12. Onward(w, t)
  BY <1>2, <1>6, <1>8 DEF Onward, DataMoved
<1>13. Flow(k, e, t, y)
  BY <1>12, FlowFrom, <1>e
<1>14. Flow(l, Peer(e), y, t)
  <2>1. w.s.use => Run(t.s.in, l + Len(t.p.log))
    <3>1. w.s.use => Run(Kept(w.s), l + Len(w.p.log) + Len(w.s.in))
      BY <1>j DEF Flow
    <3>2. l + Len(w.p.log) + Len(w.s.in) = l + Len(w.p.log)
      <4>1. Len(w.s.in) = 0
        BY <1>1
      <4> QED BY <1>b, <1>2, <4>1
    <3> QED BY <1>6, <1>7, <3>1, <3>2 DEF DataMoved
  <2>2. \A a : Run(Kept(t.s), a)
    BY <1>7, EmptyRun
  <2> QED BY <1>1, <1>6, <1>7, <1>8, <1>9, <2>1, <2>2, <1>j DEF Flow, DataMoved
<1>15. Fitting(k, e, t, y)
  <2>1. t.n \subseteq w.n
    BY <1>6 DEF DataMoved
  <2> QED BY <1>12, <2>1, FittingFrom, <1>a, <1>b, <1>f
<1>16. Fitting(l, Peer(e), y, t)
  BY <1>6, <1>9, <1>k DEF Fitting, Fits, DataMoved
<1>17. Endings(k, t, y, c)
  <2>1. Complete(k, w, y) <=> Complete(k, t, y)
    BY <1>6 DEF Complete, DataMoved
  <2> QED BY <2>1, <1>6, EndingsFrom, <1>g DEF DataMoved, HasReset
<1>18. Endings(l, y, t, c)
  <2>1. ~Complete(l, y, w)
    BY <1>1 DEF Complete
  <2>2. HasReset(t) <=> HasReset(w)
    BY <1>6 DEF DataMoved, HasReset
  <2> QED BY <2>1, <2>2, <1>6, <1>m DEF DataMoved, Endings
<1>19. Meeting(e, t, y, c)
  BY <1>6, <1>n DEF Meeting, Handshake, HasReset, HasData, DataMoved
<1>20. t \in Worlds /\ t.room = w.room /\ t.route = w.route
  BY <1>6 DEF DataMoved
<1> QED
  BY <1>6, <1>10, <1>11, <1>13, <1>14, <1>15, <1>16, <1>17, <1>18, <1>19, <1>20, <1>o, <1>a, <1>h, <1>i
  DEF HoldsAt, GoodAt

-----------------------------------------------------------------------------
(* The flags of a stream in use change. *)

Flagged(w, t) ==
  /\ t \in Worlds /\ w.s.use /\ t.s.use
  /\ w.s.closing => t.s.closing
  /\ w.s.peerclosing => t.s.peerclosing
  /\ w.s.dead => t.s.dead
  /\ t.s.notready => w.s.notready
  /\ t.s.readsleep = w.s.readsleep /\ t.s.writesleep = w.s.writesleep /\ t.s.req = w.s.req
  /\ t.s.retries = w.s.retries /\ t.s.left = w.s.left
  /\ t.s.in = w.s.in /\ t.s.out = w.s.out /\ t.s.sent = w.s.sent /\ t.s.data = w.s.data
  /\ t.s.my = w.s.my /\ t.s.peer = w.s.peer /\ t.p = w.p
  /\ t.n = w.n /\ t.room = w.room /\ t.route = w.route

LEMMA FlagsHold ==
  ASSUME NEW k, NEW l, NEW e \in Ends, NEW w, NEW y, NEW c, HoldsAt(k, l, e, w, y, c),
         NEW t, Flagged(w, t), Manner(e, t), Meeting(e, t, y, c),
         Endings(k, t, y, c), Endings(l, y, t, c),
         t.s.peerclosing => y.s.closing \/ ~y.s.use,
         e = "requester" /\ w.s.my = 1 => t.s.notready \/ t.s.dead
  PROVE  HoldsAt(k, l, e, t, y, c)
<1>o. w.room = MaxPackets[Peer(e)] /\ (c => w.route) /\ k \in Firsts(e) /\ l \in Firsts(Peer(e))
  BY DEF HoldsAt
<1>a. /\ w \in Worlds /\ w.s \in Streams /\ w.p \in Processes /\ w.n \subseteq Packets
      /\ y \in Sides /\ y.s \in Streams /\ y.p \in Processes /\ y.n \subseteq Packets
      /\ c \in BOOLEAN
  BY DEF HoldsAt, Worlds, Sides
<1>b. /\ k \in Nat /\ l \in Nat /\ Len(Kept(w.s)) \in Nat /\ Len(Kept(y.s)) \in Nat
      /\ Wanted(k, y) \in Nat /\ Wanted(l, w) \in Nat /\ Arrival(w, y) \in Nat /\ Arrival(y, w) \in Nat
      /\ MaxBytes[e] \in Nat /\ MaxPackets[Peer(e)] \in Nat /\ BufferLen \in Nat /\ BufferLen >= 1
  BY Numbers
<1>c. Shape(e, w)
  BY DEF HoldsAt, GoodAt
<1>e. Flow(k, e, w, y)
  BY DEF HoldsAt, GoodAt
<1>f. Fitting(k, e, w, y)
  BY DEF HoldsAt, GoodAt
<1>h. Shape(Peer(e), y)
  BY DEF HoldsAt, GoodAt
<1>i. Manner(Peer(e), y)
  BY DEF HoldsAt, GoodAt
<1>j. Flow(l, Peer(e), y, w)
  BY DEF HoldsAt, GoodAt
<1>k. Fitting(l, Peer(e), y, w)
  BY DEF HoldsAt, GoodAt
<1>1. w.p.written \in Nat
  BY <1>a, ProcessFields
<1>2. Oldest(t) = Oldest(w)
  BY DEF Flagged, Oldest
<1>3. Shape(e, t)
  BY <1>c, <1>2 DEF Shape, Flagged
<1>4. Onward(w, t)
  BY <1>1, <1>2 DEF Onward, Flagged
<1>5. Flow(k, e, t, y)
  BY <1>4, FlowFrom, <1>e
<1>6. Wanted(l, t) = Wanted(l, w) /\ Kept(t.s) = Kept(w.s) /\ Arrival(y, t) = Arrival(y, w)
  BY DEF Wanted, Kept, Arrival, Flagged
<1>7. Flow(l, Peer(e), y, t)
  BY <1>6, <1>j DEF Flow, Flagged
<1>8. Fitting(k, e, t, y)
  <2>1. t.n \subseteq w.n
    BY DEF Flagged
  <2> QED BY <1>4, <2>1, FittingFrom, <1>a, <1>b, <1>f
<1>9. Fitting(l, Peer(e), y, t)
  BY <1>6, <1>k DEF Fitting, Fits, Flagged
<1>10. t \in Worlds /\ t.room = w.room /\ t.route = w.route
  BY DEF Flagged
<1> QED
  BY <1>3, <1>5, <1>7, <1>8, <1>9, <1>10, <1>o, <1>a, <1>h, <1>i DEF HoldsAt, GoodAt

LEMMA DeadHolds ==
  ASSUME NEW k, NEW l, NEW e \in Ends, NEW w, NEW y, NEW c, HoldsAt(k, l, e, w, y, c), w.s.use,
         c /\ ~w.s.closing => Complete(l, y, w), c /\ w.s.closing => y.s.closing \/ ~y.s.use,
         NEW t, t = [w EXCEPT !.s.dead = TRUE]
  PROVE  HoldsAt(k, l, e, t, y, c) /\ DeadSet(w, TRUE, t)
<1>a. /\ w \in Worlds /\ w.s \in Streams /\ w.p \in Processes /\ w.n \subseteq Packets
      /\ y \in Sides /\ y.s \in Streams /\ y.p \in Processes /\ y.n \subseteq Packets
      /\ c \in BOOLEAN
  BY DEF HoldsAt, Worlds, Sides
<1>d. Manner(e, w)
  BY DEF HoldsAt, GoodAt
<1>g. Endings(k, w, y, c)
  BY DEF HoldsAt, GoodAt
<1>j. Flow(l, Peer(e), y, w)
  BY DEF HoldsAt, GoodAt
<1>m. Endings(l, y, w, c)
  BY DEF HoldsAt, GoodAt
<1>n. Meeting(e, w, y, c)
  BY DEF HoldsAt, GoodAt
<1>1. DeadSet(w, TRUE, t)
  BY <1>a, IsDeadSet
<1>2. t.p = w.p
  BY <1>a DEF Worlds
<1>3. Flagged(w, t)
  BY <1>1, <1>2 DEF Flagged, DeadSet
<1>4. Manner(e, t)
  BY <1>1, <1>d DEF Manner, DeadSet
<1>5. Meeting(e, t, y, c)
  BY <1>1, <1>n DEF Meeting, Handshake, HasReset, HasData, DeadSet
<1>6. Endings(k, t, y, c)
  <2>1. Complete(k, w, y) <=> Complete(k, t, y)
    BY <1>1 DEF Complete, DeadSet
  <2> QED BY <2>1, <1>1, <1>g DEF Endings, DeadSet, HasReset
<1>7. Endings(l, y, t, c)
  <2>1. Complete(l, y, t) <=> Complete(l, y, w)
    BY <1>1 DEF Complete, DeadSet, Wanted, Kept
  <2>2. HasReset(t) <=> HasReset(w)
    BY <1>1 DEF DeadSet, HasReset
  <2> QED BY <2>1, <2>2, <1>1, <1>m DEF Endings, DeadSet
<1>8. t.s.peerclosing => y.s.closing \/ ~y.s.use
  BY <1>1, <1>j DEF DeadSet, Flow
<1> QED BY <1>1, <1>3, <1>4, <1>5, <1>6, <1>7, <1>8, FlagsHold DEF DeadSet

LEMMA ClosingHolds ==
  ASSUME NEW k, NEW l, NEW e \in Ends, NEW w, NEW y, NEW c, HoldsAt(k, l, e, w, y, c), w.s.use,
         ~w.s.dead, w.s.writesleep => w.s.req = "stale",
         NEW t, t = [w EXCEPT !.s.closing = TRUE]
  PROVE  HoldsAt(k, l, e, t, y, c) /\ ClosingSet(w, TRUE, t)
<1>a. /\ w \in Worlds /\ w.s \in Streams /\ w.p \in Processes /\ w.n \subseteq Packets
      /\ y \in Sides /\ y.s \in Streams /\ y.p \in Processes /\ y.n \subseteq Packets
      /\ c \in BOOLEAN
  BY DEF HoldsAt, Worlds, Sides
<1>c. Shape(e, w)
  BY DEF HoldsAt, GoodAt
<1>d. Manner(e, w)
  BY DEF HoldsAt, GoodAt
<1>g. Endings(k, w, y, c)
  BY DEF HoldsAt, GoodAt
<1>j. Flow(l, Peer(e), y, w)
  BY DEF HoldsAt, GoodAt
<1>m. Endings(l, y, w, c)
  BY DEF HoldsAt, GoodAt
<1>n. Meeting(e, w, y, c)
  BY DEF HoldsAt, GoodAt
<1>1. ClosingSet(w, TRUE, t)
  BY <1>a, IsClosingSet
<1>2. t.p = w.p
  BY <1>a DEF Worlds
<1>3. Flagged(w, t)
  BY <1>1, <1>2 DEF Flagged, ClosingSet
<1>4. Manner(e, t)
  BY <1>1, <1>d DEF Manner, ClosingSet
<1>5. Meeting(e, t, y, c)
  BY <1>1, <1>n DEF Meeting, Handshake, HasReset, HasData, ClosingSet
<1>6. Endings(k, t, y, c)
  <2>1. Complete(k, w, y) => Complete(k, t, y)
    BY <1>1 DEF Complete, ClosingSet
  <2>2. c /\ y.s.use /\ ~y.s.closing /\ HasReset(y) => w.s.closing
    BY <1>m DEF Endings, Complete
  <2> QED BY <2>1, <2>2, <1>1, <1>g DEF Endings, ClosingSet, HasReset
<1>7. Endings(l, y, t, c)
  BY <1>1, <1>m DEF Endings, ClosingSet
<1>8. t.s.peerclosing => y.s.closing \/ ~y.s.use
  BY <1>1, <1>j DEF ClosingSet, Flow
<1>9. e = "requester" /\ w.s.my = 1 => t.s.notready \/ t.s.dead
  BY <1>1, <1>c DEF ClosingSet, Shape
<1> QED BY <1>1, <1>3, <1>4, <1>5, <1>6, <1>7, <1>8, <1>9, FlagsHold

LEMMA PeerclosingHolds ==
  ASSUME NEW k, NEW l, NEW e \in Ends, NEW w, NEW y, NEW c, HoldsAt(k, l, e, w, y, c), w.s.use,
         y.s.closing \/ ~y.s.use,
         NEW t, t = [w EXCEPT !.s.peerclosing = TRUE]
  PROVE  HoldsAt(k, l, e, t, y, c) /\ PeerclosingSet(w, TRUE, t)
<1>a. /\ w \in Worlds /\ w.s \in Streams /\ w.p \in Processes /\ w.n \subseteq Packets
      /\ y \in Sides /\ y.s \in Streams /\ y.p \in Processes /\ y.n \subseteq Packets
      /\ c \in BOOLEAN
  BY DEF HoldsAt, Worlds, Sides
<1>c. Shape(e, w)
  BY DEF HoldsAt, GoodAt
<1>d. Manner(e, w)
  BY DEF HoldsAt, GoodAt
<1>g. Endings(k, w, y, c)
  BY DEF HoldsAt, GoodAt
<1>m. Endings(l, y, w, c)
  BY DEF HoldsAt, GoodAt
<1>n. Meeting(e, w, y, c)
  BY DEF HoldsAt, GoodAt
<1>1. PeerclosingSet(w, TRUE, t)
  BY <1>a, IsPeerclosingSet
<1>2. t.p = w.p
  BY <1>a DEF Worlds
<1>3. Flagged(w, t)
  BY <1>1, <1>2 DEF Flagged, PeerclosingSet
<1>4. Manner(e, t)
  BY <1>1, <1>d DEF Manner, PeerclosingSet
<1>5. Meeting(e, t, y, c)
  BY <1>1, <1>n DEF Meeting, Handshake, HasReset, HasData, PeerclosingSet
<1>6. Endings(k, t, y, c)
  <2>1. Complete(k, w, y) <=> Complete(k, t, y)
    BY <1>1 DEF Complete, PeerclosingSet
  <2> QED BY <2>1, <1>1, <1>g DEF Endings, PeerclosingSet, HasReset
<1>7. Endings(l, y, t, c)
  <2>1. Complete(l, y, t) <=> Complete(l, y, w)
    BY <1>1 DEF Complete, PeerclosingSet, Wanted, Kept
  <2>2. HasReset(t) <=> HasReset(w)
    BY <1>1 DEF PeerclosingSet, HasReset
  <2> QED BY <2>1, <2>2, <1>1, <1>m DEF Endings, PeerclosingSet
<1>9. e = "requester" /\ w.s.my = 1 => t.s.notready \/ t.s.dead
  BY <1>1, <1>c DEF PeerclosingSet, Shape
<1> QED BY <1>1, <1>3, <1>4, <1>5, <1>6, <1>7, <1>9, FlagsHold

LEMMA ReadyHolds ==
  ASSUME NEW k, NEW l, NEW e \in Ends, NEW w, NEW y, NEW c, HoldsAt(k, l, e, w, y, c), w.s.use,
         w.s.req = "none" \/ w.s.dead, e = "requester" /\ w.s.my = 1 => w.s.dead,
         NEW t, t = [w EXCEPT !.s.notready = FALSE], Meeting(e, t, y, c)
  PROVE  HoldsAt(k, l, e, t, y, c) /\ NotreadySet(w, FALSE, t)
<1>a. /\ w \in Worlds /\ w.s \in Streams /\ w.p \in Processes /\ w.n \subseteq Packets
      /\ y \in Sides /\ y.s \in Streams /\ y.p \in Processes /\ y.n \subseteq Packets
      /\ c \in BOOLEAN
  BY DEF HoldsAt, Worlds, Sides
<1>d. Manner(e, w)
  BY DEF HoldsAt, GoodAt
<1>g. Endings(k, w, y, c)
  BY DEF HoldsAt, GoodAt
<1>j. Flow(l, Peer(e), y, w)
  BY DEF HoldsAt, GoodAt
<1>m. Endings(l, y, w, c)
  BY DEF HoldsAt, GoodAt
<1>1. NotreadySet(w, FALSE, t)
  BY <1>a, IsNotreadySet
<1>2. t.p = w.p
  BY <1>a DEF Worlds
<1>3. Flagged(w, t)
  BY <1>1, <1>2 DEF Flagged, NotreadySet
<1>4. Manner(e, t)
  BY <1>1, <1>d DEF Manner, NotreadySet
<1>6. Endings(k, t, y, c)
  <2>1. Complete(k, w, y) <=> Complete(k, t, y)
    BY <1>1 DEF Complete, NotreadySet
  <2> QED BY <2>1, <1>1, <1>g DEF Endings, NotreadySet, HasReset
<1>7. Endings(l, y, t, c)
  <2>1. Complete(l, y, t) <=> Complete(l, y, w)
    BY <1>1 DEF Complete, NotreadySet, Wanted, Kept
  <2>2. HasReset(t) <=> HasReset(w)
    BY <1>1 DEF NotreadySet, HasReset
  <2> QED BY <2>1, <2>2, <1>1, <1>m DEF Endings, NotreadySet
<1>8. t.s.peerclosing => y.s.closing \/ ~y.s.use
  BY <1>1, <1>j DEF NotreadySet, Flow
<1> QED BY <1>1, <1>3, <1>4, <1>6, <1>7, <1>8, FlagsHold DEF NotreadySet

-----------------------------------------------------------------------------
(* A packet is sent. *)

PutIn(w, pkt, t) ==
  /\ t \in Worlds /\ t.s = w.s /\ t.p = w.p /\ t.room = w.room /\ t.route = w.route
  /\ t.n = w.n \/ (t.n = w.n \cup {pkt} /\ Cardinality(w.n) < w.room)

LEMMA PutFields ==
  ASSUME NEW w \in Worlds, NEW pkt \in Packets, NEW t, t = Put(w, pkt)
  PROVE  PutIn(w, pkt, t)
<1>1. CASE w.route /\ Cardinality(w.n) < w.room
  <2> DEFINE q == w.n \cup {pkt}
  <2>1. q \subseteq Packets
    BY DEF Worlds
  <2>2. t = [w EXCEPT !.n = q]
    BY <1>1 DEF Put
  <2>3. t \in Worlds /\ t.s = w.s /\ t.p = w.p /\ t.room = w.room /\ t.route = w.route /\ t.n = q
    <3> HIDE DEF q
    <3> QED BY <2>1, <2>2 DEF Worlds
  <2> QED BY <1>1, <2>3 DEF PutIn
<1>2. CASE ~(w.route /\ Cardinality(w.n) < w.room)
  BY <1>2 DEF Put, PutIn
<1> QED BY <1>1, <1>2

LEMMA PutHolds ==
  ASSUME NEW k, NEW l, NEW e \in Ends, NEW w, NEW y, NEW c, HoldsAt(k, l, e, w, y, c),
         NEW pkt \in Packets, pkt.kind = "data" => Fits(k, e, pkt, w, y),
         NEW t, t = Put(w, pkt),
         t.n = w.n \cup {pkt} => Endings(k, t, y, c) /\ Endings(l, y, t, c) /\ Meeting(e, t, y, c)
  PROVE  HoldsAt(k, l, e, t, y, c) /\ PutIn(w, pkt, t)
<1>o. w.room = MaxPackets[Peer(e)] /\ (c => w.route) /\ k \in Firsts(e) /\ l \in Firsts(Peer(e))
  BY DEF HoldsAt
<1>a. /\ w \in Worlds /\ w.s \in Streams /\ w.p \in Processes /\ w.n \subseteq Packets
      /\ y \in Sides /\ y.s \in Streams /\ y.p \in Processes /\ y.n \subseteq Packets
      /\ c \in BOOLEAN
  BY DEF HoldsAt, Worlds, Sides
<1>b. /\ k \in Nat /\ l \in Nat /\ Len(Kept(w.s)) \in Nat /\ Len(Kept(y.s)) \in Nat
      /\ Wanted(k, y) \in Nat /\ Wanted(l, w) \in Nat /\ Arrival(w, y) \in Nat /\ Arrival(y, w) \in Nat
      /\ MaxBytes[e] \in Nat /\ MaxPackets[Peer(e)] \in Nat /\ BufferLen \in Nat /\ BufferLen >= 1
  BY Numbers
<1>c. Shape(e, w)
  BY DEF HoldsAt, GoodAt
<1>d. Manner(e, w)
  BY DEF HoldsAt, GoodAt
<1>e. Flow(k, e, w, y)
  BY DEF HoldsAt, GoodAt
<1>f. Fitting(k, e, w, y)
  BY DEF HoldsAt, GoodAt
<1>h. Shape(Peer(e), y)
  BY DEF HoldsAt, GoodAt
<1>i. Manner(Peer(e), y)
  BY DEF HoldsAt, GoodAt
<1>j. Flow(l, Peer(e), y, w)
  BY DEF HoldsAt, GoodAt
<1>k. Fitting(l, Peer(e), y, w)
  BY DEF HoldsAt, GoodAt
<1>1. PutIn(w, pkt, t)
  BY <1>a, PutFields
<1>2. CASE t.n = w.n
  BY <1>1, <1>2, GoodSame DEF PutIn, HoldsAt
<1>3. CASE t.n = w.n \cup {pkt} /\ Cardinality(w.n) < w.room
  <2>1. Shape(e, t)
    <3>1. IsFiniteSet(w.n)
      BY <1>c DEF Shape
    <3>2. IsFiniteSet(t.n) /\ Cardinality(t.n) <= Cardinality(w.n) + 1 /\ Cardinality(w.n) \in Nat
          /\ Cardinality(t.n) \in Nat
      <4>1. Cardinality(w.n) \in Nat
        BY <3>1, FS_CardinalityType
      <4>2. IsFiniteSet(w.n \cup {pkt})
            /\ Cardinality(w.n \cup {pkt}) = IF pkt \in w.n THEN Cardinality(w.n) ELSE Cardinality(w.n) + 1
        BY <3>1, FS_AddElement
      <4>3. IsFiniteSet(t.n)
            /\ (Cardinality(t.n) = Cardinality(w.n) \/ Cardinality(t.n) = Cardinality(w.n) + 1)
        BY <1>3, <4>2
      <4> QED BY <4>1, <4>3
    <3>3. Cardinality(t.n) <= MaxPackets[Peer(e)]
      BY <1>3, <1>b, <1>o, <3>2
    <3>4. Oldest(t) = Oldest(w)
      BY <1>1 DEF Oldest, PutIn
    <3> QED BY <1>1, <1>c, <3>2, <3>3, <3>4 DEF Shape, PutIn
  <2>2. Manner(e, t)
    BY <1>1, <1>d DEF Manner, PutIn
  <2>3. Flow(k, e, t, y) /\ Flow(l, Peer(e), y, t)
    BY <1>1, <1>e, <1>j DEF Flow, Wanted, Arrival, Oldest, PutIn
  <2>4. Fitting(k, e, t, y)
    <3> SUFFICES ASSUME NEW d \in t.n, d.kind = "data" PROVE Fits(k, e, d, t, y)
      BY DEF Fitting
    <3>1. Fits(k, e, d, w, y)
      BY <1>3, <1>f DEF Fitting
    <3> QED BY <1>1, <3>1 DEF Fits, PutIn
  <2>5. Fitting(l, Peer(e), y, t)
    BY <1>1, <1>k DEF Fitting, Fits, Wanted, PutIn
  <2>6. t \in Worlds /\ t.room = w.room /\ t.route = w.route
    BY <1>1 DEF PutIn
  <2> QED BY <1>1, <1>3, <2>1, <2>2, <2>3, <2>4, <2>5, <2>6, <1>o, <1>a, <1>h, <1>i DEF HoldsAt, GoodAt
<1> QED BY <1>1, <1>2, <1>3 DEF PutIn

LEMMA NoteType ==
  ASSUME NEW kind \in {"resp", "ack_ack", "reset"}
  PROVE  Note(kind) \in Packets /\ Note(kind).kind = kind
  BY DEF Note, Packets

LEMMA AnswerHolds ==
  ASSUME NEW k, NEW l, NEW e \in Ends, NEW w, NEW y, NEW c, HoldsAt(k, l, e, w, y, c),
         NEW t, \/ e = "acceptor" /\ t = Put(w, Note("resp"))
                \/ e = "requester" /\ t = Put(w, Note("ack_ack")) /\ w.s.req # "sent"
  PROVE  HoldsAt(k, l, e, t, y, c)
         /\ \E pkt : PutIn(w, pkt, t) /\ pkt.kind \in {"resp", "ack_ack"}
<1>a. /\ w \in Worlds /\ w.s \in Streams /\ w.p \in Processes /\ w.n \subseteq Packets
      /\ y \in Sides /\ y.s \in Streams /\ y.p \in Processes /\ y.n \subseteq Packets
      /\ c \in BOOLEAN
  BY DEF HoldsAt, Worlds, Sides
<1>g. Endings(k, w, y, c)
  BY DEF HoldsAt, GoodAt
<1>m. Endings(l, y, w, c)
  BY DEF HoldsAt, GoodAt
<1>n. Meeting(e, w, y, c)
  BY DEF HoldsAt, GoodAt
<1>1. PICK pkt \in Packets : /\ t = Put(w, pkt)
                             /\ \/ e = "acceptor" /\ pkt.kind = "resp"
                                \/ e = "requester" /\ pkt.kind = "ack_ack" /\ w.s.req # "sent"
  BY NoteType
<1>2. PutIn(w, pkt, t)
  BY <1>1, <1>a, PutFields
<1>3. (HasReset(t) <=> HasReset(w)) /\ (HasData(t) <=> HasData(w))
  <2>1. \A d \in t.n : d \in w.n \/ d = pkt
    BY <1>2 DEF PutIn
  <2>2. \A d \in w.n : d \in t.n
    BY <1>2 DEF PutIn
  <2> QED BY <1>1, <2>1, <2>2 DEF HasReset, HasData
<1>4. Endings(k, t, y, c) /\ Endings(l, y, t, c)
  BY <1>2, <1>3, <1>g, <1>m DEF Endings, Complete, Wanted, PutIn
<1>5. Meeting(e, t, y, c)
  <2>1. \A d \in t.n : d \in w.n \/ d = pkt
    BY <1>2 DEF PutIn
  <2> QED BY <1>1, <1>2, <1>3, <1>n, <2>1 DEF Meeting, Handshake, PutIn
<1>6. HoldsAt(k, l, e, t, y, c)
  <2>1. pkt.kind # "data"
    BY <1>1
  <2> QED BY <1>1, <1>4, <1>5, <2>1, PutHolds
<1> QED BY <1>1, <1>2, <1>6

LEMMA ResetHolds ==
  ASSUME NEW k, NEW l, NEW e \in Ends, NEW w, NEW y, NEW c, HoldsAt(k, l, e, w, y, c),
         c /\ y.s.use /\ ~y.s.closing => Complete(k, w, y),
         c /\ w.s.use /\ ~w.s.closing /\ y.s.closing => Complete(l, y, w),
         e = "requester" /\ w.s.use /\ w.s.req = "sent" => y.s.closing \/ ~y.s.use,
         e = "acceptor" /\ y.s.use => y.s.req # "sent",
         e = "acceptor" /\ c /\ w.s.use /\ w.s.req = "sent" /\ ~w.s.closing /\ ~w.s.dead /\ y.s.use
           => y.s.closing,
         NEW t, t = Reset(w)
  PROVE  HoldsAt(k, l, e, t, y, c) /\ PutIn(w, Note("reset"), t)
<1>a. /\ w \in Worlds /\ w.s \in Streams /\ w.p \in Processes /\ w.n \subseteq Packets
      /\ y \in Sides /\ y.s \in Streams /\ y.p \in Processes /\ y.n \subseteq Packets
      /\ c \in BOOLEAN
  BY DEF HoldsAt, Worlds, Sides
<1>g. Endings(k, w, y, c)
  BY DEF HoldsAt, GoodAt
<1>m. Endings(l, y, w, c)
  BY DEF HoldsAt, GoodAt
<1>n. Meeting(e, w, y, c)
  BY DEF HoldsAt, GoodAt
<1> DEFINE pkt == Note("reset")
<1>1. pkt \in Packets /\ pkt.kind = "reset" /\ t = Put(w, pkt)
  BY NoteType DEF Reset
<1> HIDE DEF pkt
<1>2. PutIn(w, pkt, t)
  BY <1>1, <1>a, PutFields
<1>3. HasData(t) <=> HasData(w)
  <2>1. \A d \in t.n : d \in w.n \/ d = pkt
    BY <1>2 DEF PutIn
  <2>2. \A d \in w.n : d \in t.n
    BY <1>2 DEF PutIn
  <2> QED BY <1>1, <2>1, <2>2 DEF HasData
<1>4. Endings(k, t, y, c)
  BY <1>2, <1>g DEF Endings, Complete, Wanted, PutIn
<1>5. Endings(l, y, t, c)
  BY <1>2, <1>m DEF Endings, Complete, Wanted, PutIn
<1>6. Meeting(e, t, y, c)
  <2>1. \A d \in t.n : d \in w.n \/ d = pkt
    BY <1>2 DEF PutIn
  <2>2. CASE e = "requester"
    BY <1>1, <1>2, <1>3, <1>n, <2>1, <2>2 DEF Meeting, Handshake, PutIn
  <2>3. CASE e = "acceptor"
    BY <1>1, <1>2, <1>3, <1>n, <2>1, <2>3 DEF Meeting, Handshake, PutIn
  <2> QED BY <2>2, <2>3 DEF Ends
<1>7. HoldsAt(k, l, e, t, y, c)
  <2>1. pkt.kind # "data"
    BY <1>1
  <2> QED BY <1>1, <1>4, <1>5, <1>6, <2>1, PutHolds
<1> QED BY <1>2, <1>7 DEF pkt

-----------------------------------------------------------------------------
(* ripc_stream_send_data *)

\* The bytes of the out buffer that are sent for the first time are marked.
\* If they are the first ones of an acceptor to whose requester nothing has
\* come, the requester's first byte will be one that follows them.
LEMMA MarkHolds ==
  ASSUME NEW k, NEW l, NEW e \in Ends, NEW w, NEW y, NEW c, HoldsAt(k, l, e, w, y, c), w.s.use,
         DataToSend(w.s), w.s.sent = 0, NEW t, t = [w EXCEPT !.s.sent = Len(w.s.out)]
  PROVE  SentSet(w, Len(w.s.out), t) /\ \E k1 \in Firsts(e) : HoldsAt(k1, l, e, t, y, c)
<1>o. w.room = MaxPackets[Peer(e)] /\ (c => w.route) /\ k \in Firsts(e) /\ l \in Firsts(Peer(e))
  BY DEF HoldsAt
<1>a. /\ w \in Worlds /\ w.s \in Streams /\ w.p \in Processes /\ w.n \subseteq Packets
      /\ y \in Sides /\ y.s \in Streams /\ y.p \in Processes /\ y.n \subseteq Packets
      /\ c \in BOOLEAN
  BY DEF HoldsAt, Worlds, Sides
<1>b. /\ k \in Nat /\ l \in Nat /\ Len(Kept(w.s)) \in Nat /\ Len(Kept(y.s)) \in Nat
      /\ Wanted(k, y) \in Nat /\ Wanted(l, w) \in Nat /\ Arrival(w, y) \in Nat /\ Arrival(y, w) \in Nat
      /\ MaxBytes[e] \in Nat /\ MaxPackets[Peer(e)] \in Nat /\ BufferLen \in Nat /\ BufferLen >= 1
  BY Numbers
<1>c. Shape(e, w)
  BY DEF HoldsAt, GoodAt
<1>d. Manner(e, w)
  BY DEF HoldsAt, GoodAt
<1>e. Flow(k, e, w, y)
  BY DEF HoldsAt, GoodAt
<1>f. Fitting(k, e, w, y)
  BY DEF HoldsAt, GoodAt
<1>g. Endings(k, w, y, c)
  BY DEF HoldsAt, GoodAt
<1>h. Shape(Peer(e), y)
  BY DEF HoldsAt, GoodAt
<1>i. Manner(Peer(e), y)
  BY DEF HoldsAt, GoodAt
<1>j. Flow(l, Peer(e), y, w)
  BY DEF HoldsAt, GoodAt
<1>k. Fitting(l, Peer(e), y, w)
  BY DEF HoldsAt, GoodAt
<1>m. Endings(l, y, w, c)
  BY DEF HoldsAt, GoodAt
<1>n. Meeting(e, w, y, c)
  BY DEF HoldsAt, GoodAt
<1>1. /\ w.s.out \in Seq(Nat) /\ Len(w.s.out) \in Nat /\ w.p.written \in Nat /\ w.s.my \in Nat /\ y.s.peer \in Nat
      /\ w.s.out # <<>> /\ ~w.s.peerclosing
  BY <1>a, StreamFields, ProcessFields DEF DataToSend
<1>2. SentSet(w, Len(w.s.out), t)
  BY <1>1, <1>a, IsSentSet
<1>3. Len(w.s.out) > 0
  BY <1>1
<1>4. Oldest(t) = Oldest(w) /\ ~w.s.notready
  BY <1>2, <1>1, <1>c DEF Oldest, SentSet, Shape
<1>5. Shape(e, t)
  <2>1. t.s.sent <= Len(t.s.out)
    BY <1>1, <1>2 DEF SentSet
  <2> QED BY <1>2, <1>4, <1>c, <2>1 DEF Shape, SentSet
<1>6. Manner(e, t)
  BY <1>2, <1>d DEF Manner, SentSet
<1>7. Inward(w, t)
  BY <1>2 DEF Inward, SentSet
<1>8. Flow(l, Peer(e), y, t)
  BY <1>7, FlowTo, <1>j
<1>9. Fitting(l, Peer(e), y, t)
  BY <1>7, FittingTo, <1>k
<1>10. Endings(l, y, t, c)
  <2>1. Complete(l, y, t) <=> Complete(l, y, w)
    BY <1>2, <1>7, InwardWanted DEF Complete, SentSet
  <2>2. HasReset(t) <=> HasReset(w)
    BY <1>2 DEF SentSet, HasReset
  <2> QED BY <2>1, <2>2, <1>2, <1>m DEF SentSet, Endings
<1>11. Meeting(e, t, y, c)
  BY <1>2, <1>n DEF Meeting, Handshake, HasReset, HasData, SentSet
<1>12. t \in Worlds /\ t.room = w.room /\ t.route = w.route
  BY <1>2 DEF SentSet
<1>13. \A d \in w.n : d.kind = "data" => ~(d.number = w.s.my /\ d.number # 0)
  BY <1>1, <1>f DEF Fitting, Fits
<1>14. ASSUME NEW k1 \in Firsts(e), Flow(k1, e, t, y), Fitting(k1, e, t, y),
              Complete(k, w, y) => Complete(k1, t, y)
       PROVE  HoldsAt(k1, l, e, t, y, c)
  <2>1. Endings(k1, t, y, c)
    BY <1>2, <1>14, <1>g DEF Endings, SentSet, HasReset
  <2> QED BY <1>5, <1>6, <1>8, <1>9, <1>10, <1>11, <1>12, <1>14, <2>1, <1>o, <1>a, <1>h, <1>i DEF HoldsAt, GoodAt
<1>15. CASE ~(y.s.use /\ y.s.peer = w.s.my)
  <2>1. y.s.use => Arrival(t, y) = Arrival(w, y)
    BY <1>2, <1>15 DEF Arrival, SentSet
  <2>2. Flow(k, e, t, y)
    BY <1>2, <1>4, <1>15, <2>1, <1>e DEF Flow, SentSet
  <2>3. Fitting(k, e, t, y)
    BY <1>2, <1>13, <1>f DEF Fitting, Fits, SentSet
  <2>4. Complete(k, w, y) => Complete(k, t, y)
    BY <1>2 DEF Complete, SentSet
  <2> QED BY <1>2, <1>14, <2>2, <2>3, <2>4, <1>o
<1>16. CASE y.s.use /\ y.s.peer = w.s.my
  <2>1. w.s.my = Born(e)
    BY <1>1, <1>16, <1>e DEF Flow
  <2>2. e = "acceptor" /\ w.s.my = 0
    BY <1>1, <1>c, <2>1 DEF Born, Shape, Ends
  <2>3. w.p.written = Len(w.s.out) /\ y.p.log = <<>> /\ y.s.in = <<>> /\ y.s.data = <<>>
    BY <1>16, <1>c, <1>e, <2>2 DEF Shape, Flow
  <2>4. Oldest(w) = 1
    <3>1. w.p.written - Len(w.s.out) + 1 = 1
      BY <1>1, <2>3
    <3> QED BY <3>1 DEF Oldest
  <2>5. Arrival(w, y) = 0 /\ Arrival(t, y) = Len(w.s.out)
    BY <1>2, <1>16 DEF Arrival, SentSet
  <2>6. Kept(y.s) = <<>> /\ Len(y.p.log) = 0 /\ Len(y.s.in) = 0 /\ Len(Kept(y.s)) = 0
    BY <2>3 DEF Kept
  <2> DEFINE k1 == 1 + Len(w.s.out)
  <2>7. k1 \in Nat /\ k1 \in Firsts(e)
    <3>1. Len(w.s.out) <= BufferLen
      BY <1>c DEF Shape
    <3>2. k1 \in 1 .. BufferLen + 1
      <4>1. ASSUME NEW a \in Nat, NEW b \in Nat, a <= b PROVE 1 + a \in Nat /\ 1 + a \in 1 .. b + 1
        BY <4>1
      <4> QED BY <1>1, <1>b, <3>1, <4>1
    <3> QED BY <2>2, <3>2 DEF Firsts
  <2>8. Wanted(k, y) = k /\ Wanted(k1, y) = k1
    <3>1. \A a \in Nat : a + 0 + 0 + 0 = a
      OBVIOUS
    <3> HIDE DEF k1
    <3> QED BY <1>b, <2>6, <2>7, <3>1 DEF Wanted
  <2>9. Flow(k1, e, t, y)
    <3>1. Run(y.p.log, k1) /\ Run(y.s.in, k1 + Len(y.p.log)) /\ Run(Kept(y.s), k1 + Len(y.p.log) + Len(y.s.in))
      BY <2>3, <2>6, EmptyRun
    <3>2. Wanted(k1, y) = Oldest(t) + Arrival(t, y)
      BY <1>4, <2>4, <2>5, <2>8
    <3> HIDE DEF k1
    <3> QED BY <1>2, <1>3, <1>16, <2>3, <3>1, <3>2, <1>e DEF Flow, SentSet
  <2>10. Fitting(k1, e, t, y)
    <3> HIDE DEF k1
    <3> SUFFICES ASSUME NEW d \in t.n, d.kind = "data" PROVE Fits(k1, e, d, t, y)
      BY DEF Fitting
    <3>1. Fits(k, e, d, w, y) /\ d \in Packets
      BY <1>2, <1>a, <1>f DEF Fitting, SentSet
    <3>2. d.number \in Nat /\ d.number <= 0 /\ y.s.peer = 0
      BY <1>16, <2>2, <3>1 DEF Fits, Packets
    <3>3. d.number # y.s.peer + 1
      BY <3>2
    <3>4. ~(d.number = w.s.my /\ d.number # 0)
      BY <1>2, <1>13 DEF SentSet
    <3> QED BY <1>2, <3>1, <3>3, <3>4 DEF Fits, SentSet
  <2>11. ~Complete(k, w, y)
    <3>1. w.p.written + 1 # k
      <4>1. Wanted(k, y) = Oldest(w) + Arrival(w, y)
        BY <1>1, <1>16, <1>e DEF Flow
      <4>2. k = 1
        BY <1>b, <2>4, <2>5, <2>8, <4>1
      <4> QED BY <1>1, <1>3, <2>3, <4>2
    <3> QED BY <2>8, <3>1 DEF Complete
  <2> HIDE DEF k1
  <2> QED BY <1>2, <1>14, <2>7, <2>9, <2>10, <2>11
<1> QED BY <1>15, <1>16

-----------------------------------------------------------------------------
\* What a packet of the stream says of its sender
Carries(pkt, s) ==
  /\ pkt \in Packets /\ pkt.kind = "data" /\ pkt.ack = s.peer /\ pkt.number \in {0, s.my}
  /\ "CLOSING" \in pkt.flags => s.closing
  /\ "DATA" \in pkt.flags => /\ DataToSend(s) /\ s.sent > 0 /\ Len(pkt.load) = s.sent
                             /\ pkt.load = SubSeq(s.out, 1, s.sent) /\ pkt.number = s.my
  /\ "DATA" \notin pkt.flags /\ pkt.number # 0 => s.closing /\ ~DataToSend(s)

LEMMA PacketFields ==
  ASSUME NEW s \in Streams, s.sent <= Len(s.out), NEW r,
         r.out = s.out, r.peerclosing = s.peerclosing, r.closing = s.closing,
         r.my = s.my, r.peer = s.peer,
         r.sent = IF DataToSend(s) THEN Len(Chunk(s)) ELSE s.sent
  PROVE  Carries(Packet(s), r) /\ (DataToSend(s) => Len(Chunk(s)) = IF s.sent > 0 THEN s.sent ELSE Len(s.out))
<1>1. /\ s.out \in Seq(Nat) /\ Len(s.out) \in Nat /\ s.sent \in Nat /\ s.my \in Nat /\ s.peer \in Nat
  BY StreamFields
<1> DEFINE flags == (IF DataToSend(s) THEN {"DATA"} ELSE {})
                    \cup (IF s.closing /\ ~(DataToSend(s) /\ s.sent > 0) THEN {"CLOSING"} ELSE {})
           load == IF DataToSend(s) THEN Chunk(s) ELSE <<>>
           number == IF flags = {} THEN 0 ELSE s.my
           pkt == Packet(s)
<1>2. pkt = [kind |-> "data", ack |-> s.peer, flags |-> flags, number |-> number, load |-> load]
  BY DEF Packet
<1>3. flags \subseteq {"DATA", "CLOSING"} /\ ("CLOSING" \in flags => s.closing)
      /\ ("DATA" \in flags <=> DataToSend(s))
      /\ (flags # {} => DataToSend(s) \/ s.closing)
  OBVIOUS
<1>4. DataToSend(s) => /\ Chunk(s) \in Seq(Nat) /\ Chunk(s) = SubSeq(s.out, 1, Len(Chunk(s)))
                       /\ Len(Chunk(s)) = (IF s.sent > 0 THEN s.sent ELSE Len(s.out))
                       /\ Len(Chunk(s)) > 0
  <2> SUFFICES ASSUME DataToSend(s)
               PROVE  /\ Chunk(s) \in Seq(Nat) /\ Chunk(s) = SubSeq(s.out, 1, Len(Chunk(s)))
                      /\ Len(Chunk(s)) = (IF s.sent > 0 THEN s.sent ELSE Len(s.out))
                      /\ Len(Chunk(s)) > 0
    OBVIOUS
  <2>1. s.out # <<>> /\ Len(s.out) > 0
    BY <1>1 DEF DataToSend
  <2>2. CASE s.sent > 0
    <3>1. Chunk(s) = SubSeq(s.out, 1, s.sent)
      BY <2>2 DEF Chunk
    <3>2. SubSeq(s.out, 1, s.sent) \in Seq(Nat) /\ Len(SubSeq(s.out, 1, s.sent)) = s.sent
      BY <1>1
    <3> QED BY <2>2, <3>1, <3>2
  <2>3. CASE ~(s.sent > 0)
    <3>1. Chunk(s) = s.out
      BY <2>3 DEF Chunk
    <3>2. SubSeq(s.out, 1, Len(s.out)) = s.out
      BY <1>1
    <3> QED BY <1>1, <2>1, <2>3, <3>1, <3>2
  <2> QED BY <2>2, <2>3
<1>5. load \in Seq(Nat) /\ number \in Nat
  BY <1>1, <1>4
<1>6. DataToSend(s) <=> DataToSend(r)
  BY DEF DataToSend
<1>7. number \in {0, s.my} /\ (flags # {} => number = s.my) /\ (number # 0 => flags # {})
  OBVIOUS
<1> HIDE DEF flags, load, number
<1>8. pkt \in Packets /\ pkt.kind = "data" /\ pkt.ack = s.peer /\ pkt.flags = flags /\ pkt.number = number
      /\ pkt.load = load
  BY <1>1, <1>2, <1>3, <1>5 DEF Packets
<1> HIDE DEF pkt
<1>9. "DATA" \in flags => DataToSend(r) /\ r.sent > 0 /\ Len(load) = r.sent
                          /\ load = SubSeq(r.out, 1, r.sent) /\ number = r.my
  BY <1>3, <1>4, <1>6, <1>7 DEF load
<1>10. "DATA" \notin flags /\ number # 0 => r.closing /\ ~DataToSend(r)
  BY <1>3, <1>6, <1>7
<1>11. Carries(pkt, r)
  BY <1>3, <1>7, <1>8, <1>9, <1>10 DEF Carries
<1> QED BY <1>4, <1>11 DEF pkt

LEMMA PacketHolds ==
  ASSUME NEW k, NEW l, NEW e \in Ends, NEW w, NEW y, NEW c, HoldsAt(k, l, e, w, y, c), w.s.use,
         w.s.req # "none" => e = "acceptor" /\ (w.s.closing \/ w.s.dead),
         w.s.notready => w.s.closing,
         NEW pkt, Carries(pkt, w.s), NEW t, t = Put(w, pkt)
  PROVE  HoldsAt(k, l, e, t, y, c) /\ PutIn(w, pkt, t)
<1>a. /\ w \in Worlds /\ w.s \in Streams /\ w.p \in Processes /\ w.n \subseteq Packets
      /\ y \in Sides /\ y.s \in Streams /\ y.p \in Processes /\ y.n \subseteq Packets
      /\ c \in BOOLEAN
  BY DEF HoldsAt, Worlds, Sides
<1>b. /\ k \in Nat /\ l \in Nat /\ Len(Kept(w.s)) \in Nat /\ Len(Kept(y.s)) \in Nat
      /\ Wanted(k, y) \in Nat /\ Wanted(l, w) \in Nat /\ Arrival(w, y) \in Nat /\ Arrival(y, w) \in Nat
      /\ MaxBytes[e] \in Nat /\ MaxPackets[Peer(e)] \in Nat /\ BufferLen \in Nat /\ BufferLen >= 1
  BY Numbers
<1>c. Shape(e, w)
  BY DEF HoldsAt, GoodAt
<1>e. Flow(k, e, w, y)
  BY DEF HoldsAt, GoodAt
<1>g. Endings(k, w, y, c)
  BY DEF HoldsAt, GoodAt
<1>j. Flow(l, Peer(e), y, w)
  BY DEF HoldsAt, GoodAt
<1>m. Endings(l, y, w, c)
  BY DEF HoldsAt, GoodAt
<1>n. Meeting(e, w, y, c)
  BY DEF HoldsAt, GoodAt
<1>1. /\ w.s.out \in Seq(Nat) /\ Len(w.s.out) \in Nat /\ w.p.written \in Nat /\ w.s.my \in Nat /\ y.s.peer \in Nat
      /\ w.s.sent \in Nat /\ w.s.peer \in Nat /\ y.s.my \in Nat
      /\ w.s.sent <= Len(w.s.out) /\ Len(w.s.out) <= BufferLen
  BY <1>a, <1>c, StreamFields, ProcessFields DEF Shape
<1>2. /\ pkt \in Packets /\ pkt.kind = "data" /\ pkt.ack = w.s.peer /\ pkt.number \in {0, w.s.my}
  BY DEF Carries
<1>3. PutIn(w, pkt, t)
  BY <1>2, <1>a, PutFields
<1>4. HasReset(t) <=> HasReset(w)
  <2>1. \A d \in t.n : d \in w.n \/ d = pkt
    BY <1>3 DEF PutIn
  <2>2. \A d \in w.n : d \in t.n
    BY <1>3 DEF PutIn
  <2> QED BY <1>2, <2>1, <2>2 DEF HasReset
<1>5. Endings(k, t, y, c) /\ Endings(l, y, t, c)
  BY <1>3, <1>4, <1>g, <1>m DEF Endings, Complete, Wanted, PutIn
<1>6. Meeting(e, t, y, c)
  <2>1. \A d \in t.n : d \in w.n \/ d = pkt
    BY <1>3 DEF PutIn
  <2>2. CASE e = "requester"
    BY <1>2, <1>3, <1>4, <1>n, <2>1, <2>2 DEF Meeting, Handshake, PutIn
  <2>3. CASE e = "acceptor"
    BY <1>2, <1>3, <1>4, <1>n, <2>1, <2>3 DEF Meeting, Handshake, PutIn
  <2> QED BY <2>2, <2>3 DEF Ends
<1>7. Fits(k, e, pkt, w, y)
  <2>1. e = "acceptor" => pkt.ack >= 1
    BY <1>2, <1>c DEF Shape
  <2>2. "CLOSING" \in pkt.flags => w.s.closing
    BY DEF Carries
  <2>3. pkt.number <= w.s.my /\ pkt.ack <= w.s.peer
    BY <1>1, <1>2
  <2>4. pkt.number = w.s.my /\ pkt.number # 0 =>
            IF "DATA" \in pkt.flags THEN w.s.sent > 0 /\ Len(pkt.load) = w.s.sent
            ELSE w.s.closing /\ (w.s.out = <<>> \/ w.s.peerclosing)
    BY DEF Carries, DataToSend
  <2>5. y.s.use => pkt.number <= y.s.peer + 1 /\ pkt.ack <= y.s.my
    <3> SUFFICES ASSUME y.s.use PROVE pkt.number <= y.s.peer + 1 /\ pkt.ack <= y.s.my
      OBVIOUS
    <3>1. y.s.peer = w.s.my - 1 \/ y.s.peer = w.s.my
      BY <1>e DEF Flow
    <3>2. w.s.peer = y.s.my - 1 \/ w.s.peer = y.s.my
      BY <1>j DEF Flow
    <3>3. pkt.number <= y.s.peer + 1
      BY <1>1, <1>2, <3>1
    <3>4. pkt.ack <= y.s.my
      BY <1>1, <1>2, <3>2
    <3> QED BY <3>3, <3>4
  <2>6. y.s.use /\ "DATA" \in pkt.flags /\ pkt.number = y.s.peer + 1 =>
            /\ Len(pkt.load) \in 1 .. BufferLen
            /\ Run(pkt.load, Wanted(k, y)) /\ Wanted(k, y) + Len(pkt.load) - 1 <= w.p.written
    <3> SUFFICES ASSUME y.s.use, "DATA" \in pkt.flags, pkt.number = y.s.peer + 1
                 PROVE  /\ Len(pkt.load) \in 1 .. BufferLen
                        /\ Run(pkt.load, Wanted(k, y)) /\ Wanted(k, y) + Len(pkt.load) - 1 <= w.p.written
      OBVIOUS
    <3>1. ~w.s.peerclosing /\ w.s.sent > 0 /\ Len(pkt.load) = w.s.sent
          /\ pkt.load = SubSeq(w.s.out, 1, w.s.sent) /\ w.s.my = y.s.peer + 1
      BY DEF Carries, DataToSend
    <3>2. y.s.peer # w.s.my
      BY <1>1, <3>1
    <3>3. Arrival(w, y) = 0
      BY <3>2 DEF Arrival
    <3>4. Wanted(k, y) = Oldest(w) + Arrival(w, y)
      BY <3>1, <1>e DEF Flow
    <3>5. Oldest(w) = w.p.written - Len(w.s.out) + 1 /\ Oldest(w) \in Int
      BY SMTT(40), <1>1 DEF Oldest
    <3>6. Wanted(k, y) = Oldest(w)
      BY <3>3, <3>4, <3>5
    <3>7. Run(pkt.load, Oldest(w))
      <4>1. Run(w.s.out, Oldest(w))
        BY <1>c DEF Shape
      <4> QED BY <1>1, <3>1, <3>5, <4>1, RunOfPart
    <3>8. Len(pkt.load) \in 1 .. BufferLen
      <4>1. ASSUME NEW a \in Nat, NEW b \in Nat, NEW n \in Nat, a > 0, a <= b, b <= n PROVE a \in 1 .. n
        BY <4>1
      <4>2. w.s.sent \in 1 .. BufferLen
        BY <1>1, <1>b, <3>1, <4>1
      <4> QED BY <3>1, <4>2
    <3>9. Oldest(w) + w.s.sent - 1 <= w.p.written
      <4>1. ASSUME NEW a \in Nat, NEW b \in Nat, NEW n \in Nat, a <= b PROVE (n - b + 1) + a - 1 <= n
        BY <4>1
      <4> QED BY <1>1, <3>5, <4>1
    <3> QED BY <3>1, <3>6, <3>7, <3>8, <3>9
  <2> QED BY <2>1, <2>2, <2>3, <2>4, <2>5, <2>6 DEF Fits
<1> QED BY <1>2, <1>3, <1>5, <1>6, <1>7, PutHolds

-----------------------------------------------------------------------------
LEMMA SentSame ==
  ASSUME NEW w \in Worlds, NEW b, b = w.s.sent, NEW t, t = [w EXCEPT !.s.sent = b]
  PROVE  t = w
  BY DEF Worlds, Streams

LEMMA DeadSame ==
  ASSUME NEW w \in Worlds, ~w.s.dead, NEW r, r = TRUE, NEW t, t = [w EXCEPT !.s.dead = ~r]
  PROVE  t = w
  BY DEF Worlds, Streams

LEMMA SentBeforePut ==
  ASSUME NEW w \in Worlds, NEW pkt, NEW b \in Nat, NEW m, m = [w EXCEPT !.s.sent = b],
         NEW x, x = Put(w, pkt)
  PROVE  [x EXCEPT !.s.sent = b] = Put(m, pkt)
<1>1. m.n = w.n /\ m.room = w.room /\ m.route = w.route
  BY DEF Worlds
<1>2. CASE w.route /\ Cardinality(w.n) < w.room
  <2> DEFINE q == w.n \cup {pkt}
  <2>1. x = [w EXCEPT !.n = q]
    BY <1>2 DEF Put
  <2>2. Put(m, pkt) = [m EXCEPT !.n = q]
    BY <1>1, <1>2 DEF Put
  <2>3. [x EXCEPT !.s.sent = b] = [m EXCEPT !.n = q]
    <3> HIDE DEF q
    <3> QED BY <2>1 DEF Worlds, Streams
  <2> QED BY <2>2, <2>3
<1>3. CASE ~(w.route /\ Cardinality(w.n) < w.room)
  BY <1>1, <1>3 DEF Put
<1> QED BY <1>2, <1>3

\* What ripc_stream_send_data leaves as it is
SentOn(w, t) ==
  /\ t \in Worlds
  /\ w.s.dead \/ ~w.route => t.s.dead
  /\ t.s.dead => w.s.dead \/ ~w.route
  /\ t.s.use = w.s.use /\ t.s.notready = w.s.notready /\ t.s.closing = w.s.closing
  /\ t.s.peerclosing = w.s.peerclosing /\ t.s.readsleep = w.s.readsleep /\ t.s.writesleep = w.s.writesleep
  /\ t.s.req = w.s.req /\ t.s.retries = w.s.retries /\ t.s.in = w.s.in /\ t.s.out = w.s.out
  /\ t.s.data = w.s.data /\ t.s.my = w.s.my /\ t.s.peer = w.s.peer /\ t.s.left = w.s.left
  /\ t.p = w.p /\ t.room = w.room /\ t.route = w.route

LEMMA SendDataIs ==
  ASSUME NEW w \in Worlds, ~w.s.dead, w.s.sent <= Len(w.s.out)
  PROVE  \E m, pkt :
           /\ SendData(w) = [Put(m, pkt) EXCEPT !.s.dead = ~w.route]
           /\ Carries(pkt, m.s) /\ m \in Worlds
           /\ \/ m = w
              \/ DataToSend(w.s) /\ w.s.sent = 0 /\ m = [w EXCEPT !.s.sent = Len(w.s.out)]
<1>1. w.s \in Streams /\ Len(w.s.out) \in Nat /\ w.s.sent \in Nat
  BY WorldFields, StreamFields
<1> DEFINE pkt == Packet(w.s)
           n == Len(Chunk(w.s))
           x == Put(w, pkt)
           m == [w EXCEPT !.s.sent = n]
<1>2. CASE DataToSend(w.s)
  <2> DEFINE r == [w.s EXCEPT !.sent = n]
  <2>1. m.s = r
    BY DEF Worlds
  <2>2. r.out = w.s.out /\ r.peerclosing = w.s.peerclosing /\ r.closing = w.s.closing
        /\ r.my = w.s.my /\ r.peer = w.s.peer /\ r.sent = n
    BY <1>1 DEF Streams
  <2>3. r.sent = IF DataToSend(w.s) THEN Len(Chunk(w.s)) ELSE w.s.sent
    BY <1>2, <2>2
  <2> HIDE DEF r
  <2>4. Carries(pkt, r) /\ n = IF w.s.sent > 0 THEN w.s.sent ELSE Len(w.s.out)
    BY <1>1, <1>2, <2>2, <2>3, PacketFields
  <2>5. n \in Nat
    BY <1>1, <2>4
  <2>6. SendData(w) = [[x EXCEPT !.s.sent = n] EXCEPT !.s.dead = ~w.route]
    BY <1>2 DEF SendData
  <2> HIDE DEF pkt, n
  <2>7. [x EXCEPT !.s.sent = n] = Put(m, pkt)
    BY <2>5, SentBeforePut
  <2>8. SendData(w) = [Put(m, pkt) EXCEPT !.s.dead = ~w.route]
    BY <2>6, <2>7
  <2>9. m \in Worlds
    <3>1. SentSet(w, n, m)
      BY <2>5, IsSentSet
    <3> QED BY <3>1 DEF SentSet
  <2>10. w.s.sent > 0 => m = w
    <3>1. w.s.sent > 0 => n = w.s.sent
      BY <2>4
    <3> QED BY <3>1, SentSame
  <2>11. ~(w.s.sent > 0) => w.s.sent = 0 /\ m = [w EXCEPT !.s.sent = Len(w.s.out)]
    BY <1>1, <2>4
  <2> HIDE DEF m
  <2> QED BY <1>2, <2>1, <2>4, <2>8, <2>9, <2>10, <2>11
<1>3. CASE ~DataToSend(w.s)
  <2>1. Carries(pkt, w.s)
    BY <1>1, <1>3, PacketFields
  <2>2. SendData(w) = [Put(w, pkt) EXCEPT !.s.dead = ~w.route]
    BY <1>3 DEF SendData
  <2> HIDE DEF pkt
  <2> QED BY <2>1, <2>2
<1> QED BY <1>2, <1>3

LEMMA SendDataHolds ==
  ASSUME NEW k, NEW l, NEW e \in Ends, NEW w, NEW y, NEW c, HoldsAt(k, l, e, w, y, c), w.s.use,
         e = "requester" /\ ~w.s.dead => w.s.req # "sent", w.s.notready => w.s.closing \/ w.s.dead,
         NEW t, t = SendData(w)
  PROVE  Holds(e, t, y, c) /\ SentOn(w, t)
<1>o. w.room = MaxPackets[Peer(e)] /\ (c => w.route) /\ k \in Firsts(e) /\ l \in Firsts(Peer(e))
  BY DEF HoldsAt
<1>a. /\ w \in Worlds /\ w.s \in Streams /\ w.p \in Processes /\ w.n \subseteq Packets
      /\ y \in Sides /\ y.s \in Streams /\ y.p \in Processes /\ y.n \subseteq Packets
      /\ c \in BOOLEAN
  BY DEF HoldsAt, Worlds, Sides
<1>c. Shape(e, w)
  BY DEF HoldsAt, GoodAt
<1>d. Manner(e, w)
  BY DEF HoldsAt, GoodAt
<1>1. CASE w.s.dead
  <2>1. t = w
    BY <1>1 DEF SendData
  <2> QED BY <1>1, <1>a, <2>1, <1>o DEF Holds, SentOn
<1>2. CASE ~w.s.dead
  <2>1. w.s.sent <= Len(w.s.out)
    BY <1>c DEF Shape
  <2>2. PICK m, pkt :
           /\ SendData(w) = [Put(m, pkt) EXCEPT !.s.dead = ~w.route]
           /\ Carries(pkt, m.s) /\ m \in Worlds
           /\ \/ m = w
              \/ DataToSend(w.s) /\ w.s.sent = 0 /\ m = [w EXCEPT !.s.sent = Len(w.s.out)]
    BY <1>2, <1>a, <2>1, SendDataIs
  <2>3. (\E k1 \in Firsts(e) : HoldsAt(k1, l, e, m, y, c))
        /\ (m = w \/ SentSet(w, Len(w.s.out), m))
    <3>1. CASE m = w
      BY <3>1, <1>o
    <3>2. CASE DataToSend(w.s) /\ w.s.sent = 0 /\ m = [w EXCEPT !.s.sent = Len(w.s.out)]
      BY <3>2, MarkHolds
    <3> QED BY <2>2, <3>1, <3>2
  <2>4. PICK k1 \in Firsts(e) : HoldsAt(k1, l, e, m, y, c)
    BY <2>3
  <2>5. /\ m \in Worlds /\ m.s.dead = FALSE /\ m.s.use = w.s.use /\ m.s.notready = w.s.notready
        /\ m.s.closing = w.s.closing /\ m.s.req = w.s.req /\ m.route = w.route
    BY <1>2, <1>a, <2>3, StreamFields DEF SentSet
  <2>11. /\ m.s.use = w.s.use /\ m.s.notready = w.s.notready /\ m.s.closing = w.s.closing
         /\ m.s.peerclosing = w.s.peerclosing /\ m.s.readsleep = w.s.readsleep /\ m.s.writesleep = w.s.writesleep
         /\ m.s.req = w.s.req /\ m.s.retries = w.s.retries /\ m.s.in = w.s.in /\ m.s.out = w.s.out
         /\ m.s.data = w.s.data /\ m.s.my = w.s.my /\ m.s.peer = w.s.peer /\ m.s.left = w.s.left
         /\ m.room = w.room
    BY <2>3 DEF SentSet
  <2>12. m.p = w.p
    BY <2>2, <1>a DEF Worlds
  <2>6. m.s.req # "none" => e = "acceptor" /\ (m.s.closing \/ m.s.dead)
    <3>1. w.s.req # "none" => w.s.notready
      BY <1>2, <1>d DEF Manner
    <3>2. w.s.req = "stale" => e = "acceptor"
      BY <1>d DEF Manner
    <3>3. w.s.req \in {"none", "sent", "stale"}
      BY <1>a, StreamFields
    <3> QED BY <1>2, <2>5, <3>1, <3>2, <3>3 DEF Ends
  <2> DEFINE v == Put(m, pkt)
  <2>7. HoldsAt(k1, l, e, v, y, c) /\ PutIn(m, pkt, v)
    <3>1. m.s.notready => m.s.closing
      BY <1>2, <2>5
    <3> QED BY <2>2, <2>4, <2>5, <2>6, <3>1, PacketHolds
  <2> HIDE DEF v
  <2>8. t = [v EXCEPT !.s.dead = ~w.route] /\ v \in Worlds /\ v.s = m.s /\ v.p = m.p
        /\ v.route = w.route /\ v.room = m.room
    BY <2>2, <2>5, <2>7 DEF v, PutIn
  <2>13. /\ v.s.use = w.s.use /\ v.s.notready = w.s.notready /\ v.s.closing = w.s.closing
         /\ v.s.peerclosing = w.s.peerclosing /\ v.s.readsleep = w.s.readsleep /\ v.s.writesleep = w.s.writesleep
         /\ v.s.req = w.s.req /\ v.s.retries = w.s.retries /\ v.s.in = w.s.in /\ v.s.out = w.s.out
         /\ v.s.data = w.s.data /\ v.s.my = w.s.my /\ v.s.peer = w.s.peer /\ v.s.left = w.s.left
         /\ v.room = w.room
    BY <2>8, <2>11
  <2>14. v.p = w.p
    BY <2>8, <2>12
  <2>9. CASE w.route
    <3>1. t = v
      <4>1. ~v.s.dead /\ w.route = TRUE
        BY <2>5, <2>8, <2>9, <1>a, WorldFields
      <4> QED BY ZenonT(60), <2>8, <4>1, DeadSame
    <3>2. SentOn(w, t)
      <4>1. ~v.s.dead /\ v \in Worlds /\ v.route = w.route
        BY <2>5, <2>8
      <4> QED BY <1>2, <2>9, <2>13, <2>14, <3>1, <4>1 DEF SentOn
    <3> QED BY <2>7, <3>1, <3>2, <1>o DEF Holds
  <2>10. CASE ~w.route
    <3>1. c = FALSE
      BY <1>a, <1>o, <2>10
    <3>2. t = [v EXCEPT !.s.dead = TRUE]
      BY <2>8, <2>10
    <3>3. v.s.use
      BY <2>5, <2>8
    <3>4. HoldsAt(k1, l, e, t, y, c) /\ DeadSet(v, TRUE, t)
      BY <2>7, <3>1, <3>2, <3>3, DeadHolds
    <3>5. SentOn(w, t)
      <4>1. t.p = w.p
        <5>1. t.p = v.p
          BY <2>8, <3>2 DEF Worlds
        <5> QED BY <2>8, <2>12, <5>1
      <4>2. v.route = w.route
        BY <2>8
      <4> QED BY <2>10, <2>13, <3>4, <4>1, <4>2 DEF SentOn, DeadSet
    <3> QED BY <3>4, <3>5, <1>o DEF Holds
  <2> QED BY <2>9, <2>10
<1> QED BY <1>1, <1>2

-----------------------------------------------------------------------------
(* The packet under way has arrived. *)

Advanced(w, t) ==
  /\ t \in Worlds /\ t.s.my = w.s.my + 1 /\ t.s.sent = 0 /\ ~t.s.notready
  /\ Len(t.s.out) = Len(w.s.out) - w.s.sent /\ Run(t.s.out, Oldest(t))
  /\ Oldest(t) = Oldest(w) + w.s.sent
       /\ t.s.use = w.s.use /\ t.s.dead = w.s.dead /\ t.s.closing = w.s.closing /\ t.s.peerclosing = w.s.peerclosing
       /\ t.s.readsleep = w.s.readsleep /\ t.s.writesleep = w.s.writesleep /\ t.s.req = w.s.req /\ t.s.retries = w.s.retries
       /\ t.s.in = w.s.in /\ t.s.data = w.s.data /\ t.s.peer = w.s.peer /\ t.s.left = w.s.left
       /\ t.p = w.p
       /\ t.n = w.n /\ t.room = w.room /\ t.route = w.route

LEMMA AdvanceFields ==
  ASSUME NEW w \in Worlds, Run(w.s.out, Oldest(w)), w.s.sent <= Len(w.s.out),
         NEW t, t = Advance([w EXCEPT !.s.notready = FALSE])
  PROVE  Advanced(w, t)
<1>1. w.s \in Streams /\ w.p \in Processes
  BY WorldFields
<1>2. /\ w.s.out \in Seq(Nat) /\ w.p.written \in Nat /\ Len(w.s.out) \in Nat /\ w.s.sent \in Nat
      /\ w.s.my \in Nat
  BY <1>1, StreamFields, ProcessFields
<1> DEFINE r == SubSeq(w.s.out, w.s.sent + 1, Len(w.s.out))
           m == w.s.my + 1
<1>3. Oldest(w) = w.p.written - Len(w.s.out) + 1 /\ Oldest(w) \in Int
  BY <1>2 DEF Oldest
<1>4. r \in Seq(Nat) /\ Len(r) = Len(w.s.out) - w.s.sent /\ Run(r, Oldest(w) + w.s.sent)
  BY <1>2, <1>3, RunOfPart
<1>5. t = [[[w EXCEPT !.s.notready = FALSE] EXCEPT !.s.my = m] EXCEPT !.s.out = r, !.s.sent = 0]
  BY <1>1 DEF Advance, NextNumber, Worlds, Streams
<1>6. m \in Nat /\ r \in Seq(Nat)
  BY SMTT(40), <1>2, <1>4
<1> HIDE DEF r, m
<1>7. AdvanceSet(w, m, r, t)
  BY <1>5, <1>6, IsAdvanceSet
<1>8. Len(t.s.out) = Len(w.s.out) - w.s.sent /\ t.p.written = w.p.written
  BY <1>4, <1>7 DEF AdvanceSet
<1>9. Oldest(t) = Oldest(w) + w.s.sent
  <2>1. w.p.written - (Len(w.s.out) - w.s.sent) + 1 = (w.p.written - Len(w.s.out) + 1) + w.s.sent
    <3>1. ASSUME NEW a \in Nat, NEW b \in Nat, NEW n \in Nat PROVE n - (b - a) + 1 = (n - b + 1) + a
      OBVIOUS
    <3> QED BY <1>2, <3>1
  <2> QED BY <1>3, <1>8, <2>1 DEF Oldest
<1>10. Run(t.s.out, Oldest(t))
  BY <1>4, <1>7, <1>9 DEF AdvanceSet
<1>11. t.s.my = w.s.my + 1
  BY <1>7 DEF AdvanceSet, m
<1> QED BY <1>7, <1>8, <1>9, <1>10, <1>11 DEF Advanced, AdvanceSet

LEMMA AdvanceHolds ==
  ASSUME NEW k, NEW l, NEW e \in Ends, NEW w, NEW y, NEW c, HoldsAt(k, l, e, w, y, c), w.s.use,
         w.s.req = "none", NEW pkt \in y.n, pkt.kind = "data", pkt.ack = w.s.my,
         NEW t, t = Advance([w EXCEPT !.s.notready = FALSE])
  PROVE  HoldsAt(k, l, e, t, y, c) /\ Advanced(w, t)
<1>o. w.room = MaxPackets[Peer(e)] /\ (c => w.route) /\ k \in Firsts(e) /\ l \in Firsts(Peer(e))
  BY DEF HoldsAt
<1>a. /\ w \in Worlds /\ w.s \in Streams /\ w.p \in Processes /\ w.n \subseteq Packets
      /\ y \in Sides /\ y.s \in Streams /\ y.p \in Processes /\ y.n \subseteq Packets
      /\ c \in BOOLEAN
  BY DEF HoldsAt, Worlds, Sides
<1>b. /\ k \in Nat /\ l \in Nat /\ Len(Kept(w.s)) \in Nat /\ Len(Kept(y.s)) \in Nat
      /\ Wanted(k, y) \in Nat /\ Wanted(l, w) \in Nat /\ Arrival(w, y) \in Nat /\ Arrival(y, w) \in Nat
      /\ MaxBytes[e] \in Nat /\ MaxPackets[Peer(e)] \in Nat /\ BufferLen \in Nat /\ BufferLen >= 1
  BY Numbers
<1>c. Shape(e, w)
  BY DEF HoldsAt, GoodAt
<1>d. Manner(e, w)
  BY DEF HoldsAt, GoodAt
<1>e. Flow(k, e, w, y)
  BY DEF HoldsAt, GoodAt
<1>f. Fitting(k, e, w, y)
  BY DEF HoldsAt, GoodAt
<1>g. Endings(k, w, y, c)
  BY DEF HoldsAt, GoodAt
<1>h. Shape(Peer(e), y)
  BY DEF HoldsAt, GoodAt
<1>i. Manner(Peer(e), y)
  BY DEF HoldsAt, GoodAt
<1>j. Flow(l, Peer(e), y, w)
  BY DEF HoldsAt, GoodAt
<1>k. Fitting(l, Peer(e), y, w)
  BY DEF HoldsAt, GoodAt
<1>m. Endings(l, y, w, c)
  BY DEF HoldsAt, GoodAt
<1>n. Meeting(e, w, y, c)
  BY DEF HoldsAt, GoodAt
<1>1. /\ w.s.out \in Seq(Nat) /\ Len(w.s.out) \in Nat /\ w.s.sent \in Nat /\ w.s.my \in Nat
      /\ y.s.peer \in Nat /\ w.p.written \in Nat
  BY <1>a, StreamFields, ProcessFields
<1>2. Run(w.s.out, Oldest(w)) /\ w.s.sent <= Len(w.s.out) /\ Len(w.s.out) <= BufferLen
  BY <1>c DEF Shape
<1>3. Advanced(w, t)
  BY <1>a, <1>2, AdvanceFields
<1>4. y.s.use => y.s.peer = w.s.my
  <2>1. Fits(l, Peer(e), pkt, y, w)
    BY <1>k DEF Fitting
  <2>2. y.s.use => w.s.my <= y.s.peer
    BY <2>1 DEF Fits
  <2>3. y.s.use => y.s.peer \in {w.s.my - 1, w.s.my}
    BY <1>e DEF Flow
  <2> QED BY <1>1, <2>2, <2>3
<1>5. t.s.my = w.s.my + 1 /\ t.s.my # 0 /\ t.s.my \in Nat /\ t.s.my >= 1
  BY SMTT(40), <1>1, <1>3 DEF Advanced
<1>6. Shape(e, t)
  <2>1. Len(t.s.out) <= BufferLen /\ t.s.sent <= Len(t.s.out)
    <3>1. ASSUME NEW a \in Nat, NEW b \in Nat, NEW n \in Nat, a <= b, b <= n PROVE b - a <= n /\ 0 <= b - a
      BY <3>1
    <3>2. Len(t.s.out) = Len(w.s.out) - w.s.sent /\ t.s.sent = 0
      BY <1>3 DEF Advanced
    <3> QED BY <1>1, <1>2, <1>b, <3>1, <3>2
  <2>2. e = "requester" => t.s.my # 1
    <3>1. e = "requester" => w.s.my >= 1
      BY <1>c DEF Shape
    <3> QED BY <1>1, <1>5, <3>1
  <2> QED BY <1>3, <1>5, <1>c, <2>1, <2>2 DEF Shape, Advanced
<1>7. Manner(e, t)
  BY <1>3, <1>d DEF Manner, Advanced
<1>8. Wanted(l, t) = Wanted(l, w) /\ Kept(t.s) = Kept(w.s) /\ Arrival(y, t) = Arrival(y, w)
  BY <1>3 DEF Advanced, Wanted, Kept, Arrival
<1>9. Flow(k, e, t, y)
  <2>1. y.s.use => y.s.peer = t.s.my - 1 /\ y.s.peer # t.s.my /\ Arrival(t, y) = 0
    <3>1. w.s.my = t.s.my - 1 /\ w.s.my # t.s.my
      BY SMTT(40), <1>1, <1>5
    <3> QED BY <1>4, <3>1 DEF Arrival
  <2>2. y.s.use => Arrival(w, y) = w.s.sent
    BY <1>4 DEF Arrival
  <2>3. y.s.use /\ ~t.s.peerclosing => Wanted(k, y) = Oldest(t) + Arrival(t, y)
    <3> SUFFICES ASSUME y.s.use, ~t.s.peerclosing PROVE Wanted(k, y) = Oldest(t) + Arrival(t, y)
      OBVIOUS
    <3>1. Wanted(k, y) = Oldest(w) + Arrival(w, y)
      BY <1>3, <1>e DEF Flow, Advanced
    <3>2. Oldest(t) = Wanted(k, y)
      BY <1>3, <2>2, <3>1 DEF Advanced
    <3>3. Wanted(k, y) + 0 = Wanted(k, y)
      BY <1>b
    <3> QED BY <2>1, <3>2, <3>3
  <2> QED BY <1>3, <2>1, <2>3, <1>e DEF Flow, Advanced
<1>10. Flow(l, Peer(e), y, t)
  BY <1>3, <1>8, <1>j DEF Flow, Advanced
<1>11. Fitting(k, e, t, y)
  <2> SUFFICES ASSUME NEW d \in t.n, d.kind = "data" PROVE Fits(k, e, d, t, y)
    BY DEF Fitting
  <2>1. Fits(k, e, d, w, y) /\ d \in Packets
    BY <1>3, <1>a, <1>f DEF Fitting, Advanced
  <2>2. d.number \in Nat /\ d.number <= w.s.my
    BY <2>1 DEF Fits, Packets
  <2>3. d.number <= t.s.my /\ d.number # t.s.my
    BY <1>1, <1>5, <2>2
  <2> QED BY <1>3, <2>1, <2>3 DEF Fits, Advanced
<1>12. Fitting(l, Peer(e), y, t)
  <2> SUFFICES ASSUME NEW d \in y.n, d.kind = "data" PROVE Fits(l, Peer(e), d, y, t)
    BY DEF Fitting
  <2>1. Fits(l, Peer(e), d, y, w) /\ d \in Packets
    BY <1>a, <1>k DEF Fitting
  <2>2. d.ack \in Nat /\ d.ack <= w.s.my
    BY <2>1 DEF Fits, Packets
  <2>3. d.ack <= t.s.my
    BY <1>1, <1>5, <2>2
  <2> QED BY <1>3, <1>8, <2>1, <2>3 DEF Fits, Advanced
<1>13. Endings(k, t, y, c)
  <2>1. Complete(k, w, y) <=> Complete(k, t, y)
    BY <1>3 DEF Complete, Advanced
  <2>2. HasReset(t) <=> HasReset(w)
    BY <1>3 DEF Advanced, HasReset
  <2> QED BY <2>1, <2>2, <1>3, <1>g DEF Advanced, Endings
<1>14. Endings(l, y, t, c)
  <2>1. Complete(l, y, t) <=> Complete(l, y, w)
    BY <1>3, <1>8 DEF Complete, Advanced
  <2>2. HasReset(t) <=> HasReset(w)
    BY <1>3 DEF Advanced, HasReset
  <2> QED BY <2>1, <2>2, <1>3, <1>m DEF Advanced, Endings
<1>15. Meeting(e, t, y, c)
  <2>1. HasData(y)
    BY DEF HasData
  <2>2. CASE e = "requester"
    BY <1>3, <1>n, <2>1, <2>2 DEF Meeting, Handshake, HasReset, HasData, Advanced
  <2>3. CASE e = "acceptor"
    BY <1>3, <1>n, <2>1, <2>3 DEF Meeting, Handshake, HasReset, HasData, Advanced
  <2> QED BY <2>2, <2>3 DEF Ends
<1>16. t \in Worlds /\ t.room = w.room /\ t.route = w.route
  BY <1>3 DEF Advanced
<1> QED
  BY <1>3, <1>6, <1>7, <1>9, <1>10, <1>11, <1>12, <1>13, <1>14, <1>15, <1>16, <1>o, <1>a, <1>h, <1>i
  DEF HoldsAt, GoodAt

-----------------------------------------------------------------------------
(* The slot is given back. *)

Freed(w, t) ==
  /\ t \in Worlds /\ t.s = GivenBack(w.s) /\ t.n = w.n /\ t.room = w.room /\ t.route = w.route
  /\ t.p.written = w.p.written /\ t.p.log = w.p.log /\ t.p.eof = w.p.eof
  /\ t.p.state = IF w.p.state = "asleep" THEN "lost" ELSE w.p.state

LEMMA DiscardFields ==
  ASSUME NEW w \in Worlds, NEW t, t = Discard(w)
  PROVE  Freed(w, t)
<1> DEFINE st == IF w.p.state = "asleep" THEN "lost" ELSE w.p.state
<1> DEFINE g == GivenBack(w.s)
<1>1. w.p \in Processes /\ w.s \in Streams
  BY WorldFields
<1>2. st \in {"running", "asleep", "lost", "corrupt", "ended"}
  BY <1>1, ProcessFields
<1>3. t = [w EXCEPT !.s = g, !.p.state = st]
  BY DEF Discard
<1>7. g \in Streams
  BY <1>1, GivenFields
<1> HIDE DEF st, g
<1> DEFINE q == [w.p EXCEPT !.state = st]
<1>4. q \in Processes /\ q.state = st /\ q.written = w.p.written /\ q.log = w.p.log /\ q.eof = w.p.eof
  BY <1>1, <1>2 DEF Processes
<1>5. t = [w EXCEPT !.s = g, !.p = q]
  BY <1>3 DEF Worlds
<1> HIDE DEF q
<1>6. t \in Worlds /\ t.s = g /\ t.p = q /\ t.n = w.n /\ t.room = w.room /\ t.route = w.route
  BY <1>4, <1>5, <1>7 DEF Worlds
<1> QED BY <1>4, <1>6 DEF Freed, st, g

\* What is left of the stream
LEMMA FreedFields ==
  ASSUME NEW w \in Worlds, NEW t, Freed(w, t)
  PROVE  /\ ~t.s.use /\ ~t.s.notready /\ ~t.s.dead /\ ~t.s.closing /\ ~t.s.peerclosing
         /\ ~t.s.readsleep /\ ~t.s.writesleep /\ t.s.req = w.s.req /\ t.s.retries = w.s.retries
         /\ t.s.in = <<>> /\ t.s.out = <<>> /\ t.s.sent = 0 /\ t.s.data = <<>> /\ t.s.my = 0
         /\ t.s.peer = 0 /\ t.s = GivenBack(t.s)
<1>1. w.s \in Streams /\ t.s = GivenBack(w.s)
  BY WorldFields DEF Freed
<1> QED BY <1>1, GivenFields, GivenTwice

LEMMA DiscardHolds ==
  ASSUME NEW k, NEW l, NEW e \in Ends, NEW w, NEW y, NEW c, HoldsAt(k, l, e, w, y, c),
         c /\ y.s.use /\ ~y.s.closing => Complete(k, w, y), NEW t, t = Discard(w)
  PROVE  HoldsAt(k, l, e, t, y, c) /\ Freed(w, t)
<1>o. w.room = MaxPackets[Peer(e)] /\ (c => w.route) /\ k \in Firsts(e) /\ l \in Firsts(Peer(e))
  BY DEF HoldsAt
<1>a. /\ w \in Worlds /\ w.s \in Streams /\ w.p \in Processes /\ w.n \subseteq Packets
      /\ y \in Sides /\ y.s \in Streams /\ y.p \in Processes /\ y.n \subseteq Packets
      /\ c \in BOOLEAN
  BY DEF HoldsAt, Worlds, Sides
<1>b. /\ k \in Nat /\ l \in Nat /\ Len(Kept(w.s)) \in Nat /\ Len(Kept(y.s)) \in Nat
      /\ Wanted(k, y) \in Nat /\ Wanted(l, w) \in Nat /\ Arrival(w, y) \in Nat /\ Arrival(y, w) \in Nat
      /\ MaxBytes[e] \in Nat /\ MaxPackets[Peer(e)] \in Nat /\ BufferLen \in Nat /\ BufferLen >= 1
  BY Numbers
<1>c. Shape(e, w)
  BY DEF HoldsAt, GoodAt
<1>d. Manner(e, w)
  BY DEF HoldsAt, GoodAt
<1>e. Flow(k, e, w, y)
  BY DEF HoldsAt, GoodAt
<1>f. Fitting(k, e, w, y)
  BY DEF HoldsAt, GoodAt
<1>g. Endings(k, w, y, c)
  BY DEF HoldsAt, GoodAt
<1>h. Shape(Peer(e), y)
  BY DEF HoldsAt, GoodAt
<1>i. Manner(Peer(e), y)
  BY DEF HoldsAt, GoodAt
<1>j. Flow(l, Peer(e), y, w)
  BY DEF HoldsAt, GoodAt
<1>k. Fitting(l, Peer(e), y, w)
  BY DEF HoldsAt, GoodAt
<1>m. Endings(l, y, w, c)
  BY DEF HoldsAt, GoodAt
<1>n. Meeting(e, w, y, c)
  BY DEF HoldsAt, GoodAt
<1>1. Freed(w, t)
  BY <1>a, DiscardFields
<1>2. /\ ~t.s.use /\ ~t.s.notready /\ ~t.s.dead /\ ~t.s.closing /\ ~t.s.peerclosing
      /\ ~t.s.readsleep /\ ~t.s.writesleep
      /\ t.s.req = w.s.req /\ t.s.retries = w.s.retries /\ t.s.in = <<>> /\ t.s.out = <<>> /\ t.s.sent = 0
      /\ t.s.data = <<>> /\ t.s.my = 0 /\ t.s.peer = 0 /\ t.s = GivenBack(t.s)
  BY <1>1, <1>a, FreedFields
<1>3. Shape(e, t)
  <2>1. Len(t.s.in) <= BufferLen /\ Len(t.s.out) <= BufferLen /\ t.s.sent <= Len(t.s.out) /\ Len(t.s.data) <= 1
    <3>1. Len(<<>>) = 0 /\ 0 <= BufferLen
      BY <1>b
    <3> QED BY <1>2, <3>1
  <2>2. Run(t.s.out, Oldest(t))
    BY <1>2, EmptyRun
  <2>3. t.s.retries <= MaxResend
    BY <1>2, <1>c DEF Shape
  <2> QED BY <1>1, <1>2, <1>c, <2>1, <2>2, <2>3 DEF Shape, Freed
<1>4. Manner(e, t)
  BY <1>2, <1>d DEF Manner
<1>5. Flow(k, e, t, y)
  BY <1>2, <1>e DEF Flow
<1>6. Flow(l, Peer(e), y, t)
  BY <1>1, <1>2, <1>j DEF Flow, Freed
<1>7. Fitting(k, e, t, y)
  BY <1>1, <1>2, <1>f DEF Fitting, Fits, Freed
<1>8. Fitting(l, Peer(e), y, t)
  BY <1>2, <1>k DEF Fitting, Fits
<1>9. Endings(k, t, y, c)
  <2>1. Complete(k, w, y) => Complete(k, t, y)
    BY <1>1, <1>2 DEF Complete, Freed
  <2> QED BY <2>1, <1>2, <1>g DEF Endings
<1>10. Endings(l, y, t, c)
  BY <1>2, <1>m DEF Endings
<1>11. Meeting(e, t, y, c)
  <2>1. t.n = w.n
    BY <1>1 DEF Freed
  <2> QED BY <1>2, <1>n, <2>1 DEF Meeting, Handshake, HasReset, HasData
<1>12. t \in Worlds /\ t.room = w.room /\ t.route = w.route
  BY <1>1 DEF Freed
<1> QED
  BY <1>1, <1>3, <1>4, <1>5, <1>6, <1>7, <1>8, <1>9, <1>10, <1>11, <1>12, <1>o, <1>a, <1>h, <1>i
  DEF HoldsAt, GoodAt

\* Of a stream that is given back only its request is left.
LEMMA DiscardSame ==
  ASSUME NEW w \in Worlds, NEW x \in Worlds, x.p = w.p, x.n = w.n, x.room = w.room, x.route = w.route,
         x.s.req = w.s.req, x.s.retries = w.s.retries
  PROVE  Discard(x) = Discard(w)
<1>1. Freed(w, Discard(w)) /\ Freed(x, Discard(x))
  BY DiscardFields
<1> DEFINE t == Discard(w)
           u == Discard(x)
<1>2. t \in Worlds /\ u \in Worlds /\ t.s = u.s /\ t.n = u.n /\ t.room = u.room /\ t.route = u.route
  BY <1>1 DEF Freed, GivenBack
<1>3. t.p \in Processes /\ u.p \in Processes /\ t.p.written = u.p.written /\ t.p.log = u.p.log
      /\ t.p.eof = u.p.eof /\ t.p.state = u.p.state
  BY <1>1, <1>2, WorldFields DEF Freed
<1> HIDE DEF t, u
<1>4. t.p = u.p
  BY <1>3 DEF Processes
<1>5. t = u
  BY <1>2, <1>4 DEF Worlds
<1> QED BY <1>5 DEF t, u

-----------------------------------------------------------------------------
(* A new packet is kept. *)

LEMMA LinkHolds ==
  ASSUME NEW k, NEW l, NEW e \in Ends, NEW w, NEW y, NEW c, HoldsAt(k, l, e, w, y, c), w.s.use,
         ~w.s.notready, w.s.data = <<>>, NEW pkt \in y.n, pkt.kind = "data",
         pkt.number = w.s.peer + 1, NEW t, t = Link(w, pkt)
  PROVE  HoldsAt(k, l, e, t, y, c) /\ \E m, r : PeerSet(w, m, r, t)
<1>o. w.room = MaxPackets[Peer(e)] /\ (c => w.route) /\ k \in Firsts(e) /\ l \in Firsts(Peer(e))
  BY DEF HoldsAt
<1>a. /\ w \in Worlds /\ w.s \in Streams /\ w.p \in Processes /\ w.n \subseteq Packets
      /\ y \in Sides /\ y.s \in Streams /\ y.p \in Processes /\ y.n \subseteq Packets
      /\ c \in BOOLEAN
  BY DEF HoldsAt, Worlds, Sides
<1>b. /\ k \in Nat /\ l \in Nat /\ Len(Kept(w.s)) \in Nat /\ Len(Kept(y.s)) \in Nat
      /\ Wanted(k, y) \in Nat /\ Wanted(l, w) \in Nat /\ Arrival(w, y) \in Nat /\ Arrival(y, w) \in Nat
      /\ MaxBytes[e] \in Nat /\ MaxPackets[Peer(e)] \in Nat /\ BufferLen \in Nat /\ BufferLen >= 1
  BY Numbers
<1>c. Shape(e, w)
  BY DEF HoldsAt, GoodAt
<1>d. Manner(e, w)
  BY DEF HoldsAt, GoodAt
<1>e. Flow(k, e, w, y)
  BY DEF HoldsAt, GoodAt
<1>f. Fitting(k, e, w, y)
  BY DEF HoldsAt, GoodAt
<1>g. Endings(k, w, y, c)
  BY DEF HoldsAt, GoodAt
<1>h. Shape(Peer(e), y)
  BY DEF HoldsAt, GoodAt
<1>i. Manner(Peer(e), y)
  BY DEF HoldsAt, GoodAt
<1>j. Flow(l, Peer(e), y, w)
  BY DEF HoldsAt, GoodAt
<1>k. Fitting(l, Peer(e), y, w)
  BY DEF HoldsAt, GoodAt
<1>m. Endings(l, y, w, c)
  BY DEF HoldsAt, GoodAt
<1>n. Meeting(e, w, y, c)
  BY DEF HoldsAt, GoodAt
<1>1. /\ w.s.peer \in Nat /\ w.p.written \in Nat /\ Len(w.p.log) \in Nat /\ Len(w.s.in) \in Nat
      /\ y.s.my \in Nat /\ y.s.sent \in Nat /\ y.p.written \in Nat /\ Len(y.s.out) \in Nat
  BY <1>a, StreamFields, ProcessFields
<1>2. pkt \in Packets /\ pkt.number \in Nat /\ pkt.number >= 1 /\ pkt.load \in Seq(Nat) /\ Len(pkt.load) \in Nat
  <2>1. pkt \in Packets
    BY <1>a
  <2>2. pkt.load \in Seq(Nat) /\ pkt.number \in Nat
    BY <2>1 DEF Packets
  <2> QED BY <1>1, <2>1, <2>2
<1>3. Fits(l, Peer(e), pkt, y, w)
  BY <1>k DEF Fitting
<1> DEFINE r == IF "DATA" \in pkt.flags THEN <<pkt.load>> ELSE <<>>
           m == pkt.number
<1>4. t = [w EXCEPT !.s.peer = m, !.s.data = r]
  BY DEF Link
<1>5. m \in Nat /\ r \in Seq(Seq(Nat))
  BY <1>2
<1>6. /\ "DATA" \in pkt.flags => r # <<>> /\ Len(r) = 1 /\ r[1] = pkt.load
      /\ "DATA" \notin pkt.flags => r = <<>> /\ Len(r) = 0
  OBVIOUS
<1> HIDE DEF r, m
<1>7. PeerSet(w, m, r, t)
  BY <1>4, <1>5, <1>a, IsPeerSet
<1>8. t.s.peer = w.s.peer + 1 /\ t.s.peer >= 1 /\ t.s.peer \in Nat /\ t.s.peer # 0
  BY <1>1, <1>7 DEF PeerSet, m
<1>9. /\ "DATA" \in pkt.flags => t.s.data # <<>> /\ Len(t.s.data) = 1 /\ t.s.data[1] = pkt.load
                                 /\ Kept(t.s) = pkt.load
      /\ "DATA" \notin pkt.flags => t.s.data = <<>> /\ Len(t.s.data) = 0 /\ Kept(t.s) = <<>>
  BY <1>6, <1>7 DEF PeerSet, Kept
<1>10. "DATA" \in pkt.flags => /\ Len(pkt.load) \in 1 .. BufferLen /\ Run(pkt.load, Wanted(l, w))
                               /\ Wanted(l, w) + Len(pkt.load) - 1 <= y.p.written
  BY <1>3 DEF Fits
<1>11. "DATA" \in pkt.flags => ~Complete(l, y, w)
  <2>1. ASSUME NEW a \in Nat, NEW b \in Nat, NEW n \in Nat, n >= 1, a + n - 1 <= b PROVE a # b + 1
    BY <2>1
  <2>2. "DATA" \in pkt.flags => Len(pkt.load) >= 1
    BY <1>2, <1>10, <1>b
  <2> QED BY <1>1, <1>2, <1>b, <1>10, <2>1, <2>2 DEF Complete
<1>12. Oldest(t) = Oldest(w) /\ Arrival(t, y) = Arrival(w, y)
  BY <1>7 DEF PeerSet, Oldest, Arrival
<1>13. Wanted(l, w) = l + Len(w.p.log) + Len(w.s.in)
  <2>1. Len(Kept(w.s)) = 0
    BY DEF Kept
  <2>2. l + Len(w.p.log) + Len(w.s.in) + 0 = l + Len(w.p.log) + Len(w.s.in)
    <3>1. ASSUME NEW a1 \in Nat, NEW b1 \in Nat, NEW n1 \in Nat PROVE a1 + b1 + n1 + 0 = a1 + b1 + n1
      OBVIOUS
    <3>2. l \in Nat /\ Len(w.p.log) \in Nat /\ Len(w.s.in) \in Nat
      BY <1>1, <1>b
    <3> QED BY <3>1, <3>2
  <2> QED BY <2>1, <2>2 DEF Wanted
<1>14. Wanted(l, t) = Wanted(l, w) + Len(Kept(t.s))
  <2>1. Wanted(l, t) = l + Len(w.p.log) + Len(w.s.in) + Len(Kept(t.s))
    BY <1>7 DEF Wanted, PeerSet
  <2> QED BY <1>13, <2>1
<1>15. Shape(e, t)
  <2>1. Len(t.s.data) <= 1 /\ (t.s.data # <<>> => Len(t.s.data[1]) \in 1 .. BufferLen)
    <3>1. Len(t.s.data) = 0 \/ Len(t.s.data) = 1
      BY <1>9
    <3>4. t \in Worlds
      BY <1>7 DEF PeerSet
    <3>5. Len(t.s.data) \in Nat
      BY <3>4, WorldFields, StreamFields
    <3>6. \A a \in Nat : a = 0 \/ a = 1 => a <= 1
      OBVIOUS
    <3>2. Len(t.s.data) <= 1
      BY <3>1, <3>5, <3>6
    <3>3. t.s.data # <<>> => t.s.data[1] = pkt.load /\ Len(pkt.load) \in 1 .. BufferLen
      BY <1>9, <1>10
    <3> QED BY <3>2, <3>3
  <2> QED BY <1>7, <1>8, <1>12, <1>c, <2>1 DEF Shape, PeerSet
<1>16. Manner(e, t)
  BY <1>7, <1>d DEF Manner, PeerSet
<1>17. Flow(k, e, t, y)
  BY <1>7, <1>12, <1>e DEF Flow, PeerSet
<1>18. y.s.use => /\ t.s.peer = y.s.my /\ y.s.my # 0 /\ pkt.number = y.s.my /\ w.s.peer # y.s.my
                  /\ IF "DATA" \in pkt.flags THEN y.s.sent > 0 /\ Len(pkt.load) = y.s.sent
                     ELSE y.s.closing /\ (y.s.out = <<>> \/ y.s.peerclosing)
  <2> SUFFICES ASSUME y.s.use
               PROVE  /\ t.s.peer = y.s.my /\ y.s.my # 0 /\ pkt.number = y.s.my /\ w.s.peer # y.s.my
                      /\ IF "DATA" \in pkt.flags THEN y.s.sent > 0 /\ Len(pkt.load) = y.s.sent
                         ELSE y.s.closing /\ (y.s.out = <<>> \/ y.s.peerclosing)
    OBVIOUS
  <2>1. pkt.number <= y.s.my
    BY <1>3 DEF Fits
  <2>2. w.s.peer \in {y.s.my - 1, y.s.my}
    BY <1>j DEF Flow
  <2>3. pkt.number = y.s.my /\ w.s.peer # y.s.my /\ t.s.peer = y.s.my /\ y.s.my # 0
    BY <1>1, <1>8, <2>1, <2>2
  <2> QED BY <1>3, <2>3 DEF Fits
<1>19. Flow(l, Peer(e), y, t)
  <2>1. Run(Kept(t.s), l + Len(t.p.log) + Len(t.s.in))
    <3>1. CASE "DATA" \in pkt.flags
      BY <1>7, <1>9, <1>10, <1>13, <3>1 DEF PeerSet
    <3>2. CASE "DATA" \notin pkt.flags
      BY <1>9, <3>2, EmptyRun
    <3> QED BY <3>1, <3>2
  <2>2. y.s.use => Arrival(y, t) = y.s.sent /\ Arrival(y, w) = 0
    BY <1>18 DEF Arrival
  <2>3. y.s.use /\ ~y.s.peerclosing => Wanted(l, t) = Oldest(y) + Arrival(y, t)
    <3> SUFFICES ASSUME y.s.use, ~y.s.peerclosing PROVE Wanted(l, t) = Oldest(y) + Arrival(y, t)
      OBVIOUS
    <3>1. Wanted(l, w) = Oldest(y) + 0
      BY <2>2, <1>j DEF Flow
    <3>2. Oldest(y) \in Int
      BY <1>1 DEF Oldest
    <3>3. Wanted(l, w) = Oldest(y)
      BY <3>1, <3>2
    <3>4. Len(Kept(t.s)) = y.s.sent
      <4>1. CASE "DATA" \in pkt.flags
        BY <1>9, <1>18, <4>1
      <4>2. CASE "DATA" \notin pkt.flags
        <5>1. y.s.out = <<>>
          BY <1>18, <4>2
        <5>2. y.s.sent <= Len(y.s.out) /\ Len(y.s.out) = 0
          BY <5>1, <1>h DEF Shape
        <5>3. y.s.sent = 0
          BY <1>1, <5>2
        <5> QED BY <1>9, <4>2, <5>3
      <4> QED BY <4>1, <4>2
    <3> QED BY <1>14, <2>2, <3>3, <3>4
  <2>4. y.s.use => /\ t.s.peer \in {y.s.my - 1, y.s.my}
                   /\ t.s.peer = y.s.my /\ y.s.sent = 0 =>
                        \/ y.s.closing /\ (y.s.out = <<>> \/ y.s.peerclosing)
                        \/ y.s.my = Born(Peer(e))
                   /\ t.s.peer = y.s.my /\ t.s.data # <<>> => y.s.sent > 0
    BY <1>9, <1>18
  <2> QED BY <1>7, <1>8, <2>1, <2>3, <2>4, <1>j DEF Flow, PeerSet
<1>20. Fitting(k, e, t, y)
  <2> SUFFICES ASSUME NEW d \in t.n, d.kind = "data" PROVE Fits(k, e, d, t, y)
    BY DEF Fitting
  <2>1. Fits(k, e, d, w, y) /\ d \in Packets
    BY <1>7, <1>a, <1>f DEF Fitting, PeerSet
  <2>2. w.s.use => d.ack \in Nat /\ d.ack <= w.s.peer
    BY <2>1 DEF Fits, Packets
  <2>3. d.ack <= t.s.peer
    BY <1>1, <1>8, <2>2
  <2> QED BY <1>7, <2>1, <2>3 DEF Fits, PeerSet
<1>21. Fitting(l, Peer(e), y, t)
  <2> SUFFICES ASSUME NEW d \in y.n, d.kind = "data" PROVE Fits(l, Peer(e), d, y, t)
    BY DEF Fitting
  <2>1. Fits(l, Peer(e), d, y, w) /\ d \in Packets
    BY <1>a, <1>k DEF Fitting
  <2>2. d.number \in Nat /\ d.number <= w.s.peer + 1
    BY <2>1 DEF Fits, Packets
  <2>3. d.number <= t.s.peer + 1 /\ d.number # t.s.peer + 1
    BY <1>1, <1>8, <2>2
  <2> QED BY <1>7, <2>1, <2>3 DEF Fits, PeerSet
<1>22. Endings(k, t, y, c)
  <2>1. Complete(k, w, y) <=> Complete(k, t, y)
    BY <1>7 DEF Complete, PeerSet
  <2>2. HasReset(t) <=> HasReset(w)
    BY <1>7 DEF PeerSet, HasReset
  <2> QED BY <2>1, <2>2, <1>7, <1>g DEF PeerSet, Endings
<1>23. Endings(l, y, t, c)
  <2>1. Complete(l, y, w) => Complete(l, y, t)
    <3>1. CASE "DATA" \in pkt.flags
      BY <1>11, <3>1
    <3>2. CASE "DATA" \notin pkt.flags
      <4>1. Wanted(l, t) = Wanted(l, w)
        BY <1>7, <1>9, <3>2 DEF Wanted, PeerSet, Kept
      <4> QED BY <1>9, <3>2, <4>1 DEF Complete
    <3> QED BY <3>1, <3>2
  <2>2. HasReset(t) <=> HasReset(w)
    BY <1>7 DEF PeerSet, HasReset
  <2> QED BY <2>1, <2>2, <1>7, <1>m DEF PeerSet, Endings
<1>24. Meeting(e, t, y, c)
  BY <1>7, <1>n DEF Meeting, Handshake, HasReset, HasData, PeerSet
<1>25. t \in Worlds /\ t.room = w.room /\ t.route = w.route
  BY <1>7 DEF PeerSet
<1> QED
  BY <1>7, <1>15, <1>16, <1>17, <1>19, <1>20, <1>21, <1>22, <1>23, <1>24, <1>25, <1>o, <1>a, <1>h, <1>i
  DEF HoldsAt, GoodAt

-----------------------------------------------------------------------------
(* Records with a process and its sleeps changed *)

StateSet(w, b, t) ==
  /\ t \in Worlds /\ t.p.state = b
  /\ t.s.use = w.s.use /\ t.s.notready = w.s.notready /\ t.s.dead = w.s.dead /\ t.s.closing = w.s.closing
  /\ t.s.peerclosing = w.s.peerclosing /\ t.s.readsleep = w.s.readsleep /\ t.s.writesleep = w.s.writesleep /\ t.s.req = w.s.req
  /\ t.s.retries = w.s.retries /\ t.s.in = w.s.in /\ t.s.out = w.s.out /\ t.s.sent = w.s.sent
  /\ t.s.data = w.s.data /\ t.s.my = w.s.my /\ t.s.peer = w.s.peer /\ t.s.left = w.s.left
  /\ t.p.written = w.p.written /\ t.p.log = w.p.log /\ t.p.eof = w.p.eof
  /\ t.n = w.n /\ t.room = w.room /\ t.route = w.route

LEMMA IsStateSet ==
  ASSUME NEW w \in Worlds, NEW b \in {"running", "asleep", "lost", "corrupt", "ended"},
         NEW t, t = [w EXCEPT !.p.state = b]
  PROVE  StateSet(w, b, t)
  BY DEF Worlds, Streams, Processes, StateSet

LeftSet(w, m, t) ==
  /\ t \in Worlds /\ t.s.left = m
  /\ t.s.use = w.s.use /\ t.s.notready = w.s.notready /\ t.s.dead = w.s.dead /\ t.s.closing = w.s.closing
  /\ t.s.peerclosing = w.s.peerclosing /\ t.s.readsleep = w.s.readsleep /\ t.s.writesleep = w.s.writesleep /\ t.s.req = w.s.req
  /\ t.s.retries = w.s.retries /\ t.s.in = w.s.in /\ t.s.out = w.s.out /\ t.s.sent = w.s.sent
  /\ t.s.data = w.s.data /\ t.s.my = w.s.my /\ t.s.peer = w.s.peer
  /\ t.p = w.p
  /\ t.n = w.n /\ t.room = w.room /\ t.route = w.route

LEMMA IsLeftSet ==
  ASSUME NEW w \in Worlds, NEW m \in Nat,
         NEW t, t = [w EXCEPT !.s.left = m]
  PROVE  LeftSet(w, m, t)
  BY DEF Worlds, Streams, Processes, LeftSet

ReaderSet(w, b, t) ==
  /\ t \in Worlds /\ ~t.s.readsleep /\ t.p.eof = b
  /\ t.s.use = w.s.use /\ t.s.notready = w.s.notready /\ t.s.dead = w.s.dead /\ t.s.closing = w.s.closing
  /\ t.s.peerclosing = w.s.peerclosing /\ t.s.writesleep = w.s.writesleep /\ t.s.req = w.s.req /\ t.s.retries = w.s.retries
  /\ t.s.in = w.s.in /\ t.s.out = w.s.out /\ t.s.sent = w.s.sent /\ t.s.data = w.s.data
  /\ t.s.my = w.s.my /\ t.s.peer = w.s.peer /\ t.s.left = w.s.left
  /\ t.p.state = w.p.state /\ t.p.written = w.p.written /\ t.p.log = w.p.log
  /\ t.n = w.n /\ t.room = w.room /\ t.route = w.route

LEMMA IsReaderSet ==
  ASSUME NEW w \in Worlds, NEW b \in BOOLEAN,
         NEW t, t = [w EXCEPT !.s.readsleep = FALSE, !.p.eof = b]
  PROVE  ReaderSet(w, b, t)
  BY ZenonT(60) DEF Worlds, Streams, Processes, ReaderSet

WriterSet(w, b, t) ==
  /\ t \in Worlds /\ t.s.writesleep = b
  /\ t.s.use = w.s.use /\ t.s.notready = w.s.notready /\ t.s.dead = w.s.dead /\ t.s.closing = w.s.closing
  /\ t.s.peerclosing = w.s.peerclosing /\ t.s.readsleep = w.s.readsleep /\ t.s.req = w.s.req /\ t.s.retries = w.s.retries
  /\ t.s.in = w.s.in /\ t.s.out = w.s.out /\ t.s.sent = w.s.sent /\ t.s.data = w.s.data
  /\ t.s.my = w.s.my /\ t.s.peer = w.s.peer /\ t.s.left = w.s.left
  /\ t.p = w.p
  /\ t.n = w.n /\ t.room = w.room /\ t.route = w.route

LEMMA IsWriterSet ==
  ASSUME NEW w \in Worlds, NEW b \in BOOLEAN,
         NEW t, t = [w EXCEPT !.s.writesleep = b]
  PROVE  WriterSet(w, b, t)
  BY DEF Worlds, Streams, Processes, WriterSet

AnsweredSet(w, b, t) ==
  /\ t \in Worlds /\ t.s.req = "none" /\ t.p.state = b
  /\ t.s.use = w.s.use /\ t.s.notready = w.s.notready /\ t.s.dead = w.s.dead /\ t.s.closing = w.s.closing
  /\ t.s.peerclosing = w.s.peerclosing /\ t.s.readsleep = w.s.readsleep /\ t.s.writesleep = w.s.writesleep /\ t.s.retries = w.s.retries
  /\ t.s.in = w.s.in /\ t.s.out = w.s.out /\ t.s.sent = w.s.sent /\ t.s.data = w.s.data
  /\ t.s.my = w.s.my /\ t.s.peer = w.s.peer /\ t.s.left = w.s.left
  /\ t.p.written = w.p.written /\ t.p.log = w.p.log /\ t.p.eof = w.p.eof
  /\ t.n = w.n /\ t.room = w.room /\ t.route = w.route

LEMMA IsAnsweredSet ==
  ASSUME NEW w \in Worlds, NEW b \in {"running", "asleep", "lost", "corrupt", "ended"},
         NEW t, t = [w EXCEPT !.s.req = "none", !.p.state = b]
  PROVE  AnsweredSet(w, b, t)
  BY DEF Worlds, Streams, Processes, AnsweredSet

ReadSleepSet(w, m, t) ==
  /\ t \in Worlds /\ t.p.state = "asleep" /\ t.s.left = m /\ t.s.readsleep
  /\ t.s.use = w.s.use /\ t.s.notready = w.s.notready /\ t.s.dead = w.s.dead /\ t.s.closing = w.s.closing
  /\ t.s.peerclosing = w.s.peerclosing /\ t.s.writesleep = w.s.writesleep /\ t.s.req = w.s.req /\ t.s.retries = w.s.retries
  /\ t.s.in = w.s.in /\ t.s.out = w.s.out /\ t.s.sent = w.s.sent /\ t.s.data = w.s.data
  /\ t.s.my = w.s.my /\ t.s.peer = w.s.peer
  /\ t.p.written = w.p.written /\ t.p.log = w.p.log /\ t.p.eof = w.p.eof
  /\ t.n = w.n /\ t.room = w.room /\ t.route = w.route

LEMMA IsReadSleepSet ==
  ASSUME NEW w \in Worlds, NEW m \in Nat,
         NEW t, t = [w EXCEPT !.p.state = "asleep", !.s.left = m, !.s["readsleep"] = TRUE]
  PROVE  ReadSleepSet(w, m, t)
  BY DEF Worlds, Streams, Processes, ReadSleepSet

WriteSleepSet(w, m, t) ==
  /\ t \in Worlds /\ t.p.state = "asleep" /\ t.s.left = m /\ t.s.writesleep
  /\ t.s.use = w.s.use /\ t.s.notready = w.s.notready /\ t.s.dead = w.s.dead /\ t.s.closing = w.s.closing
  /\ t.s.peerclosing = w.s.peerclosing /\ t.s.readsleep = w.s.readsleep /\ t.s.req = w.s.req /\ t.s.retries = w.s.retries
  /\ t.s.in = w.s.in /\ t.s.out = w.s.out /\ t.s.sent = w.s.sent /\ t.s.data = w.s.data
  /\ t.s.my = w.s.my /\ t.s.peer = w.s.peer
  /\ t.p.written = w.p.written /\ t.p.log = w.p.log /\ t.p.eof = w.p.eof
  /\ t.n = w.n /\ t.room = w.room /\ t.route = w.route

LEMMA IsWriteSleepSet ==
  ASSUME NEW w \in Worlds, NEW m \in Nat,
         NEW t, t = [w EXCEPT !.p.state = "asleep", !.s.left = m, !.s["writesleep"] = TRUE]
  PROVE  WriteSleepSet(w, m, t)
  BY DEF Worlds, Streams, Processes, WriteSleepSet

MySet(w, m, t) ==
  /\ t \in Worlds /\ t.s.my = m
  /\ t.s.use = w.s.use /\ t.s.notready = w.s.notready /\ t.s.dead = w.s.dead /\ t.s.closing = w.s.closing
  /\ t.s.peerclosing = w.s.peerclosing /\ t.s.readsleep = w.s.readsleep /\ t.s.writesleep = w.s.writesleep /\ t.s.req = w.s.req
  /\ t.s.retries = w.s.retries /\ t.s.in = w.s.in /\ t.s.out = w.s.out /\ t.s.sent = w.s.sent
  /\ t.s.data = w.s.data /\ t.s.peer = w.s.peer /\ t.s.left = w.s.left
  /\ t.p = w.p
  /\ t.n = w.n /\ t.room = w.room /\ t.route = w.route

LEMMA IsMySet ==
  ASSUME NEW w \in Worlds, NEW m \in Nat,
         NEW t, t = [w EXCEPT !.s.my = m]
  PROVE  MySet(w, m, t)
  BY DEF Worlds, Streams, Processes, MySet

EndedSet(w, b, t) ==
  /\ t \in Worlds /\ ~t.s.readsleep /\ ~t.s.writesleep /\ t.s.req = b
  /\ t.s.use = w.s.use /\ t.s.notready = w.s.notready /\ t.s.dead = w.s.dead /\ t.s.closing = w.s.closing
  /\ t.s.peerclosing = w.s.peerclosing /\ t.s.retries = w.s.retries /\ t.s.in = w.s.in /\ t.s.out = w.s.out
  /\ t.s.sent = w.s.sent /\ t.s.data = w.s.data /\ t.s.my = w.s.my /\ t.s.peer = w.s.peer
  /\ t.s.left = w.s.left
  /\ t.p = w.p
  /\ t.n = w.n /\ t.room = w.room /\ t.route = w.route

LEMMA IsEndedSet ==
  ASSUME NEW w \in Worlds, NEW b \in {"none", "sent", "stale"},
         NEW t, t = [w EXCEPT !.s.readsleep = FALSE, !.s.writesleep = FALSE, !.s.req = b]
  PROVE  EndedSet(w, b, t)
  BY DEF Worlds, Streams, Processes, EndedSet

RetriesSet(w, m, t) ==
  /\ t \in Worlds /\ t.s.retries = m
  /\ t.s.use = w.s.use /\ t.s.notready = w.s.notready /\ t.s.dead = w.s.dead /\ t.s.closing = w.s.closing
  /\ t.s.peerclosing = w.s.peerclosing /\ t.s.readsleep = w.s.readsleep /\ t.s.writesleep = w.s.writesleep /\ t.s.req = w.s.req
  /\ t.s.in = w.s.in /\ t.s.out = w.s.out /\ t.s.sent = w.s.sent /\ t.s.data = w.s.data
  /\ t.s.my = w.s.my /\ t.s.peer = w.s.peer /\ t.s.left = w.s.left
  /\ t.p = w.p
  /\ t.n = w.n /\ t.room = w.room /\ t.route = w.route

LEMMA IsRetriesSet ==
  ASSUME NEW w \in Worlds, NEW m \in Nat,
         NEW t, t = [w EXCEPT !.s.retries = m]
  PROVE  RetriesSet(w, m, t)
  BY DEF Worlds, Streams, Processes, RetriesSet

EofSet(w, b, t) ==
  /\ t \in Worlds /\ t.p.eof = b
  /\ t.s.use = w.s.use /\ t.s.notready = w.s.notready /\ t.s.dead = w.s.dead /\ t.s.closing = w.s.closing
  /\ t.s.peerclosing = w.s.peerclosing /\ t.s.readsleep = w.s.readsleep /\ t.s.writesleep = w.s.writesleep /\ t.s.req = w.s.req
  /\ t.s.retries = w.s.retries /\ t.s.in = w.s.in /\ t.s.out = w.s.out /\ t.s.sent = w.s.sent
  /\ t.s.data = w.s.data /\ t.s.my = w.s.my /\ t.s.peer = w.s.peer /\ t.s.left = w.s.left
  /\ t.p.state = w.p.state /\ t.p.written = w.p.written /\ t.p.log = w.p.log
  /\ t.n = w.n /\ t.room = w.room /\ t.route = w.route

LEMMA IsEofSet ==
  ASSUME NEW w \in Worlds, NEW b \in BOOLEAN,
         NEW t, t = [w EXCEPT !.p.eof = b]
  PROVE  EofSet(w, b, t)
  BY DEF Worlds, Streams, Processes, EofSet


-----------------------------------------------------------------------------
(* The process of an end is woken. *)

LEMMA WakeFields ==
  ASSUME NEW w \in Worlds, NEW t, t = Wake(w)
  PROVE  \E b \in {"running", "corrupt"} : StateSet(w, b, t)
<1> DEFINE b == IF w.p.state = "asleep" THEN "running" ELSE "corrupt"
<1>1. b \in {"running", "corrupt"} /\ t = [w EXCEPT !.p.state = b]
  BY DEF Wake
<1> HIDE DEF b
<1>2. StateSet(w, b, t)
  BY <1>1, IsStateSet
<1> QED BY <1>1, <1>2

LEMMA QuietTwice ==
  ASSUME NEW w, NEW u, NEW t, Quiet(w, u), Quiet(u, t)
  PROVE  Quiet(w, t)
  BY DEF Quiet

\* A step on the record of a handler that changes the state of the process,
\* its sleep and what is left of it, and nothing else
LEMMA QuietChange ==
  ASSUME NEW k, NEW l, NEW e \in Ends, NEW w, NEW y, NEW c, HoldsAt(k, l, e, w, y, c), w.s.use,
         NEW t, Quiet(w, t), Manner(e, t), t.s.req = w.s.req,
         t.p.eof => w.p.eof \/ (c /\ w.s.use /\ ~w.s.closing => Complete(l, y, w) /\ w.s.in = <<>>)
  PROVE  HoldsAt(k, l, e, t, y, c)
<1>n. Meeting(e, w, y, c)
  BY DEF HoldsAt, GoodAt
<1>1. Meeting(e, t, y, c)
  BY <1>n DEF Meeting, Handshake, HasReset, HasData, Quiet
<1> QED BY <1>1, QuietHolds

LEMMA WakeHolds ==
  ASSUME NEW k, NEW l, NEW e \in Ends, NEW w, NEW y, NEW c, HoldsAt(k, l, e, w, y, c), w.s.use,
         ~w.s.readsleep, w.s.writesleep => w.s.dead \/ w.s.peerclosing, NEW t, t = Wake(w)
  PROVE  HoldsAt(k, l, e, t, y, c) /\ \E b \in {"running", "corrupt"} : StateSet(w, b, t)
<1>a. /\ w \in Worlds /\ w.s \in Streams /\ w.p \in Processes /\ w.n \subseteq Packets
      /\ y \in Sides /\ y.s \in Streams /\ y.p \in Processes /\ y.n \subseteq Packets
      /\ c \in BOOLEAN
  BY DEF HoldsAt, Worlds, Sides
<1>c. Shape(e, w)
  BY DEF HoldsAt, GoodAt
<1>d. Manner(e, w)
  BY DEF HoldsAt, GoodAt
<1>1. PICK b \in {"running", "corrupt"} : StateSet(w, b, t)
  BY <1>a, WakeFields
<1>2. w.s.retries <= MaxResend
  BY <1>c DEF Shape
<1>3. Quiet(w, t)
  BY <1>1, <1>2 DEF Quiet, StateSet
<1>4. Manner(e, t)
  BY <1>1, <1>d DEF Manner, StateSet
<1>5. t.s.req = w.s.req /\ t.p.eof = w.p.eof
  BY <1>1 DEF StateSet
<1> QED BY <1>1, <1>3, <1>4, <1>5, QuietChange
-----------------------------------------------------------------------------
(* A reader gets what there is. *)

\* What serving a process that sleeps leaves as it is, and what it has done
\* if that process sleeps still
ReaderFed(w, t) ==
  /\ t \in Worlds
  /\ t.s.use = w.s.use /\ t.s.notready = w.s.notready /\ t.s.dead = w.s.dead /\ t.s.closing = w.s.closing
  /\ t.s.peerclosing = w.s.peerclosing /\ t.s.req = w.s.req /\ t.route = w.route
  /\ t.p.state \in {"asleep", "lost"} =>
       /\ t.p.state = w.p.state /\ t.s.readsleep = w.s.readsleep /\ t.s.writesleep = w.s.writesleep
       /\ w.s.dead => ~w.s.readsleep

LEMMA FeedReaderHolds ==
  ASSUME NEW k, NEW l, NEW e \in Ends, NEW w, NEW y, NEW c, HoldsAt(k, l, e, w, y, c), w.s.use,
         w.s.readsleep, NEW t, t = FeedReader(w)
  PROVE  HoldsAt(k, l, e, t, y, c) /\ ReaderFed(w, t)
<1>a. /\ w \in Worlds /\ w.s \in Streams /\ w.p \in Processes /\ w.n \subseteq Packets
      /\ y \in Sides /\ y.s \in Streams /\ y.p \in Processes /\ y.n \subseteq Packets
      /\ c \in BOOLEAN
  BY DEF HoldsAt, Worlds, Sides
<1>c. Shape(e, w)
  BY DEF HoldsAt, GoodAt
<1>1. Len(w.s.in) \in Nat /\ w.s.left \in Nat
  BY SMTT(40), <1>a, StreamFields
<1> DEFINE n == Least(w.s.left, Len(w.s.in))
           u == Consume(w, n)
           m == u.s.left - n
           x == [u EXCEPT !.s.left = m]
           v == Wake(x)
           f == v.p.eof \/ ~(x.s.left = 0)
<1>2. t = IF x.s.left = 0 \/ w.s.dead THEN [v EXCEPT !.s.readsleep = FALSE, !.p.eof = f] ELSE x
  BY DEF FeedReader
<1>3. n \in Nat /\ n <= Len(w.s.in) /\ n <= w.s.left /\ (n = w.s.left \/ n = Len(w.s.in))
  BY <1>1 DEF Least
<1> HIDE DEF n
<1>4. HoldsAt(k, l, e, u, y, c) /\ Consumed(l, w, n, u)
  BY <1>3, ConsumeHolds
<1> HIDE DEF u
<1>5. m \in Nat /\ m = w.s.left - n /\ u \in Worlds
  BY SMTT(40), <1>1, <1>3, <1>4 DEF Consumed
<1> HIDE DEF m
<1>6. LeftSet(u, m, x)
  BY <1>5, IsLeftSet
<1> HIDE DEF x
<1>7. x \in Worlds /\ x.s.left = m
  BY <1>6 DEF LeftSet
<1>8. PICK b \in {"running", "corrupt"} : StateSet(x, b, v)
  BY <1>7, WakeFields
<1> HIDE DEF v
<1>9. /\ u.s.retries <= MaxResend /\ u.s.use /\ u.s.readsleep /\ u.s.req = w.s.req /\ u.s.dead = w.s.dead
  BY <1>3, <1>4, <1>c DEF Consumed, Shape
<1>10. Manner(e, u)
  BY <1>4 DEF HoldsAt, GoodAt
<1>11. CASE ~(x.s.left = 0 \/ w.s.dead)
  <2>1. t = x
    BY <1>2, <1>11
  <2>2. Quiet(u, x)
    BY <1>6, <1>9 DEF Quiet, LeftSet
  <2>3. Manner(e, x)
    BY <1>6, <1>9, <1>10 DEF Manner, LeftSet
  <2>4. HoldsAt(k, l, e, x, y, c)
    <3>1. x.s.req = u.s.req /\ x.p.eof = u.p.eof
      BY <1>6 DEF LeftSet
    <3> QED BY <1>4, <1>9, <2>2, <2>3, <3>1, QuietChange
  <2>5. ReaderFed(w, x)
    BY <1>4, <1>6, <1>11 DEF ReaderFed, LeftSet, Consumed
  <2> QED BY <2>1, <2>4, <2>5
<1>12. CASE x.s.left = 0 \/ w.s.dead
  <2>1. v \in Worlds /\ f \in BOOLEAN /\ v.p.eof = u.p.eof
    BY <1>6, <1>8 DEF StateSet, LeftSet
  <2>2. f => u.p.eof \/ ~(m = 0)
    BY <1>7, <2>1
  <2>9. u.p.eof => f
    BY <2>1
  <2> HIDE DEF f
  <2>3. t = [v EXCEPT !.s.readsleep = FALSE, !.p.eof = f]
    BY <1>2, <1>12
  <2>4. ReaderSet(v, f, t)
    BY <2>1, <2>3, IsReaderSet
  <2>5. Quiet(u, t)
    <3>1. Quiet(u, x)
      BY <1>6, <1>9 DEF Quiet, LeftSet
    <3>2. x.s.use /\ x.s.retries <= MaxResend
      BY <1>6, <1>9 DEF LeftSet
    <3>3. Quiet(x, v)
      BY <1>8, <3>2 DEF Quiet, StateSet
    <3>4. v.s.use /\ v.s.retries <= MaxResend
      BY <1>8, <3>2 DEF StateSet
    <3>5. Quiet(v, t)
      BY <2>4, <3>4 DEF Quiet, ReaderSet
    <3>6. Quiet(u, v)
      BY <3>1, <3>3, QuietTwice
    <3> QED BY <3>5, <3>6, QuietTwice
  <2>6. Manner(e, t)
    <3>1. f => w.s.dead \/ u.p.eof
      BY <1>7, <1>12, <2>2
    <3>2. /\ t.s.use = u.s.use /\ t.s.notready = u.s.notready /\ t.s.dead = u.s.dead
          /\ t.s.closing = u.s.closing /\ t.s.peerclosing = u.s.peerclosing /\ t.s.req = u.s.req
          /\ ~t.s.readsleep /\ t.s.writesleep = u.s.writesleep /\ t.p.state = b /\ t.p.eof = f
      BY <1>6, <1>8, <2>4 DEF LeftSet, StateSet, ReaderSet
    <3> QED BY <1>9, <1>10, <3>1, <3>2 DEF Manner
  <2>7. t.p.eof => u.p.eof \/ (c /\ u.s.use /\ ~u.s.closing => Complete(l, y, u) /\ u.s.in = <<>>)
    <3>1. Endings(l, y, u, c)
      BY <1>4 DEF HoldsAt, GoodAt
    <3>2. ASSUME ~(m = 0) PROVE u.s.in = <<>> /\ u.s.dead
      <4>1. n = Len(w.s.in) /\ w.s.dead
        BY <1>1, <1>3, <1>5, <1>7, <1>12, <3>2
      <4>2. Len(u.s.in) = 0
        BY <1>1, <1>4, <4>1 DEF Consumed
      <4>3. u.s.in \in Seq(Nat)
        BY <1>5, WorldFields, StreamFields
      <4> QED BY <1>9, <4>1, <4>2, <4>3
    <3>3. t.p.eof = f
      BY <2>4 DEF ReaderSet
    <3> QED BY <2>2, <3>1, <3>2, <3>3 DEF Endings
  <2>8. HoldsAt(k, l, e, t, y, c)
    <3>1. t.s.req = u.s.req
      BY <1>6, <1>8, <2>4 DEF LeftSet, StateSet, ReaderSet
    <3> QED BY <1>4, <1>9, <2>5, <2>6, <2>7, <3>1, QuietChange
  <2>10. ReaderFed(w, t)
    <3>1. t.p.state = v.p.state /\ v.p.state = b /\ b \notin {"asleep", "lost"}
      BY <1>8, <2>4 DEF StateSet, ReaderSet
    <3>2. t \in Worlds
      BY <2>4 DEF ReaderSet
    <3>3. /\ t.s.use = v.s.use /\ t.s.notready = v.s.notready /\ t.s.dead = v.s.dead /\ t.s.closing = v.s.closing
          /\ t.s.peerclosing = v.s.peerclosing /\ t.s.req = v.s.req /\ t.route = v.route
      BY <2>4 DEF ReaderSet
    <3>4. /\ v.s.use = x.s.use /\ v.s.notready = x.s.notready /\ v.s.dead = x.s.dead /\ v.s.closing = x.s.closing
          /\ v.s.peerclosing = x.s.peerclosing /\ v.s.req = x.s.req /\ v.route = x.route
      BY <1>8 DEF StateSet
    <3>5. /\ x.s.use = w.s.use /\ x.s.notready = w.s.notready /\ x.s.dead = w.s.dead /\ x.s.closing = w.s.closing
          /\ x.s.peerclosing = w.s.peerclosing /\ x.s.req = w.s.req /\ x.route = w.route
      BY <1>4, <1>6 DEF LeftSet, Consumed
    <3>6. t.p.state \notin {"asleep", "lost"}
      BY <3>1
    <3> QED BY <3>2, <3>3, <3>4, <3>5, <3>6 DEF ReaderFed
  <2> QED BY <2>8, <2>10
<1> QED BY <1>11, <1>12

-----------------------------------------------------------------------------
(* A writer's bytes go to the out buffer. *)

LEMMA EqualWorlds ==
  ASSUME NEW w \in Worlds, NEW t \in Worlds, t.s = w.s, t.p = w.p, t.n = w.n, t.room = w.room,
         t.route = w.route
  PROVE  t = w
  BY DEF Worlds

LEMMA EqualProcesses ==
  ASSUME NEW p \in Processes, NEW q \in Processes,
         p.state = q.state, p.written = q.written, p.log = q.log, p.eof = q.eof
  PROVE  p = q
  BY DEF Processes

LEMMA LeftBeforeAccept ==
  ASSUME NEW w \in Worlds, NEW n \in Nat, NEW m \in Nat, Run(w.s.out, Oldest(w)),
         NEW v, v = [w EXCEPT !.s.left = m], NEW u, u = Accept(w, n)
  PROVE  [u EXCEPT !.s.left = m] = Accept(v, n)
<1> DEFINE x == [u EXCEPT !.s.left = m]
           z == Accept(v, n)
<1>1. LeftSet(w, m, v) /\ Accepted(w, n, u)
  BY IsLeftSet, AcceptFields
<1>2. Oldest(v) = Oldest(w) /\ v.s.out = w.s.out /\ v \in Worlds /\ u \in Worlds
      /\ v.p.written = w.p.written
  BY <1>1 DEF LeftSet, Accepted, Oldest
<1>3. LeftSet(u, m, x) /\ Accepted(v, n, z)
  BY <1>2, IsLeftSet, AcceptFields
<1>4. x.s.out = z.s.out
  <2> DEFINE F(a) == [i \in 1 .. n |-> a + i]
  <2>1. \A r : Accept(r, n) = [r EXCEPT !.s.out = r.s.out \o F(r.p.written), !.p.written = r.p.written + n]
    BY DEF Accept
  <2> HIDE DEF F
  <2>2. \A r \in Worlds : Accept(r, n).s.out = r.s.out \o F(r.p.written)
    <3> SUFFICES ASSUME NEW r \in Worlds PROVE Accept(r, n).s.out = r.s.out \o F(r.p.written)
      OBVIOUS
    <3> DEFINE a == r.s.out \o F(r.p.written)
               b == r.p.written + n
    <3>2. Accept(r, n) = [r EXCEPT !.s.out = a, !.p.written = b]
      BY <2>1
    <3>3. Accept(r, n).s.out = a
      <4> HIDE DEF a, b
      <4> QED BY <3>2 DEF Worlds, Streams
    <3> QED BY <3>3
  <2>3. z.s.out = w.s.out \o F(w.p.written) /\ u.s.out = w.s.out \o F(w.p.written)
    BY <1>2, <2>2
  <2>4. x.s.out = u.s.out
    BY <1>3 DEF LeftSet
  <2> QED BY <2>3, <2>4
<1> HIDE DEF x, z
<1>5. x \in Worlds /\ z \in Worlds /\ x.s \in Streams /\ z.s \in Streams /\ x.p \in Processes /\ z.p \in Processes
  BY <1>3, WorldFields DEF LeftSet, Accepted
<1>6. x.s = z.s
  BY SMTT(40), <1>1, <1>3, <1>4, <1>5, EqualStreams DEF LeftSet, Accepted
<1>7. x.p = z.p
  <2>1. x.p = u.p /\ v.p = w.p
    BY <1>1, <1>3 DEF LeftSet
  <2>2. u.p.state = w.p.state /\ u.p.log = w.p.log /\ u.p.eof = w.p.eof /\ u.p.written = w.p.written + n
    BY <1>1 DEF Accepted
  <2>3. z.p.state = v.p.state /\ z.p.log = v.p.log /\ z.p.eof = v.p.eof /\ z.p.written = v.p.written + n
    BY <1>3 DEF Accepted
  <2> QED BY <1>5, <2>1, <2>2, <2>3, EqualProcesses
<1>8. x.n = z.n /\ x.room = z.room /\ x.route = z.route
  BY <1>1, <1>3 DEF LeftSet, Accepted
<1>9. x = z
  BY <1>5, <1>6, <1>7, <1>8, EqualWorlds
<1> QED BY <1>9 DEF x, z

LEMMA FeedWriterHolds ==
  ASSUME NEW k, NEW l, NEW e \in Ends, NEW w, NEW y, NEW c, HoldsAt(k, l, e, w, y, c), w.s.use,
         w.s.writesleep, ~w.s.readsleep, ~w.s.notready, ~w.s.dead, ~w.s.peerclosing,
         NEW t, t = FeedWriter(w)
  PROVE  HoldsAt(k, l, e, t, y, c) /\ ReaderFed(w, t)
<1>a. /\ w \in Worlds /\ w.s \in Streams /\ w.p \in Processes /\ w.n \subseteq Packets
      /\ y \in Sides /\ y.s \in Streams /\ y.p \in Processes /\ y.n \subseteq Packets
      /\ c \in BOOLEAN
  BY DEF HoldsAt, Worlds, Sides
<1>b. /\ k \in Nat /\ l \in Nat /\ Len(Kept(w.s)) \in Nat /\ Len(Kept(y.s)) \in Nat
      /\ Wanted(k, y) \in Nat /\ Wanted(l, w) \in Nat /\ Arrival(w, y) \in Nat /\ Arrival(y, w) \in Nat
      /\ MaxBytes[e] \in Nat /\ MaxPackets[Peer(e)] \in Nat /\ BufferLen \in Nat /\ BufferLen >= 1
  BY Numbers
<1>c. Shape(e, w)
  BY DEF HoldsAt, GoodAt
<1>d. Manner(e, w)
  BY DEF HoldsAt, GoodAt
<1>1. Len(w.s.out) \in Nat /\ w.s.left \in Nat /\ w.p.written \in Nat
  BY <1>a, StreamFields, ProcessFields
<1> DEFINE n == Least(w.s.left, Room(w.s))
           u == Accept(w, n)
           m == w.s.left - n
           v == [w EXCEPT !.s.left = m]
           x == [u EXCEPT !.s.left = m]
           z == Wake(x)
<1>2. Room(w.s) \in Nat
  <2>1. Len(w.s.out) <= BufferLen
    BY <1>c DEF Shape
  <2> QED BY <1>1, <1>b, <2>1 DEF Room
<1>3. n \in Nat /\ n <= w.s.left /\ n <= Room(w.s)
  BY <1>1, <1>2 DEF Least
<1>4. ~w.s.closing /\ w.s.req = "none" /\ w.p.written + w.s.left <= MaxBytes[e]
  <2>1. w.s.req = "none"
    BY <1>d DEF Manner
  <2> QED BY <1>d, <2>1 DEF Manner
<1>5. u.s.left = w.s.left
  <2>1. Run(w.s.out, Oldest(w))
    BY <1>c DEF Shape
  <2>2. Accepted(w, n, u)
    BY <1>3, <1>a, <2>1, AcceptFields
  <2> QED BY <2>2 DEF Accepted
<1>6. t = IF x.s.left = 0 THEN [z EXCEPT !.s.writesleep = FALSE] ELSE x
  BY <1>5 DEF FeedWriter
<1> HIDE DEF n
<1>7. m \in Nat /\ m + n = w.s.left
  BY <1>1, <1>3
<1> HIDE DEF m
<1>8. x = Accept(v, n)
  <2>1. Run(w.s.out, Oldest(w))
    BY <1>c DEF Shape
  <2> QED BY <1>3, <1>7, <1>a, <2>1, LeftBeforeAccept
<1> HIDE DEF x, u
<1>9. LeftSet(w, m, v)
  BY <1>7, <1>a, IsLeftSet
<1> HIDE DEF v
<1>f. /\ w.p.written + m <= MaxBytes[e] /\ w.p.written + n <= MaxBytes[e]
      /\ w.p.written + n + m <= MaxBytes[e]
  <2>1. /\ w.p.written \in Nat /\ m \in Nat /\ n \in Nat /\ w.s.left \in Nat /\ MaxBytes[e] \in Nat
        /\ w.p.written + w.s.left <= MaxBytes[e] /\ m + n = w.s.left
    BY <1>1, <1>3, <1>4, <1>7, <1>b, Zenon
  <2> QED BY <2>1, SMTT(40)
<1>10. HoldsAt(k, l, e, v, y, c)
  <2>1. w.s.retries <= MaxResend
    BY <1>c DEF Shape
  <2>2. Quiet(w, v)
    BY <1>9, <2>1 DEF Quiet, LeftSet
  <2>3. w.p.written + m <= MaxBytes[e]
    BY <1>f
  <2>4. Manner(e, v)
    BY <1>9, <1>4, <1>d, <2>3 DEF Manner, LeftSet
  <2>5. v.s.req = w.s.req /\ v.p.eof = w.p.eof
    BY <1>9 DEF LeftSet
  <2> QED BY <2>2, <2>4, <2>5, QuietChange
<1>11. HoldsAt(k, l, e, x, y, c) /\ Accepted(v, n, x)
  <2>1. n <= Room(v.s)
    BY <1>3, <1>9 DEF Room, LeftSet
  <2>2. v.p.written + n <= MaxBytes[e]
    <3>1. v.p.written = w.p.written
      BY <1>9 DEF LeftSet
    <3> QED BY <1>f, <3>1
  <2>3. v.p.written + n + v.s.left <= MaxBytes[e]
    <3>1. v.p.written = w.p.written /\ v.s.left = m
      BY <1>9 DEF LeftSet
    <3> QED BY <1>f, <3>1
  <2>4. v.s.use /\ ~v.s.notready /\ ~v.s.dead /\ ~v.s.closing
    BY <1>4, <1>9 DEF LeftSet
  <2>5. HoldsAt(k, l, e, x, y, c)
    BY <1>3, <1>8, <1>10, <2>1, <2>2, <2>3, <2>4, AcceptHolds
  <2>6. Accepted(v, n, x)
    <3>1. v \in Worlds /\ Run(v.s.out, Oldest(v))
      BY <1>10 DEF HoldsAt, GoodAt, Shape
    <3> QED BY <1>3, <1>8, <3>1, AcceptFields
  <2> QED BY <2>5, <2>6
<1>12. /\ x \in Worlds
       /\ x.s.use = w.s.use /\ x.s.notready = w.s.notready /\ x.s.dead = w.s.dead /\ x.s.closing = w.s.closing
       /\ x.s.peerclosing = w.s.peerclosing /\ x.s.req = w.s.req /\ x.route = w.route
       /\ x.p.state = w.p.state /\ x.s.readsleep = w.s.readsleep /\ x.s.writesleep = w.s.writesleep
  BY <1>9, <1>11 DEF LeftSet, Accepted
<1>13. CASE x.s.left # 0
  <2>1. t = x
    BY <1>6, <1>13
  <2>2. ReaderFed(w, x)
    BY <1>12 DEF ReaderFed
  <2> QED BY <1>11, <2>1, <2>2
<1>14. CASE x.s.left = 0
  <2>1. PICK b \in {"running", "corrupt"} : StateSet(x, b, z)
    BY <1>12, WakeFields
  <2> HIDE DEF z
  <2>2. z \in Worlds
    BY <2>1 DEF StateSet
  <2>3. WriterSet(z, FALSE, t)
    BY <1>6, <1>14, <2>2, IsWriterSet
  <2>4. Quiet(x, t)
    <3>1. x.s.use /\ x.s.retries <= MaxResend
      BY <1>11, <1>12 DEF HoldsAt, GoodAt, Shape
    <3>2. Quiet(x, z)
      BY <2>1, <3>1 DEF Quiet, StateSet
    <3>3. z.s.use /\ z.s.retries <= MaxResend
      BY <2>1, <3>1 DEF StateSet
    <3>4. Quiet(z, t)
      BY <2>3, <3>3 DEF Quiet, WriterSet
    <3> QED BY <3>2, <3>4, QuietTwice
  <2>5. /\ t \in Worlds
        /\ t.s.use = x.s.use /\ t.s.notready = x.s.notready /\ t.s.dead = x.s.dead /\ t.s.closing = x.s.closing
        /\ t.s.peerclosing = x.s.peerclosing /\ t.s.req = x.s.req /\ t.route = x.route
        /\ t.p.state = b /\ t.s.readsleep = x.s.readsleep /\ ~t.s.writesleep /\ t.p.eof = x.p.eof
    BY <2>1, <2>3 DEF StateSet, WriterSet
  <2>6. Manner(e, x)
    BY <1>11 DEF HoldsAt, GoodAt
  <2>7. Manner(e, t)
    BY <1>12, <2>5, <2>6 DEF Manner
  <2>8. HoldsAt(k, l, e, t, y, c)
    BY <1>11, <1>12, <2>4, <2>5, <2>7, QuietChange
  <2>9. t.p.state \notin {"asleep", "lost"}
    BY <2>5
  <2>10. ReaderFed(w, t)
    BY <1>12, <2>5, <2>9 DEF ReaderFed
  <2> QED BY <2>8, <2>10
<1> QED BY <1>13, <1>14

-----------------------------------------------------------------------------
(* ripc_stream_update *)

\* What an update leaves as it is; and if the process sleeps after it, it
\* slept before, on a stream that is not dead.
Served(w, t) ==
  /\ t \in Worlds
  /\ t.s.use = w.s.use /\ t.s.notready = w.s.notready /\ t.s.closing = w.s.closing
  /\ t.s.peerclosing = w.s.peerclosing /\ t.s.req = w.s.req /\ t.route = w.route
  /\ w.s.dead => t.s.dead
  /\ t.s.dead => w.s.dead \/ ~w.route
  /\ t.p.state \in {"asleep", "lost"} =>
       /\ t.p.state = w.p.state /\ t.s.readsleep = w.s.readsleep /\ t.s.writesleep = w.s.writesleep
       /\ w.s.dead /\ ~w.s.notready => ~w.s.readsleep /\ ~w.s.writesleep

Moved(w, t) ==
  /\ t \in Worlds
  /\ t.s.use = w.s.use /\ t.s.notready = w.s.notready /\ t.s.dead = w.s.dead /\ t.s.closing = w.s.closing
  /\ t.s.peerclosing = w.s.peerclosing /\ t.s.req = w.s.req /\ t.route = w.route
  /\ t.p.state = w.p.state /\ t.s.readsleep = w.s.readsleep /\ t.s.writesleep = w.s.writesleep

LEMMA MoveHolds ==
  ASSUME NEW k, NEW l, NEW e \in Ends, NEW w, NEW y, NEW c, HoldsAt(k, l, e, w, y, c),
         NEW t, t = MoveData(w)
  PROVE  HoldsAt(k, l, e, t, y, c) /\ Moved(w, t)
<1>a. /\ w \in Worlds /\ w.s \in Streams /\ w.p \in Processes /\ w.n \subseteq Packets
      /\ y \in Sides /\ y.s \in Streams /\ y.p \in Processes /\ y.n \subseteq Packets
      /\ c \in BOOLEAN
  BY DEF HoldsAt, Worlds, Sides
<1>1. CASE MovesData(w.s)
  <2>1. HoldsAt(k, l, e, t, y, c) /\ \E q, r : DataMoved(w, q, r, t)
    BY <1>1, MoveDataHolds
  <2>2. PICK q, r : DataMoved(w, q, r, t)
    BY <2>1
  <2> QED BY <2>1, <2>2 DEF Moved, DataMoved
<1>2. CASE ~MovesData(w.s)
  <2>1. t = w
    BY <1>2 DEF MoveData
  <2> QED BY <1>a, <2>1 DEF Moved
<1> QED BY <1>1, <1>2

LEMMA RefuseWriterHolds ==
  ASSUME NEW k, NEW l, NEW e \in Ends, NEW w, NEW y, NEW c, HoldsAt(k, l, e, w, y, c), w.s.use,
         ~w.s.notready, ~w.s.readsleep, w.s.dead \/ w.s.peerclosing,
         NEW t, t = RefuseWriter(w)
  PROVE  Holds(e, t, y, c) /\ Served(w, t)
<1>d. Manner(e, w)
  BY DEF HoldsAt, GoodAt
<1> DEFINE v == Wake(w)
<1>1. HoldsAt(k, l, e, v, y, c) /\ \E b \in {"running", "corrupt"} : StateSet(w, b, v)
  BY WakeHolds
<1>2. t = SendData(v)
  BY DEF RefuseWriter
<1> HIDE DEF v
<1>3. PICK b \in {"running", "corrupt"} : StateSet(w, b, v)
  BY <1>1
<1>4. v.s.use /\ ~v.s.notready
  BY <1>3 DEF StateSet
<1>5. e = "requester" /\ ~v.s.dead => v.s.req # "sent"
  BY <1>3, <1>d DEF StateSet, Manner
<1>6. Holds(e, t, y, c) /\ SentOn(v, t)
  BY <1>1, <1>2, <1>4, <1>5, SendDataHolds
<1>7. t.p.state = b
  BY <1>3, <1>6 DEF StateSet, SentOn
<1>8. t.p.state \notin {"asleep", "lost"}
  BY <1>7
<1>9. Served(w, t)
  BY <1>3, <1>6, <1>8 DEF StateSet, SentOn, Served
<1> QED BY <1>6, <1>9

LEMMA UpdateHolds ==
  ASSUME NEW k, NEW l, NEW e \in Ends, NEW w, NEW y, NEW c, HoldsAt(k, l, e, w, y, c), w.s.use,
         NEW sendsth, NEW t, t = Update(w, sendsth)
  PROVE  Holds(e, t, y, c) /\ Served(w, t)
<1>o. w.room = MaxPackets[Peer(e)] /\ (c => w.route) /\ k \in Firsts(e) /\ l \in Firsts(Peer(e))
  BY DEF HoldsAt
<1>a. /\ w \in Worlds /\ w.s \in Streams /\ w.p \in Processes /\ w.n \subseteq Packets
      /\ y \in Sides /\ y.s \in Streams /\ y.p \in Processes /\ y.n \subseteq Packets
      /\ c \in BOOLEAN
  BY DEF HoldsAt, Worlds, Sides
<1> DEFINE a == MoveData(w)
           b == IF a.s.readsleep THEN FeedReader(a)
                ELSE IF a.s.writesleep THEN FeedWriter(a) ELSE a
           d == MoveData(b)
           change == \/ sendsth \/ MovesData(w.s) \/ MovesData(b.s)
                     \/ ~a.s.readsleep /\ a.s.writesleep /\ a.s.out = <<>>
                     \/ d.s.sent = 0 /\ d.s.out # <<>>
           refuses == ~a.s.readsleep /\ a.s.writesleep /\ (a.s.dead \/ a.s.peerclosing)
           idle == ~a.s.readsleep /\ ~a.s.writesleep /\ a.s.dead
<1>1. t = CASE w.s.notready -> w
            [] ~w.s.notready /\ refuses -> RefuseWriter(a)
            [] ~w.s.notready /\ idle -> a
            [] OTHER -> IF change THEN SendData(d) ELSE d
  BY DEF Update
<1>2. CASE w.s.notready
  <2>1. t = w
    <3> HIDE DEF a, b, d, change, refuses, idle
    <3> QED BY <1>1, <1>2
  <2>2. Served(w, w)
    BY <1>2, <1>a DEF Served
  <2> QED BY <1>o, <2>1, <2>2 DEF Holds
<1>3. CASE ~w.s.notready
  <2>1. HoldsAt(k, l, e, a, y, c) /\ Moved(w, a)
    BY MoveHolds
  <2>2. a \in Worlds /\ a.s.use /\ ~a.s.notready /\ Manner(e, a)
    BY <1>3, <2>1 DEF Moved, HoldsAt, GoodAt
  <2>3. CASE refuses
    <3>1. t = RefuseWriter(a)
      <4>1. ~idle
        BY <2>3
      <4> HIDE DEF a, b, d, change, idle, refuses
      <4> QED BY <1>1, <1>3, <2>3, <4>1
    <3> HIDE DEF a, b, d, change, idle
    <3>2. Holds(e, t, y, c) /\ Served(a, t)
      BY <2>1, <2>2, <2>3, <3>1, RefuseWriterHolds
    <3>3. Served(w, t)
      BY <2>1, <3>2 DEF Served, Moved
    <3> QED BY <3>2, <3>3
  <2>4. CASE ~refuses /\ idle
    <3>1. t = a
      <4> HIDE DEF a, b, d, change, idle, refuses
      <4> QED BY <1>1, <1>3, <2>4
    <3> HIDE DEF a, b, d, change
    <3>2. Served(w, t)
      BY <2>1, <2>4, <3>1 DEF Served, Moved
    <3> QED BY <1>o, <2>1, <3>1, <3>2 DEF Holds
  <2>5. CASE ~refuses /\ ~idle
    <3>1. t = d \/ t = SendData(d)
      <4> HIDE DEF a, b, d, change, idle, refuses
      <4> QED BY <1>1, <1>3, <2>5
    <3> HIDE DEF a, change
    <3>2. HoldsAt(k, l, e, b, y, c) /\ ReaderFed(a, b)
      <4>1. CASE a.s.readsleep
        <5>1. b = FeedReader(a)
          BY <4>1
        <5> HIDE DEF b
        <5> QED BY <2>1, <2>2, <4>1, <5>1, FeedReaderHolds
      <4>2. CASE ~a.s.readsleep /\ a.s.writesleep
        <5>1. b = FeedWriter(a)
          BY <4>2
        <5>2. ~a.s.dead /\ ~a.s.peerclosing
          BY <2>5, <4>2
        <5> HIDE DEF b
        <5> QED BY <2>1, <2>2, <4>2, <5>1, <5>2, FeedWriterHolds
      <4>3. CASE ~a.s.readsleep /\ ~a.s.writesleep
        <5>1. b = a
          BY <4>3
        <5> HIDE DEF b
        <5> QED BY <2>1, <2>2, <4>3, <5>1 DEF ReaderFed
      <4> QED BY <4>1, <4>2, <4>3
    <3> HIDE DEF b
    <3>3. HoldsAt(k, l, e, d, y, c) /\ Moved(b, d)
      BY <3>2, MoveHolds
    <3> HIDE DEF d
    <3>4. d.p.state \in {"asleep", "lost"} => ~a.s.dead
      <4>1. ~a.s.readsleep => ~a.s.dead
        BY <2>5
      <4> QED BY <3>2, <3>3, <4>1 DEF ReaderFed, Moved
    <3>5. Served(w, d)
      <4>1. /\ d \in Worlds
            /\ d.s.use = a.s.use /\ d.s.notready = a.s.notready /\ d.s.dead = a.s.dead /\ d.s.closing = a.s.closing
            /\ d.s.peerclosing = a.s.peerclosing /\ d.s.req = a.s.req /\ d.route = a.route
            /\ d.p.state \in {"asleep", "lost"} =>
                 d.p.state = a.p.state /\ d.s.readsleep = a.s.readsleep /\ d.s.writesleep = a.s.writesleep
        BY <3>2, <3>3 DEF ReaderFed, Moved
      <4> QED BY <2>1, <3>4, <4>1 DEF Served, Moved
    <3>6. CASE t = d
      BY <1>o, <3>3, <3>5, <3>6 DEF Holds
    <3>7. CASE t = SendData(d)
      <4>1. d.s.use /\ ~d.s.notready
        BY <1>3, <3>5 DEF Served
      <4>2. e = "requester" /\ ~d.s.dead => d.s.req # "sent"
        <5>1. Manner(e, d)
          BY <3>3 DEF HoldsAt, GoodAt
        <5> QED BY <4>1, <5>1 DEF Manner
      <4>3. Holds(e, t, y, c) /\ SentOn(d, t)
        BY <3>3, <3>7, <4>1, <4>2, SendDataHolds
      <4>4. Served(w, t)
        BY <3>5, <4>3 DEF Served, SentOn
      <4> QED BY <4>3, <4>4
    <3> QED BY <3>1, <3>6, <3>7
  <2> QED BY <2>3, <2>4, <2>5
<1> QED BY <1>2, <1>3

-----------------------------------------------------------------------------
(* What a handler may do to its end *)

\* A process that sleeps and that nobody will wake
Resting(x) ==
  /\ x.p.state \in {"asleep", "lost"}
  /\ ~(x.s.use /\ (x.s.req = "sent" \/ (x.s.req = "none" /\ ~x.s.dead /\ (x.s.readsleep \/ x.s.writesleep))))

Proper(w, t) ==
  /\ t.s.use => w.s.use
  /\ t.s.use /\ w.s.dead => t.s.dead
  /\ t.s.req = "sent" => w.s.req = "sent"
  /\ Resting(t) /\ w.route => Resting(w) \/ w.s.closing \/ w.s.req = "stale"

\* A stream in use stays so if it is dead.
Stays(w, t) == w.s.use /\ w.s.dead => t.s.use

LEMMA ProperSame ==
  ASSUME NEW w, NEW t, t.s = w.s, t.p = w.p
  PROVE  Proper(w, t) /\ Stays(w, t)
  BY DEF Proper, Stays, Resting

\* An update of a stream of which only buffers, counters and some flags have
\* changed since the handler began
LEMMA ServedProper ==
  ASSUME NEW w, NEW u, NEW t, Served(u, t),
         u.s.use = w.s.use, w.s.dead => u.s.dead, u.s.dead => w.s.dead \/ ~u.s.notready,
         u.s.req = w.s.req, u.s.readsleep = w.s.readsleep, u.s.writesleep = w.s.writesleep,
         u.p.state = w.p.state, u.route = w.route
  PROVE  Proper(w, t) /\ Stays(w, t)
<1>1. t.s.use = w.s.use /\ t.s.req = w.s.req /\ (w.s.dead => t.s.dead)
  BY DEF Served
<1>2. ASSUME Resting(t), w.route PROVE Resting(w)
  <2>1. /\ w.p.state \in {"asleep", "lost"}
        /\ t.s.readsleep = w.s.readsleep /\ t.s.writesleep = w.s.writesleep
        /\ u.s.dead /\ ~u.s.notready => ~w.s.readsleep /\ ~w.s.writesleep
    BY <1>2 DEF Served, Resting
  <2>2. t.s.dead => u.s.dead
    BY <1>2 DEF Served
  <2> QED BY <1>1, <1>2, <2>1, <2>2 DEF Resting
<1> QED BY <1>1, <1>2 DEF Proper, Stays

-----------------------------------------------------------------------------
(* ripc_stream_resp and ripc_stream_ack_ack *)

LEMMA AnsweredBeforePut ==
  ASSUME NEW w \in Worlds, NEW pkt, NEW m, m = [w EXCEPT !.s.req = "none", !.p.state = "running"],
         NEW x, x = Put(w, pkt)
  PROVE  [x EXCEPT !.s.req = "none", !.p.state = "running"] = Put(m, pkt)
<1>1. m.n = w.n /\ m.room = w.room /\ m.route = w.route
  BY DEF Worlds
<1>2. CASE w.route /\ Cardinality(w.n) < w.room
  <2> DEFINE q == w.n \cup {pkt}
  <2>1. x = [w EXCEPT !.n = q]
    BY <1>2 DEF Put
  <2>2. Put(m, pkt) = [m EXCEPT !.n = q]
    BY <1>1, <1>2 DEF Put
  <2>3. [x EXCEPT !.s.req = "none", !.p.state = "running"] = [m EXCEPT !.n = q]
    <3> HIDE DEF q
    <3> QED BY <2>1 DEF Worlds, Streams, Processes
  <2> QED BY <2>2, <2>3
<1>3. CASE ~(w.route /\ Cardinality(w.n) < w.room)
  BY <1>1, <1>3 DEF Put
<1> QED BY <1>2, <1>3

LEMMA RespHolds ==
  ASSUME NEW k, NEW l, NEW e \in Ends, NEW w, NEW y, NEW c, HoldsAt(k, l, e, w, y, c),
         NEW pkt \in y.n, pkt.kind = "resp", NEW t, t = RecvResp(w)
  PROVE  Holds(e, t, y, c) /\ Proper(w, t) /\ Stays(w, t)
<1>o. w.room = MaxPackets[Peer(e)] /\ (c => w.route) /\ k \in Firsts(e) /\ l \in Firsts(Peer(e))
  BY DEF HoldsAt
<1>a. /\ w \in Worlds /\ w.s \in Streams /\ w.p \in Processes /\ w.n \subseteq Packets
      /\ y \in Sides /\ y.s \in Streams /\ y.p \in Processes /\ y.n \subseteq Packets
      /\ c \in BOOLEAN
  BY DEF HoldsAt, Worlds, Sides
<1>c. Shape(e, w)
  BY DEF HoldsAt, GoodAt
<1>d. Manner(e, w)
  BY DEF HoldsAt, GoodAt
<1>n. Meeting(e, w, y, c)
  BY DEF HoldsAt, GoodAt
<1>1. e = "requester"
  BY <1>n DEF Meeting, Handshake, Ends
<1>2. CASE ~w.s.use
  <2>1. t = w
    BY <1>2 DEF RecvResp
  <2> QED BY <1>o, <2>1, ProperSame DEF Holds
<1>3. CASE w.s.use /\ w.s.req = "sent"
  <2> DEFINE x == Put(w, Note("ack_ack"))
             v == [w EXCEPT !.s.req = "none", !.p.state = "running"]
  <2>1. t = [x EXCEPT !.s.req = "none", !.p.state = "running"]
    BY <1>3 DEF RecvResp
  <2>2. t = Put(v, Note("ack_ack"))
    BY ZenonT(60), <1>a, <2>1, AnsweredBeforePut
  <2>3. AnsweredSet(w, "running", v)
    BY Zenon, <1>a, IsAnsweredSet
  <2> HIDE DEF v
  <2>4. Quiet(w, v)
    BY <1>3, <1>c, <2>3 DEF Quiet, AnsweredSet, Shape
  <2>5. Manner(e, v)
    BY <1>1, <1>3, <1>d, <2>3 DEF Manner, AnsweredSet
  <2>6. Meeting(e, v, y, c)
    BY <1>1, <1>n, <2>3 DEF Meeting, Handshake, HasReset, HasData, AnsweredSet
  <2>7. v.p.eof = w.p.eof /\ v.s.req = "none" /\ v.p.state = "running"
    BY <2>3 DEF AnsweredSet
  <2>8. HoldsAt(k, l, e, v, y, c)
    BY <2>4, <2>5, <2>6, <2>7, QuietHolds
  <2>9. HoldsAt(k, l, e, t, y, c) /\ \E p : PutIn(v, p, t) /\ p.kind \in {"resp", "ack_ack"}
    BY <1>1, <2>2, <2>7, <2>8, AnswerHolds
  <2>10. t.s = v.s /\ t.p = v.p
    BY <2>9 DEF PutIn
  <2>11. Proper(w, t) /\ Stays(w, t)
    BY <1>3, <2>3, <2>7, <2>10 DEF Proper, Stays, Resting, AnsweredSet
  <2> QED BY <1>o, <2>9, <2>11 DEF Holds
<1>4. CASE w.s.use /\ w.s.req # "sent"
  <2>1. t = Put(w, Note("ack_ack"))
    BY <1>4 DEF RecvResp
  <2>2. HoldsAt(k, l, e, t, y, c) /\ \E p : PutIn(w, p, t) /\ p.kind \in {"resp", "ack_ack"}
    BY <1>1, <1>4, <2>1, AnswerHolds
  <2>3. t.s = w.s /\ t.p = w.p
    BY <2>2 DEF PutIn
  <2> QED BY <1>o, <2>2, <2>3, ProperSame DEF Holds
<1> QED BY <1>2, <1>3, <1>4

\* If no fault has happened, an end that is dead or gone owes its peer nothing.
LEMMA GoneComplete ==
  ASSUME NEW k, NEW l, NEW e \in Ends, NEW w, NEW y, NEW c, HoldsAt(k, l, e, w, y, c),
         ~w.s.use \/ w.s.dead \/ w.s.peerclosing
  PROVE  c /\ y.s.use /\ ~y.s.closing => Complete(k, w, y)
<1>g. Endings(k, w, y, c)
  BY DEF HoldsAt, GoodAt
<1>j. Flow(l, Peer(e), y, w)
  BY DEF HoldsAt, GoodAt
<1>m. Endings(l, y, w, c)
  BY DEF HoldsAt, GoodAt
<1>1. CASE ~w.s.use
  BY <1>1, <1>g DEF Endings
<1>2. CASE w.s.use /\ w.s.dead
  <2>1. c /\ ~w.s.closing => Complete(l, y, w)
    BY <1>2, <1>m DEF Endings
  <2> QED BY <1>2, <1>g, <2>1 DEF Endings, Complete
<1>3. CASE w.s.peerclosing
  BY <1>3, <1>j DEF Flow
<1> QED BY <1>1, <1>2, <1>3

LEMMA AckAckHolds ==
  ASSUME NEW k, NEW l, NEW e \in Ends, NEW w, NEW y, NEW c, HoldsAt(k, l, e, w, y, c),
         NEW pkt \in y.n, pkt.kind = "ack_ack", NEW t, t = RecvAckAck(w)
  PROVE  Holds(e, t, y, c) /\ Proper(w, t) /\ Stays(w, t)
<1>o. w.room = MaxPackets[Peer(e)] /\ (c => w.route) /\ k \in Firsts(e) /\ l \in Firsts(Peer(e))
  BY DEF HoldsAt
<1>a. /\ w \in Worlds /\ w.s \in Streams /\ w.p \in Processes /\ w.n \subseteq Packets
      /\ y \in Sides /\ y.s \in Streams /\ y.p \in Processes /\ y.n \subseteq Packets
      /\ c \in BOOLEAN
  BY DEF HoldsAt, Worlds, Sides
<1>c. Shape(e, w)
  BY DEF HoldsAt, GoodAt
<1>d. Manner(e, w)
  BY DEF HoldsAt, GoodAt
<1>m. Endings(l, y, w, c)
  BY DEF HoldsAt, GoodAt
<1>n. Meeting(e, w, y, c)
  BY DEF HoldsAt, GoodAt
<1>1. e = "acceptor" /\ (y.s.use => y.s.req # "sent")
  BY <1>n DEF Meeting, Handshake, Ends
<1>2. CASE ~w.s.use \/ w.s.dead
  <2>1. t = Reset(w)
    BY <1>2 DEF RecvAckAck
  <2>2. c /\ y.s.use /\ ~y.s.closing => Complete(k, w, y)
    BY <1>2, GoneComplete
  <2>3. c /\ w.s.use /\ ~w.s.closing /\ y.s.closing => Complete(l, y, w)
    BY <1>2, <1>m DEF Endings
  <2>4. HoldsAt(k, l, e, t, y, c) /\ PutIn(w, Note("reset"), t)
    BY <1>1, <1>2, <2>1, <2>2, <2>3, ResetHolds
  <2>5. t.s = w.s /\ t.p = w.p
    BY <2>4 DEF PutIn
  <2> QED BY <1>o, <2>4, <2>5, ProperSame DEF Holds
<1>3. CASE w.s.use /\ ~w.s.dead /\ w.s.req # "sent"
  <2>1. t = w
    BY <1>3 DEF RecvAckAck
  <2> QED BY <1>o, <2>1, ProperSame DEF Holds
<1>4. CASE w.s.use /\ ~w.s.dead /\ w.s.req = "sent"
  <2> DEFINE st == IF w.p.state = "asleep" /\ ~w.s.readsleep /\ ~w.s.writesleep
                   THEN "running" ELSE w.p.state
             v == [w EXCEPT !.s.req = "none", !.p.state = st]
             u == [v EXCEPT !.s.notready = FALSE]
  <2>1. st \in {"running", "asleep", "lost", "corrupt", "ended"}
    BY <1>a, ProcessFields
  <2>2. t = SendData([w EXCEPT !.s.notready = FALSE, !.s.req = "none", !.p.state = st])
    BY <1>4 DEF RecvAckAck
  <2>3. [w EXCEPT !.s.notready = FALSE, !.s.req = "none", !.p.state = st] = u
    <3> HIDE DEF st
    <3> QED BY ZenonT(60), <1>a DEF Worlds, Streams
  <2>4. st = "running" => w.p.state = "running" \/ (~w.s.readsleep /\ ~w.s.writesleep)
    OBVIOUS
  <2>5. st # "running" => st = w.p.state
    OBVIOUS
  <2>6. st \in {"asleep", "lost"} => w.s.readsleep \/ w.s.writesleep
    <3>1. w.p.state # "lost"
      BY <1>4, <1>d DEF Manner
    <3> QED BY <3>1
  <2> HIDE DEF st
  <2>7. AnsweredSet(w, st, v)
    BY Zenon, <1>a, <2>1, IsAnsweredSet
  <2> HIDE DEF v
  <2>8. v \in Worlds /\ v.p.eof = w.p.eof /\ v.s.use /\ v.s.req = "none" /\ ~v.s.dead
    BY <1>4, <2>7 DEF AnsweredSet
  <2>9. NotreadySet(v, FALSE, u)
    BY <2>8, IsNotreadySet
  <2> HIDE DEF u
  <2>10. Quiet(w, v)
    BY <1>4, <1>c, <2>7 DEF Quiet, AnsweredSet, Shape
  <2>11. Manner(e, v)
    <3>1. /\ v.s.use = w.s.use /\ v.s.notready = w.s.notready /\ v.s.dead = w.s.dead
          /\ v.s.closing = w.s.closing /\ v.s.peerclosing = w.s.peerclosing /\ v.s.req = "none"
          /\ v.s.readsleep = w.s.readsleep /\ v.s.writesleep = w.s.writesleep
          /\ v.p.state = st /\ v.p.eof = w.p.eof /\ v.s.left = w.s.left /\ v.p.written = w.p.written
      BY <2>7 DEF AnsweredSet
    <3>2. st # "lost"
      BY <1>4, <1>d, <2>5 DEF Manner
    <3> QED BY <1>4, <1>d, <2>4, <3>1, <3>2 DEF Manner
  <2>12. Meeting(e, v, y, c)
    BY <1>1, <1>n, <2>7 DEF Meeting, Handshake, HasReset, HasData, AnsweredSet
  <2>13. HoldsAt(k, l, e, v, y, c)
    BY <2>8, <2>10, <2>11, <2>12, QuietHolds
  <2>14. Meeting(e, u, y, c)
    BY <1>1, <2>8, <2>9, <2>12 DEF Meeting, Handshake, HasReset, HasData, NotreadySet
  <2>15. HoldsAt(k, l, e, u, y, c)
    <3>1. u = [v EXCEPT !.s.notready = FALSE]
      BY DEF u
    <3> QED BY <1>1, <2>8, <2>13, <2>14, <3>1, ReadyHolds
  <2>16. t = SendData(u) /\ u.s.use /\ ~u.s.notready
    BY <2>2, <2>3, <2>8, <2>9 DEF NotreadySet
  <2>17. Holds(e, t, y, c) /\ SentOn(u, t)
    BY <1>1, <2>15, <2>16, SendDataHolds
  <2>18. /\ t.s.use /\ t.s.req = "none" /\ t.p.state = st
         /\ t.s.readsleep = w.s.readsleep /\ t.s.writesleep = w.s.writesleep
         /\ w.route => ~t.s.dead
    BY <1>4, <2>7, <2>8, <2>9, <2>17 DEF SentOn, NotreadySet, AnsweredSet
  <2>19. Proper(w, t) /\ Stays(w, t)
    BY <1>4, <2>6, <2>18 DEF Proper, Stays, Resting
  <2> QED BY <2>17, <2>19
<1> QED BY <1>2, <1>3, <1>4

-----------------------------------------------------------------------------
(* ripc_stream_reset *)

\* What is left of an end whose stream is given back
LEMMA DiscardProper ==
  ASSUME NEW w, NEW v \in Worlds, NEW t, Freed(v, t), v.p.state = w.p.state, v.s.req = w.s.req,
         w.s.closing \/ w.p.state \notin {"asleep", "lost"} \/ Resting(w)
  PROVE  Proper(w, t) /\ ~t.s.use
<1>1. ~t.s.use /\ t.s.req = w.s.req
  BY FreedFields
<1>2. t.p.state \in {"asleep", "lost"} => w.p.state \in {"asleep", "lost"}
  BY DEF Freed
<1> QED BY <1>1, <1>2 DEF Proper, Resting

LEMMA HardClose ==
  ASSUME NEW x
  PROVE  CloseThisStream(x, TRUE) = Discard(x)
  BY DEF CloseThisStream

LEMMA DeadReady ==
  ASSUME NEW w \in Worlds, NEW v, v = [w EXCEPT !.s.dead = TRUE]
  PROVE  [w EXCEPT !.s.notready = FALSE, !.s.dead = TRUE] = [v EXCEPT !.s.notready = FALSE]
  BY DEF Worlds, Streams

LEMMA RecvResetHolds ==
  ASSUME NEW k, NEW l, NEW e \in Ends, NEW w, NEW y, NEW c, HoldsAt(k, l, e, w, y, c),
         NEW pkt \in y.n, pkt.kind = "reset", NEW t, t = RecvReset(w)
  PROVE  Holds(e, t, y, c) /\ Proper(w, t) /\ Stays(w, t)
<1>o. w.room = MaxPackets[Peer(e)] /\ (c => w.route) /\ k \in Firsts(e) /\ l \in Firsts(Peer(e))
  BY DEF HoldsAt
<1>a. /\ w \in Worlds /\ w.s \in Streams /\ w.p \in Processes /\ w.n \subseteq Packets
      /\ y \in Sides /\ y.s \in Streams /\ y.p \in Processes /\ y.n \subseteq Packets
      /\ c \in BOOLEAN
  BY DEF HoldsAt, Worlds, Sides
<1>g. Endings(k, w, y, c)
  BY DEF HoldsAt, GoodAt
<1>m. Endings(l, y, w, c)
  BY DEF HoldsAt, GoodAt
<1>1. HasReset(y)
  BY DEF HasReset
<1>2. CASE ~w.s.use \/ w.s.dead \/ w.p.state = "ended"
  <2>1. t = w
    BY <1>2 DEF RecvReset
  <2> QED BY <1>o, <2>1, ProperSame DEF Holds
<1>3. CASE ~(~w.s.use \/ w.s.dead \/ w.p.state = "ended")
  <2> DEFINE v == [w EXCEPT !.s.dead = TRUE]
             x == [w EXCEPT !.s.notready = FALSE, !.s.dead = TRUE]
  <2>1. t = IF x.s.closing THEN Discard(x) ELSE Update(x, FALSE)
    <3>1. t = IF x.s.closing THEN CloseThisStream(x, TRUE) ELSE Update(x, FALSE)
      BY <1>3 DEF RecvReset
    <3>2. CloseThisStream(x, TRUE) = Discard(x)
      BY HardClose
    <3> QED BY <3>1, <3>2
  <2>2. x = [v EXCEPT !.s.notready = FALSE]
    BY <1>a, DeadReady
  <2>3. DeadSet(w, TRUE, v)
    BY <1>a, IsDeadSet
  <2>4. v \in Worlds
    BY <2>3 DEF DeadSet
  <2> HIDE DEF x
  <2>5. NotreadySet(v, FALSE, x)
    BY <2>2, <2>4, IsNotreadySet
  <2>6. /\ x \in Worlds /\ x.p = w.p /\ x.n = w.n /\ x.room = w.room /\ x.route = w.route
        /\ x.s.req = w.s.req /\ x.s.retries = w.s.retries
    BY <2>3, <2>5 DEF DeadSet, NotreadySet
  <2>7. CASE w.s.closing
    <3>1. t = Discard(w)
      <4>1. x.s.closing
        BY <2>3, <2>5, <2>7 DEF DeadSet, NotreadySet
      <4> QED BY <1>a, <2>1, <2>6, <4>1, DiscardSame
    <3>2. c /\ y.s.use /\ ~y.s.closing => Complete(k, w, y)
      BY <1>1, <1>g, <2>7 DEF Endings
    <3>3. HoldsAt(k, l, e, t, y, c) /\ Freed(w, t)
      BY <3>1, <3>2, DiscardHolds
    <3>4. Proper(w, t)
      BY <1>a, <2>7, <3>3, DiscardProper
    <3> QED BY <1>3, <1>o, <3>3, <3>4 DEF Holds, Stays
  <2>8. CASE ~w.s.closing
    <3>1. c => Complete(l, y, w)
      BY <1>1, <1>3, <1>m, <2>8 DEF Endings
    <3>2. HoldsAt(k, l, e, v, y, c)
      BY <1>3, <2>8, <3>1, DeadHolds
    <3> HIDE DEF v
    <3>3. Meeting(e, v, y, c)
      BY <3>2 DEF HoldsAt, GoodAt
    <3>4. Meeting(e, x, y, c)
      <4>1. /\ x.s.use = v.s.use /\ x.s.closing = v.s.closing /\ x.s.dead = v.s.dead /\ x.s.req = v.s.req
            /\ x.n = v.n
        BY <2>5 DEF NotreadySet
      <4>2. v.s.use /\ ~v.s.closing
        BY <1>3, <2>3, <2>8 DEF DeadSet
      <4>3. CASE e = "requester"
        BY <1>1, <3>3, <4>1, <4>2, <4>3 DEF Meeting, Handshake, HasReset, HasData
      <4>4. CASE e # "requester"
        BY <1>1, <3>3, <4>1, <4>2, <4>4 DEF Meeting, Handshake, HasReset, HasData
      <4> QED BY <4>3, <4>4
    <3>5. HoldsAt(k, l, e, x, y, c)
      <4>1. v.s.use /\ v.s.dead
        BY <1>3, <2>3 DEF DeadSet
      <4> QED BY <2>2, <3>2, <3>4, <4>1, ReadyHolds
    <3>6. /\ x.s.use = w.s.use /\ x.s.dead /\ ~x.s.notready /\ x.s.closing = w.s.closing
          /\ x.s.req = w.s.req /\ x.s.readsleep = w.s.readsleep /\ x.s.writesleep = w.s.writesleep
      BY <2>3, <2>5 DEF DeadSet, NotreadySet
    <3>7. t = Update(x, FALSE)
      BY <2>1, <2>8, <3>6
    <3>8. Holds(e, t, y, c) /\ Served(x, t)
      BY <1>3, <3>5, <3>6, <3>7, UpdateHolds
    <3>9. Proper(w, t) /\ Stays(w, t)
      BY <2>6, <3>6, <3>8, ServedProper
    <3> QED BY <3>8, <3>9
  <2> QED BY <2>7, <2>8
<1> QED BY <1>2, <1>3
-----------------------------------------------------------------------------
(* ripc_stream_recv_data: the packet is refused. *)

LEMMA RefuseDataHolds ==
  ASSUME NEW k, NEW l, NEW e \in Ends, NEW w, NEW y, NEW c, HoldsAt(k, l, e, w, y, c),
         NEW pkt \in y.n, pkt.kind = "data", ~w.s.use \/ w.s.req # "none" \/ w.s.dead,
         NEW t, t = Reset(w)
  PROVE  Holds(e, t, y, c) /\ Proper(w, t) /\ Stays(w, t)
<1>o. w.room = MaxPackets[Peer(e)] /\ (c => w.route) /\ k \in Firsts(e) /\ l \in Firsts(Peer(e))
  BY DEF HoldsAt
<1>a. /\ w \in Worlds /\ w.s \in Streams /\ w.p \in Processes /\ w.n \subseteq Packets
      /\ y \in Sides /\ y.s \in Streams /\ y.p \in Processes /\ y.n \subseteq Packets
      /\ c \in BOOLEAN
  BY DEF HoldsAt, Worlds, Sides
<1>c. Shape(e, w)
  BY DEF HoldsAt, GoodAt
<1>d. Manner(e, w)
  BY DEF HoldsAt, GoodAt
<1>e. Flow(k, e, w, y)
  BY DEF HoldsAt, GoodAt
<1>h. Shape(Peer(e), y)
  BY DEF HoldsAt, GoodAt
<1>j. Flow(l, Peer(e), y, w)
  BY DEF HoldsAt, GoodAt
<1>m. Endings(l, y, w, c)
  BY DEF HoldsAt, GoodAt
<1>n. Meeting(e, w, y, c)
  BY DEF HoldsAt, GoodAt
<1>1. HasData(y)
  BY DEF HasData
<1>2. /\ e = "requester" /\ w.s.use /\ w.s.req = "sent" => (y.s.closing \/ ~y.s.use) /\ (y.s.use => y.s.notready)
      /\ e = "acceptor" /\ y.s.use => y.s.req # "sent"
      /\ e = "acceptor" /\ c /\ w.s.use /\ w.s.req = "sent" /\ ~w.s.closing /\ ~w.s.dead /\ y.s.use
           => y.s.closing /\ y.s.notready
      /\ c /\ e = "acceptor" => w.s.req # "stale"
  <2>1. CASE e = "requester"
    BY <1>1, <1>n, <2>1 DEF Meeting, Handshake
  <2>2. CASE e # "requester"
    BY <1>1, <1>n, <2>2 DEF Meeting, Handshake
  <2> QED BY <2>1, <2>2
<1>3. w.s.use /\ c /\ ~w.s.dead => w.s.req = "sent" /\ w.s.notready
  <2>1. w.s.req = "stale" => e = "acceptor"
    BY <1>d DEF Manner
  <2>2. w.s.use /\ w.s.req # "none" => w.s.notready \/ w.s.dead
    BY <1>d DEF Manner
  <2>3. w.s.req \in {"none", "sent", "stale"}
    BY <1>a, StreamFields
  <2> QED BY <1>2, <2>1, <2>2, <2>3
<1>4. /\ w.s.peer \in Nat /\ w.s.my \in Nat /\ y.s.my \in Nat /\ y.s.peer \in Nat
      /\ w.p.written \in Nat /\ y.p.written \in Nat
  BY <1>a, StreamFields, ProcessFields
<1>5. c /\ y.s.use /\ ~y.s.closing => Complete(k, w, y)
  <2>1. CASE ~w.s.use \/ w.s.dead
    BY <2>1, GoneComplete
  <2>2. CASE w.s.use /\ ~w.s.dead
    <3> SUFFICES ASSUME c, y.s.use, ~y.s.closing PROVE Complete(k, w, y)
      OBVIOUS
    <3>1. w.s.req = "sent" /\ w.s.notready
      BY <1>3, <2>2
    <3>2. e = "acceptor" /\ w.s.closing
      BY <1>2, <2>2, <3>1 DEF Ends
    <3>3. w.s.my = 0 /\ w.s.sent = 0 /\ w.s.out = <<>> /\ w.p.written = 0
      BY <1>c, <3>1, <3>2 DEF Shape, Born
    <3>4. ~w.s.peerclosing
      BY <1>j DEF Flow
    <3>5. y.s.peer = w.s.my
      <4>1. y.s.peer \in {w.s.my - 1, w.s.my}
        BY <1>e, <2>2 DEF Flow
      <4> QED BY <1>4, <3>3, <4>1
    <3>6. y.s.data = <<>>
      BY <1>e, <2>2, <3>3, <3>5 DEF Flow
    <3>7. Wanted(k, y) = Oldest(w) + Arrival(w, y)
      BY <1>e, <2>2, <3>4 DEF Flow
    <3>8. Oldest(w) = 1 /\ Arrival(w, y) = 0
      <4>1. Len(w.s.out) = 0
        BY <3>3
      <4> QED BY <3>3, <4>1 DEF Oldest, Arrival
    <3>9. Wanted(k, y) = w.p.written + 1
      BY <3>3, <3>7, <3>8
    <3> QED BY <3>2, <3>6, <3>9 DEF Complete
  <2> QED BY <2>1, <2>2
<1>6. c /\ w.s.use /\ ~w.s.closing /\ y.s.closing => Complete(l, y, w)
  <2> SUFFICES ASSUME c, w.s.use, ~w.s.closing, y.s.closing PROVE Complete(l, y, w)
    OBVIOUS
  <2>1. CASE w.s.dead
    BY <1>m, <2>1 DEF Endings
  <2>2. CASE ~w.s.dead
    <3>1. w.s.req = "sent" /\ w.s.notready
      BY <1>3, <2>2
    <3>2. y.s.use
      <4>1. ~y.s.use => y.s = GivenBack(y.s)
        BY <1>h DEF Shape
      <4> QED BY <1>a, <4>1, GivenFields
    <3>3. y.s.notready
      BY <1>2, <2>2, <3>1, <3>2 DEF Ends
    <3>4. y.s.sent = 0 /\ y.s.out = <<>> /\ y.p.written = 0 /\ w.s.data = <<>>
      BY <1>c, <1>h, <3>1, <3>3 DEF Shape
    <3>5. ~y.s.peerclosing
      BY <1>e DEF Flow
    <3>6. Wanted(l, w) = Oldest(y) + Arrival(y, w)
      BY <1>j, <3>2, <3>5 DEF Flow
    <3>7. Oldest(y) = 1 /\ Arrival(y, w) = 0
      <4>1. Len(y.s.out) = 0
        BY <3>4
      <4> QED BY <3>4, <4>1 DEF Oldest, Arrival
    <3>8. Wanted(l, w) = y.p.written + 1
      BY <3>4, <3>6, <3>7
    <3> QED BY <3>4, <3>8 DEF Complete
  <2> QED BY <2>1, <2>2
<1>7. HoldsAt(k, l, e, t, y, c) /\ PutIn(w, Note("reset"), t)
  BY <1>2, <1>5, <1>6, ResetHolds
<1>8. t.s = w.s /\ t.p = w.p
  BY <1>7 DEF PutIn
<1> QED BY <1>o, <1>7, <1>8, ProperSame DEF Holds

-----------------------------------------------------------------------------
(* ripc_stream_recv_data: what a packet says to an end that takes it *)

\* The end takes a packet of its peer.
Takes(w, y, pkt) ==
  /\ pkt \in y.n /\ pkt.kind = "data" /\ w.s.use /\ w.s.req = "none" /\ ~w.s.dead

LEMMA PacketSays ==
  ASSUME NEW k, NEW l, NEW e \in Ends, NEW w, NEW y, NEW c, HoldsAt(k, l, e, w, y, c),
         NEW pkt, Takes(w, y, pkt)
  PROVE  /\ pkt \in Packets /\ pkt.number \in Nat
         /\ e = "acceptor" /\ y.s.use => y.s.req # "sent"
         /\ e = "requester" /\ c /\ y.s.use /\ y.s.req = "sent" => y.s.closing \/ y.s.dead
         /\ "CLOSING" \in pkt.flags => y.s.closing \/ ~y.s.use
         /\ w.s.notready => pkt.ack = w.s.my /\ pkt.number \in {0, w.s.peer, w.s.peer + 1}
         /\ pkt.ack = w.s.my /\ Finished(w.s) => (y.s.use /\ ~y.s.closing => Complete(k, w, y))
<1>a. /\ w \in Worlds /\ w.s \in Streams /\ w.p \in Processes /\ w.n \subseteq Packets
      /\ y \in Sides /\ y.s \in Streams /\ y.p \in Processes /\ y.n \subseteq Packets
      /\ c \in BOOLEAN
  BY DEF HoldsAt, Worlds, Sides
<1>c. Shape(e, w)
  BY DEF HoldsAt, GoodAt
<1>e. Flow(k, e, w, y)
  BY DEF HoldsAt, GoodAt
<1>j. Flow(l, Peer(e), y, w)
  BY DEF HoldsAt, GoodAt
<1>k. Fitting(l, Peer(e), y, w)
  BY DEF HoldsAt, GoodAt
<1>n. Meeting(e, w, y, c)
  BY DEF HoldsAt, GoodAt
<1>1. /\ pkt \in Packets /\ pkt \in y.n /\ pkt.kind = "data" /\ w.s.use /\ w.s.req = "none" /\ ~w.s.dead
  BY <1>a DEF Takes
<1>2. pkt.number \in Nat /\ pkt.ack \in Nat
  BY <1>1 DEF Packets
<1>3. HasData(y)
  BY <1>1 DEF HasData
<1>4. /\ e = "acceptor" /\ y.s.use => y.s.req # "sent"
      /\ e = "requester" /\ c /\ y.s.use /\ y.s.req = "sent" => y.s.closing \/ y.s.dead
  <2>1. CASE e = "requester"
    BY <1>1, <1>3, <1>n, <2>1 DEF Meeting, Handshake
  <2>2. CASE e # "requester"
    BY <1>1, <1>3, <1>n, <2>2 DEF Meeting, Handshake
  <2> QED BY <2>1, <2>2
<1>5. Fits(l, Peer(e), pkt, y, w)
  BY <1>1, <1>k DEF Fitting
<1>6. /\ w.s.peer \in Nat /\ w.s.my \in Nat /\ y.s.my \in Nat /\ y.s.peer \in Nat
      /\ w.p.written \in Nat /\ w.s.sent \in Nat
  BY <1>a, StreamFields, ProcessFields
<1>7. "CLOSING" \in pkt.flags => y.s.closing \/ ~y.s.use
  BY <1>5 DEF Fits
<1>8. ASSUME w.s.notready PROVE pkt.ack = w.s.my /\ pkt.number \in {0, w.s.peer, w.s.peer + 1}
  <2>1. pkt.number <= w.s.peer + 1 /\ pkt.ack <= w.s.my
    BY <1>1, <1>5 DEF Fits
  <2>2. w.s.my = Born(e) /\ w.s.peer = 1 - Born(e)
    BY <1>c, <1>8 DEF Shape
  <2>3. CASE e = "requester"
    <3>1. pkt.ack >= 1
      BY <1>5, <2>3 DEF Fits, Peer
    <3> QED BY <1>2, <1>6, <2>1, <2>2, <2>3, <3>1 DEF Born
  <2>4. CASE e # "requester"
    BY <1>2, <1>6, <2>1, <2>2, <2>4 DEF Born
  <2> QED BY <2>3, <2>4
<1>9. ASSUME pkt.ack = w.s.my, Finished(w.s), y.s.use, ~y.s.closing PROVE Complete(k, w, y)
  <2>1. w.s.closing /\ w.s.out = <<>>
    BY <1>9 DEF Finished
  <2>2. w.s.sent = 0 /\ Oldest(w) = w.p.written + 1
    <3>1. Len(w.s.out) = 0 /\ w.s.sent <= Len(w.s.out)
      BY <1>c, <2>1 DEF Shape
    <3>2. w.s.sent = 0
      BY <1>6, <3>1
    <3> QED BY <1>6, <3>1, <3>2 DEF Oldest
  <2>3. y.s.peer = w.s.my
    <3>1. pkt.ack <= y.s.peer
      BY <1>5, <1>9 DEF Fits
    <3>2. y.s.peer \in {w.s.my - 1, w.s.my}
      BY <1>1, <1>9, <1>e DEF Flow
    <3> QED BY <1>6, <1>9, <3>1, <3>2
  <2>4. y.s.data = <<>>
    BY <1>1, <1>6, <1>9, <1>e, <2>2, <2>3 DEF Flow
  <2>5. ~w.s.peerclosing
    BY <1>9, <1>j DEF Flow
  <2>6. Wanted(k, y) = w.p.written + 1
    <3>1. Wanted(k, y) = Oldest(w) + Arrival(w, y)
      BY <1>1, <1>9, <1>e, <2>5 DEF Flow
    <3>2. Arrival(w, y) = 0
      BY <2>2 DEF Arrival
    <3> QED BY <1>6, <2>2, <3>1, <3>2
  <2> QED BY <2>1, <2>4, <2>6 DEF Complete
<1> QED BY <1>1, <1>2, <1>4, <1>7, <1>8, <1>9

\* The last acknowledgement has come: the slot is given back.
LEMMA NextFields ==
  ASSUME NEW w \in Worlds, NEW t, t = NextNumber(w)
  PROVE  /\ t \in Worlds /\ t.p = w.p /\ t.n = w.n /\ t.room = w.room /\ t.route = w.route
         /\ t.s.req = w.s.req /\ t.s.retries = w.s.retries
<1>1. w.s.my + 1 \in Nat
  BY WorldFields, StreamFields
<1> DEFINE m == w.s.my + 1
<1>2. t = [w EXCEPT !.s.my = m]
  BY DEF NextNumber
<1>3. m \in Nat
  BY <1>1
<1> HIDE DEF m
<1>4. MySet(w, m, t)
  BY <1>2, <1>3, IsMySet
<1> QED BY <1>4 DEF MySet

LEMMA FinishHolds ==
  ASSUME NEW k, NEW l, NEW e \in Ends, NEW w, NEW y, NEW c, HoldsAt(k, l, e, w, y, c),
         NEW pkt, Takes(w, y, pkt), pkt.ack = w.s.my, Finished(w.s),
         NEW v \in Worlds, v.p = w.p, v.n = w.n, v.room = w.room, v.route = w.route,
         v.s.req = w.s.req, v.s.retries = w.s.retries, NEW t, t = Finish(v)
  PROVE  Holds(e, t, y, c) /\ Proper(w, t) /\ Stays(w, t)
<1>o. w.room = MaxPackets[Peer(e)] /\ (c => w.route) /\ k \in Firsts(e) /\ l \in Firsts(Peer(e))
  BY DEF HoldsAt
<1>a. /\ w \in Worlds /\ w.s \in Streams /\ w.p \in Processes /\ w.n \subseteq Packets
      /\ y \in Sides /\ y.s \in Streams /\ y.p \in Processes /\ y.n \subseteq Packets
      /\ c \in BOOLEAN
  BY DEF HoldsAt, Worlds, Sides
<1> DEFINE u == Reset(w)
           z == Reset(v)
<1>1. Note("reset") \in Packets
  BY NoteType
<1>2. PutIn(w, Note("reset"), u) /\ PutIn(v, Note("reset"), z)
  BY <1>1, <1>a, PutFields DEF Reset
<1>3. z.n = u.n
  <2> DEFINE pkt1 == Note("reset")
             q == w.n \cup {pkt1}
  <2> HIDE DEF pkt1
  <2>1. CASE w.route /\ Cardinality(w.n) < w.room
    <3>1. u = [w EXCEPT !.n = q] /\ z = [v EXCEPT !.n = q]
      BY <2>1 DEF Reset, Put, pkt1
    <3> HIDE DEF q, u, z
    <3> QED BY <1>a, <3>1 DEF Worlds
  <2>2. CASE ~(w.route /\ Cardinality(w.n) < w.room)
    BY <2>2 DEF Reset, Put
  <2> QED BY <2>1, <2>2
<1>4. t = Discard(z)
  BY HardClose DEF Finish
<1> HIDE DEF u, z
<1>5. t = Discard(u)
  <2>1. /\ u \in Worlds /\ z \in Worlds /\ z.p = u.p /\ z.room = u.room /\ z.route = u.route
        /\ z.s.req = u.s.req /\ z.s.retries = u.s.retries
    BY <1>2 DEF PutIn
  <2> QED BY <1>3, <1>4, <2>1, DiscardSame
<1>6. w.s.use /\ w.s.req = "none" /\ ~w.s.dead /\ w.s.closing
  BY DEF Takes, Finished
<1>7. /\ e = "acceptor" /\ y.s.use => y.s.req # "sent"
      /\ y.s.use /\ ~y.s.closing => Complete(k, w, y)
  BY PacketSays
<1>8. HoldsAt(k, l, e, u, y, c)
  <2>1. u = Reset(w)
    BY DEF u
  <2> QED BY <1>6, <1>7, <2>1, ResetHolds
<1>9. u \in Worlds /\ u.s = w.s /\ u.p = w.p
  BY <1>2 DEF PutIn
<1>10. y.s.use /\ ~y.s.closing => Complete(k, u, y)
  BY <1>7, <1>9 DEF Complete
<1>11. HoldsAt(k, l, e, t, y, c) /\ Freed(u, t)
  BY <1>5, <1>8, <1>10, DiscardHolds
<1>12. Proper(w, t)
  BY <1>6, <1>9, <1>11, DiscardProper
<1> QED BY <1>6, <1>11, <1>12, <1>o DEF Holds, Stays

\* A packet with the CLOSING flag is taken down.
Noticed(w, g) ==
  /\ g \in Worlds /\ (w.s.peerclosing => g.s.peerclosing)
       /\ g.s.use = w.s.use /\ g.s.notready = w.s.notready /\ g.s.dead = w.s.dead /\ g.s.closing = w.s.closing
       /\ g.s.readsleep = w.s.readsleep /\ g.s.writesleep = w.s.writesleep /\ g.s.req = w.s.req /\ g.s.retries = w.s.retries
       /\ g.s.in = w.s.in /\ g.s.out = w.s.out /\ g.s.sent = w.s.sent /\ g.s.data = w.s.data
       /\ g.s.my = w.s.my /\ g.s.peer = w.s.peer /\ g.s.left = w.s.left
       /\ g.p = w.p
       /\ g.n = w.n /\ g.room = w.room /\ g.route = w.route

LEMMA NoticeHolds ==
  ASSUME NEW k, NEW l, NEW e \in Ends, NEW w, NEW y, NEW c, HoldsAt(k, l, e, w, y, c),
         NEW pkt, Takes(w, y, pkt),
         NEW g, g = IF "CLOSING" \in pkt.flags THEN [w EXCEPT !.s.peerclosing = TRUE] ELSE w
  PROVE  HoldsAt(k, l, e, g, y, c) /\ Noticed(w, g)
<1>a. /\ w \in Worlds /\ w.s \in Streams /\ w.p \in Processes /\ w.n \subseteq Packets
      /\ y \in Sides /\ y.s \in Streams /\ y.p \in Processes /\ y.n \subseteq Packets
      /\ c \in BOOLEAN
  BY DEF HoldsAt, Worlds, Sides
<1>1. w.s.use
  BY DEF Takes
<1>2. CASE "CLOSING" \in pkt.flags
  <2>1. y.s.closing \/ ~y.s.use
    BY <1>2, PacketSays
  <2>2. HoldsAt(k, l, e, g, y, c) /\ PeerclosingSet(w, TRUE, g)
    BY <1>1, <1>2, <2>1, PeerclosingHolds
  <2> QED BY <2>2 DEF PeerclosingSet, Noticed
<1>3. CASE "CLOSING" \notin pkt.flags
  <2>1. g = w
    BY <1>3
  <2> QED BY <1>a, <2>1 DEF Noticed
<1> QED BY <1>2, <1>3

LEMMA ReadyNoticed ==
  ASSUME NEW w \in Worlds, NEW x, x = [w EXCEPT !.s.notready = FALSE],
         NEW g, g = [w EXCEPT !.s.peerclosing = TRUE]
  PROVE  [x EXCEPT !.s.peerclosing = TRUE] = [g EXCEPT !.s.notready = FALSE]
  BY DEF Worlds, Streams

LEMMA ReadySame ==
  ASSUME NEW w \in Worlds, ~w.s.notready
  PROVE  [w EXCEPT !.s.notready = FALSE] = w
<1>1. w.s.notready = FALSE
  BY WorldFields, StreamFields
<1> QED BY <1>1 DEF Worlds, Streams

-----------------------------------------------------------------------------
(* ripc_stream_recv_data: a ping, a packet that came before, the next one *)

\* What has happened to the end before it is updated
Grown(w, u) ==
  /\ u \in Worlds /\ u.route = w.route /\ u.p.state = w.p.state
  /\ u.s.use = w.s.use /\ u.s.dead = w.s.dead /\ u.s.req = w.s.req
  /\ u.s.readsleep = w.s.readsleep /\ u.s.writesleep = w.s.writesleep

LEMMA GrownUpdate ==
  ASSUME NEW k, NEW l, NEW e \in Ends, NEW w, NEW u, NEW y, NEW c, HoldsAt(k, l, e, u, y, c),
         Grown(w, u), w.s.use, NEW sendsth, NEW t, t = Update(u, sendsth)
  PROVE  Holds(e, t, y, c) /\ Proper(w, t) /\ Stays(w, t)
<1>1. u.s.use
  BY DEF Grown
<1>2. Holds(e, t, y, c) /\ Served(u, t)
  BY <1>1, UpdateHolds
<1>3. Proper(w, t) /\ Stays(w, t)
  BY <1>2, ServedProper DEF Grown
<1> QED BY <1>2, <1>3

LEMMA GrownProper ==
  ASSUME NEW w, NEW u, Grown(w, u)
  PROVE  Proper(w, u) /\ Stays(w, u)
  BY DEF Grown, Proper, Stays, Resting

\* The packet, with its flag noticed, acknowledges what is under way.
LEMMA TakeAdvance ==
  ASSUME NEW k, NEW l, NEW e \in Ends, NEW w, NEW g, NEW y, NEW c, HoldsAt(k, l, e, g, y, c),
         Noticed(w, g), NEW pkt, Takes(w, y, pkt), pkt.ack = w.s.my,
         NEW t, t = Advance([g EXCEPT !.s.notready = FALSE])
  PROVE  /\ HoldsAt(k, l, e, t, y, c) /\ Grown(w, t) /\ ~t.s.notready
         /\ t.s.data = w.s.data /\ t.s.peer = w.s.peer
<1>1. g.s.use /\ g.s.req = "none" /\ pkt \in y.n /\ pkt.kind = "data" /\ pkt.ack = g.s.my
  BY DEF Takes, Noticed
<1>2. HoldsAt(k, l, e, t, y, c) /\ Advanced(g, t)
  BY <1>1, AdvanceHolds
<1>3. Grown(w, t)
  BY <1>2 DEF Grown, Advanced, Noticed
<1> QED BY <1>2, <1>3 DEF Advanced, Noticed

LEMMA PingHolds ==
  ASSUME NEW k, NEW l, NEW e \in Ends, NEW w, NEW y, NEW c, HoldsAt(k, l, e, w, y, c),
         NEW pkt, Takes(w, y, pkt), NEW x, x = [w EXCEPT !.s.notready = FALSE],
         NEW t, t = RecvPing(x, pkt)
  PROVE  Holds(e, t, y, c) /\ Proper(w, t) /\ Stays(w, t)
<1>o. w.room = MaxPackets[Peer(e)] /\ (c => w.route) /\ k \in Firsts(e) /\ l \in Firsts(Peer(e))
  BY DEF HoldsAt
<1>a. /\ w \in Worlds /\ w.s \in Streams /\ w.p \in Processes /\ w.n \subseteq Packets
      /\ y \in Sides /\ y.s \in Streams /\ y.p \in Processes /\ y.n \subseteq Packets
      /\ c \in BOOLEAN
  BY DEF HoldsAt, Worlds, Sides
<1>1. NotreadySet(w, FALSE, x)
  BY <1>a, IsNotreadySet
<1>2. x.s.my = w.s.my /\ Finished(x.s) = Finished(w.s) /\ x \in Worlds
      /\ x.p = w.p /\ x.n = w.n /\ x.room = w.room /\ x.route = w.route
  BY <1>1 DEF NotreadySet, Finished
<1>3. CASE pkt.ack # w.s.my
  <2>1. t = x
    BY <1>2, <1>3 DEF RecvPing
  <2>2. ~w.s.notready
    BY <1>3, PacketSays
  <2>3. t = w
    BY <1>a, <2>1, <2>2, ReadySame
  <2> QED BY <1>o, <2>3, ProperSame DEF Holds
<1>4. CASE pkt.ack = w.s.my /\ Finished(w.s)
  <2> DEFINE v == NextNumber(x)
  <2>1. t = Finish(v)
    BY <1>2, <1>4 DEF RecvPing
  <2>2. /\ v \in Worlds /\ v.p = w.p /\ v.n = w.n /\ v.room = w.room /\ v.route = w.route
        /\ v.s.req = w.s.req /\ v.s.retries = w.s.retries
    <3>1. v = NextNumber(x)
      OBVIOUS
    <3> HIDE DEF v
    <3>2. /\ x \in Worlds /\ x.p = w.p /\ x.n = w.n /\ x.room = w.room /\ x.route = w.route
          /\ x.s.req = w.s.req /\ x.s.retries = w.s.retries
      BY <1>1 DEF NotreadySet
    <3> QED BY <3>1, <3>2, NextFields
  <2> HIDE DEF v
  <2> QED BY <1>4, <2>1, <2>2, FinishHolds
<1>5. CASE pkt.ack = w.s.my /\ ~Finished(w.s)
  <2> DEFINE u == Advance(x)
  <2>1. t = Update(u, TRUE)
    BY <1>2, <1>5 DEF RecvPing
  <2>2. u = Advance([w EXCEPT !.s.notready = FALSE])
    OBVIOUS
  <2> HIDE DEF u
  <2>3. Noticed(w, w)
    BY <1>a DEF Noticed
  <2>4. HoldsAt(k, l, e, u, y, c) /\ Grown(w, u)
    BY <1>5, <2>2, <2>3, TakeAdvance
  <2>5. w.s.use
    BY DEF Takes
  <2> QED BY <2>1, <2>4, <2>5, GrownUpdate
<1> QED BY <1>3, <1>4, <1>5

\* Both ends are closing: the stream is dead.
LEMMA BothClosing ==
  ASSUME NEW k, NEW l, NEW e \in Ends, NEW w, NEW y, NEW c, HoldsAt(k, l, e, w, y, c),
         NEW pkt, Takes(w, y, pkt), "CLOSING" \in pkt.flags, w.s.closing,
         NEW x, x = [w EXCEPT !.s.notready = FALSE],
         NEW t, t = Update(Reset([x EXCEPT !.s.dead = TRUE]), TRUE)
  PROVE  Holds(e, t, y, c) /\ Proper(w, t) /\ Stays(w, t)
<1>a. /\ w \in Worlds /\ w.s \in Streams /\ w.p \in Processes /\ w.n \subseteq Packets
      /\ y \in Sides /\ y.s \in Streams /\ y.p \in Processes /\ y.n \subseteq Packets
      /\ c \in BOOLEAN
  BY DEF HoldsAt, Worlds, Sides
<1> DEFINE v == [w EXCEPT !.s.dead = TRUE]
           z == [v EXCEPT !.s.notready = FALSE]
           u == Reset(z)
<1>1. z = [x EXCEPT !.s.dead = TRUE]
  BY <1>a DEF Worlds, Streams
<1>2. t = Update(u, TRUE)
  BY <1>1
<1>3. w.s.use /\ w.s.req = "none" /\ ~w.s.dead /\ pkt \in y.n /\ pkt.kind = "data"
  BY DEF Takes
<1>4. /\ e = "acceptor" /\ y.s.use => y.s.req # "sent"
      /\ e = "requester" /\ c /\ y.s.use /\ y.s.req = "sent" => y.s.closing \/ y.s.dead
      /\ y.s.closing \/ ~y.s.use
  BY PacketSays
<1>5. HoldsAt(k, l, e, v, y, c) /\ DeadSet(w, TRUE, v)
  BY ZenonT(60), <1>3, <1>4, DeadHolds
<1> HIDE DEF v
<1>6. v \in Worlds /\ v.s.use /\ v.s.dead /\ v.s.closing /\ v.s.req = "none"
  BY <1>3, <1>5 DEF DeadSet
<1>7. NotreadySet(v, FALSE, z)
  BY <1>6, IsNotreadySet
<1>8. Meeting(e, z, y, c)
  <2>1. Meeting(e, v, y, c)
    BY <1>5 DEF HoldsAt, GoodAt
  <2>2. HasData(y)
    BY <1>3 DEF HasData
  <2>3. z.s.use /\ z.s.req = "none" /\ z.n = v.n
    BY <1>6, <1>7 DEF NotreadySet
  <2> HIDE DEF z
  <2>4. CASE e = "requester"
    BY <1>6, <2>1, <2>2, <2>3, <2>4 DEF Meeting, Handshake, HasReset
  <2>5. CASE e # "requester"
    BY <1>3, <1>6, <2>1, <2>2, <2>3, <2>5 DEF Meeting, Handshake, HasReset
  <2> QED BY <2>4, <2>5
<1>9. HoldsAt(k, l, e, z, y, c)
  BY <1>5, <1>6, <1>8, ReadyHolds
<1> HIDE DEF z
<1>10. z.s.use /\ z.s.dead /\ z.s.closing /\ z.s.req = "none" /\ ~z.s.notready
  BY <1>6, <1>7 DEF NotreadySet
<1>11. HoldsAt(k, l, e, u, y, c) /\ PutIn(z, Note("reset"), u)
  <2>1. c /\ y.s.use /\ ~y.s.closing => Complete(k, z, y)
    BY <1>4
  <2> QED BY <1>4, <1>9, <1>10, <2>1, ResetHolds
<1> HIDE DEF u
<1>12. u.s = z.s /\ u.p = z.p /\ u.route = z.route
  BY <1>11 DEF PutIn
<1>13. Holds(e, t, y, c) /\ Served(u, t)
  BY <1>2, <1>10, <1>11, <1>12, UpdateHolds
<1>14. /\ u.s.use = w.s.use /\ u.s.dead /\ ~u.s.notready /\ u.s.req = w.s.req /\ u.s.readsleep = w.s.readsleep
       /\ u.s.writesleep = w.s.writesleep /\ u.p.state = w.p.state /\ u.route = w.route
  BY ZenonT(60), <1>3, <1>5, <1>7, <1>10, <1>12 DEF DeadSet, NotreadySet
<1>15. Proper(w, t) /\ Stays(w, t)
  BY <1>13, <1>14, ServedProper
<1> QED BY <1>13, <1>15

LEMMA OldHolds ==
  ASSUME NEW k, NEW l, NEW e \in Ends, NEW w, NEW y, NEW c, HoldsAt(k, l, e, w, y, c),
         NEW pkt, Takes(w, y, pkt), NEW x, x = [w EXCEPT !.s.notready = FALSE],
         NEW t, t = RecvOld(x, pkt)
  PROVE  Holds(e, t, y, c) /\ Proper(w, t) /\ Stays(w, t)
<1>a. /\ w \in Worlds /\ w.s \in Streams /\ w.p \in Processes /\ w.n \subseteq Packets
      /\ y \in Sides /\ y.s \in Streams /\ y.p \in Processes /\ y.n \subseteq Packets
      /\ c \in BOOLEAN
  BY DEF HoldsAt, Worlds, Sides
<1> DEFINE g == IF "CLOSING" \in pkt.flags THEN [w EXCEPT !.s.peerclosing = TRUE] ELSE w
           z == IF "CLOSING" \in pkt.flags THEN [x EXCEPT !.s.peerclosing = TRUE] ELSE x
<1>1. NotreadySet(w, FALSE, x)
  BY <1>a, IsNotreadySet
<1>2. x.s.my = w.s.my /\ Finished(x.s) = Finished(w.s) /\ x.s.closing = w.s.closing
  BY <1>1 DEF NotreadySet, Finished
<1>3. z = [g EXCEPT !.s.notready = FALSE]
  <2>1. CASE "CLOSING" \in pkt.flags
    <3>1. g = [w EXCEPT !.s.peerclosing = TRUE] /\ z = [x EXCEPT !.s.peerclosing = TRUE]
      BY <2>1
    <3> HIDE DEF g, z
    <3> QED BY ZenonT(60), <1>a, <3>1, ReadyNoticed
  <2>2. CASE "CLOSING" \notin pkt.flags
    BY <2>2
  <2> QED BY <2>1, <2>2
<1>4. HoldsAt(k, l, e, g, y, c) /\ Noticed(w, g)
  BY NoticeHolds
<1>5. w.s.use
  BY DEF Takes
<1>6. CASE "CLOSING" \in pkt.flags /\ w.s.closing
  <2>1. t = Update(Reset([x EXCEPT !.s.dead = TRUE]), TRUE)
    BY <1>2, <1>6 DEF RecvOld
  <2> QED BY <1>6, <2>1, BothClosing
<1>7. CASE ~("CLOSING" \in pkt.flags /\ w.s.closing) /\ pkt.ack = w.s.my /\ Finished(w.s)
  <2> DEFINE v == NextNumber(z)
  <2>1. t = Finish(v)
    BY <1>2, <1>7 DEF RecvOld
  <2>2. NotreadySet(g, FALSE, z)
    <3>1. g \in Worlds
      BY <1>4 DEF Noticed
    <3> QED BY <1>3, <3>1, IsNotreadySet
  <2> HIDE DEF z, g
  <2>3. /\ z \in Worlds /\ z.p = w.p /\ z.n = w.n /\ z.room = w.room /\ z.route = w.route
        /\ z.s.req = w.s.req /\ z.s.retries = w.s.retries
    BY <1>4, <2>2 DEF NotreadySet, Noticed
  <2>4. /\ v \in Worlds /\ v.p = w.p /\ v.n = w.n /\ v.room = w.room /\ v.route = w.route
        /\ v.s.req = w.s.req /\ v.s.retries = w.s.retries
    BY <2>3, NextFields
  <2> HIDE DEF v
  <2> QED BY <1>7, <2>1, <2>4, FinishHolds
<1>8. CASE ~("CLOSING" \in pkt.flags /\ w.s.closing) /\ ~(pkt.ack = w.s.my /\ Finished(w.s))
  <2> DEFINE u == IF pkt.ack = w.s.my THEN Advance(z) ELSE z
  <2>1. t = Update(u, TRUE)
    <3>1. t = CASE "CLOSING" \in pkt.flags /\ x.s.closing ->
                     Update(Reset([x EXCEPT !.s.dead = TRUE]), TRUE)
                [] ~("CLOSING" \in pkt.flags /\ x.s.closing) /\ pkt.ack = x.s.my /\ Finished(x.s) ->
                     Finish(NextNumber(z))
                [] OTHER -> Update(IF pkt.ack = x.s.my THEN Advance(z) ELSE z, TRUE)
      BY DEF RecvOld
    <3> HIDE DEF g, z
    <3>2. t = Update(IF pkt.ack = x.s.my THEN Advance(z) ELSE z, TRUE)
      BY <1>2, <1>8, <3>1
    <3> QED BY <1>2, <3>2
  <2> HIDE DEF g, z
  <2>2. HoldsAt(k, l, e, u, y, c) /\ Grown(w, u)
    <3>1. CASE pkt.ack = w.s.my
      <4>1. u = Advance([g EXCEPT !.s.notready = FALSE])
        BY <1>3, <3>1
      <4> HIDE DEF u
      <4> QED BY <1>4, <3>1, <4>1, TakeAdvance
    <3>2. CASE pkt.ack # w.s.my
      <4>1. ~g.s.notready /\ g \in Worlds
        <5>1. ~w.s.notready
          BY <3>2, PacketSays
        <5> QED BY <1>4, <5>1 DEF Noticed
      <4>2. u = g
        BY <1>3, <3>2, <4>1, ReadySame
      <4> HIDE DEF u
      <4> QED BY <1>4, <4>2 DEF Noticed, Grown
    <3> QED BY <3>1, <3>2
  <2> HIDE DEF u
  <2> QED BY <1>5, <2>1, <2>2, GrownUpdate
<1> QED BY <1>6, <1>7, <1>8

LEMMA NewHolds ==
  ASSUME NEW k, NEW l, NEW e \in Ends, NEW w, NEW y, NEW c, HoldsAt(k, l, e, w, y, c),
         NEW pkt, Takes(w, y, pkt), pkt.number = w.s.peer + 1,
         NEW x, x = [w EXCEPT !.s.notready = FALSE], NEW t, t = RecvNew(x, pkt)
  PROVE  Holds(e, t, y, c) /\ Proper(w, t) /\ Stays(w, t)
<1>o. w.room = MaxPackets[Peer(e)] /\ (c => w.route) /\ k \in Firsts(e) /\ l \in Firsts(Peer(e))
  BY DEF HoldsAt
<1>a. /\ w \in Worlds /\ w.s \in Streams /\ w.p \in Processes /\ w.n \subseteq Packets
      /\ y \in Sides /\ y.s \in Streams /\ y.p \in Processes /\ y.n \subseteq Packets
      /\ c \in BOOLEAN
  BY DEF HoldsAt, Worlds, Sides
<1> DEFINE g == IF "CLOSING" \in pkt.flags THEN [w EXCEPT !.s.peerclosing = TRUE] ELSE w
           z == IF "CLOSING" \in pkt.flags THEN [x EXCEPT !.s.peerclosing = TRUE] ELSE x
           u == IF pkt.ack = w.s.my THEN Advance(z) ELSE z
<1>1. NotreadySet(w, FALSE, x)
  BY <1>a, IsNotreadySet
<1>2. x.s.my = w.s.my /\ Finished(x.s) = Finished(w.s) /\ x.s.data = w.s.data
  BY <1>1 DEF NotreadySet, Finished
<1>3. z = [g EXCEPT !.s.notready = FALSE]
  <2>1. CASE "CLOSING" \in pkt.flags
    <3>1. g = [w EXCEPT !.s.peerclosing = TRUE] /\ z = [x EXCEPT !.s.peerclosing = TRUE]
      BY <2>1
    <3> HIDE DEF g, z
    <3> QED BY ZenonT(60), <1>a, <3>1, ReadyNoticed
  <2>2. CASE "CLOSING" \notin pkt.flags
    BY <2>2
  <2> QED BY <2>1, <2>2
<1>4. HoldsAt(k, l, e, g, y, c) /\ Noticed(w, g)
  BY NoticeHolds
<1>5. w.s.use /\ pkt \in y.n /\ pkt.kind = "data"
  BY DEF Takes
<1>6. CASE pkt.ack = w.s.my /\ Finished(w.s)
  <2> DEFINE v1 == NextNumber(z)
             v == [v1 EXCEPT !.s.dead = TRUE]
  <2>1. t = Finish(v)
    BY <1>2, <1>6 DEF RecvNew
  <2>2. NotreadySet(g, FALSE, z)
    <3>1. g \in Worlds
      BY <1>4 DEF Noticed
    <3> QED BY <1>3, <3>1, IsNotreadySet
  <2> HIDE DEF z, g
  <2>3. /\ z \in Worlds /\ z.p = w.p /\ z.n = w.n /\ z.room = w.room /\ z.route = w.route
        /\ z.s.req = w.s.req /\ z.s.retries = w.s.retries
    BY <1>4, <2>2 DEF NotreadySet, Noticed
  <2>4. /\ v1 \in Worlds /\ v1.p = w.p /\ v1.n = w.n /\ v1.room = w.room /\ v1.route = w.route
        /\ v1.s.req = w.s.req /\ v1.s.retries = w.s.retries
    BY <2>3, NextFields
  <2> HIDE DEF v1
  <2>5. DeadSet(v1, TRUE, v)
    BY <2>4, IsDeadSet
  <2> HIDE DEF v
  <2>6. /\ v \in Worlds /\ v.p = w.p /\ v.n = w.n /\ v.room = w.room /\ v.route = w.route
        /\ v.s.req = w.s.req /\ v.s.retries = w.s.retries
    BY <2>4, <2>5 DEF DeadSet
  <2> QED BY <1>6, <2>1, <2>6, FinishHolds
<1>7. ASSUME ~(pkt.ack = w.s.my /\ Finished(w.s))
      PROVE  /\ HoldsAt(k, l, e, u, y, c) /\ Grown(w, u) /\ ~u.s.notready
             /\ u.s.data = w.s.data /\ u.s.peer = w.s.peer
  <2> HIDE DEF g, z
  <2>1. CASE pkt.ack = w.s.my
    <3>1. u = Advance([g EXCEPT !.s.notready = FALSE])
      BY <1>3, <2>1
    <3> HIDE DEF u
    <3> QED BY <1>4, <2>1, <3>1, TakeAdvance
  <2>2. CASE pkt.ack # w.s.my
    <3>1. ~g.s.notready /\ g \in Worlds
      <4>1. ~w.s.notready
        BY <2>2, PacketSays
      <4> QED BY <1>4, <4>1 DEF Noticed
    <3>2. u = g
      BY <1>3, <2>2, <3>1, ReadySame
    <3> HIDE DEF u
    <3> QED BY <1>4, <3>1, <3>2 DEF Noticed, Grown
  <2> QED BY <2>1, <2>2
<1>8. CASE ~(pkt.ack = w.s.my /\ Finished(w.s)) /\ (pkt.ack = w.s.my \/ w.s.data = <<>>)
  <2> DEFINE v == Link(u, pkt)
  <2>1. t = Update(v, TRUE)
    <3>1. t = IF pkt.ack = x.s.my /\ Finished(x.s) THEN Finish([NextNumber(z) EXCEPT !.s.dead = TRUE])
              ELSE IF pkt.ack = x.s.my \/ x.s.data = <<>>
                   THEN Update(Link(IF pkt.ack = x.s.my THEN Advance(z) ELSE z, pkt), TRUE)
                   ELSE IF pkt.ack = x.s.my THEN Advance(z) ELSE z
      BY DEF RecvNew
    <3> HIDE DEF g, z
    <3>2. t = Update(Link(IF pkt.ack = x.s.my THEN Advance(z) ELSE z, pkt), TRUE)
      BY <1>2, <1>8, <3>1
    <3> QED BY <1>2, <3>2
  <2> HIDE DEF u
  <2>2. HoldsAt(k, l, e, v, y, c) /\ Grown(w, v)
    <3>1. CASE w.s.data # <<>>
      <4>1. v = u
        BY <1>7, <1>8, <3>1 DEF Link
      <4> HIDE DEF v
      <4> QED BY <1>7, <1>8, <4>1
    <3>2. CASE w.s.data = <<>>
      <4>1. u.s.use /\ pkt.number = u.s.peer + 1
        BY <1>5, <1>7, <1>8 DEF Grown
      <4>2. HoldsAt(k, l, e, v, y, c) /\ \E m, r : PeerSet(u, m, r, v)
        BY <1>5, <1>7, <1>8, <3>2, <4>1, LinkHolds
      <4>3. PICK m, r : PeerSet(u, m, r, v)
        BY <4>2
      <4> HIDE DEF v
      <4>4. Grown(w, v)
        BY <1>7, <1>8, <4>3 DEF Grown, PeerSet
      <4> QED BY <4>2, <4>4
    <3> QED BY <3>1, <3>2
  <2> HIDE DEF v
  <2> QED BY <1>5, <2>1, <2>2, GrownUpdate
<1>9. CASE ~(pkt.ack = w.s.my) /\ w.s.data # <<>>
  <2>1. t = u
    BY <1>2, <1>9 DEF RecvNew
  <2> HIDE DEF u
  <2>2. Proper(w, u) /\ Stays(w, u)
    BY <1>7, <1>9, GrownProper
  <2> QED BY <1>o, <1>7, <1>9, <2>1, <2>2 DEF Holds
<1> QED BY <1>6, <1>8, <1>9

LEMMA RecvDataHolds ==
  ASSUME NEW k, NEW l, NEW e \in Ends, NEW w, NEW y, NEW c, HoldsAt(k, l, e, w, y, c),
         NEW pkt \in y.n, pkt.kind = "data", NEW t, t = RecvData(w, pkt)
  PROVE  Holds(e, t, y, c) /\ Proper(w, t) /\ Stays(w, t)
<1>o. w.room = MaxPackets[Peer(e)] /\ (c => w.route) /\ k \in Firsts(e) /\ l \in Firsts(Peer(e))
  BY DEF HoldsAt
<1>a. /\ w \in Worlds /\ w.s \in Streams /\ w.p \in Processes /\ w.n \subseteq Packets
      /\ y \in Sides /\ y.s \in Streams /\ y.p \in Processes /\ y.n \subseteq Packets
      /\ c \in BOOLEAN
  BY DEF HoldsAt, Worlds, Sides
<1> DEFINE x == [w EXCEPT !.s.notready = FALSE]
<1>1. CASE ~w.s.use \/ w.s.req # "none" \/ w.s.dead
  <2>1. t = Reset(w)
    BY <1>1 DEF RecvData
  <2> QED BY <1>1, <2>1, RefuseDataHolds
<1>2. CASE ~(~w.s.use \/ w.s.req # "none" \/ w.s.dead)
  <2>1. Takes(w, y, pkt)
    BY <1>2 DEF Takes
  <2>2. pkt.number \in Nat /\ w.s.peer \in Nat
    BY <1>a, <2>1, PacketSays, StreamFields
  <2>3. t = CASE pkt.number = 0 -> RecvPing(x, pkt)
              [] pkt.number # 0 /\ pkt.number = w.s.peer -> RecvOld(x, pkt)
              [] pkt.number # 0 /\ pkt.number = w.s.peer + 1 -> RecvNew(x, pkt)
              [] OTHER -> x
    BY <1>2 DEF RecvData
  <2>4. w.s.peer # w.s.peer + 1
    BY <2>2
  <2>5. CASE pkt.number = 0
    <3>1. t = RecvPing(x, pkt)
      <4> HIDE DEF x
      <4> QED BY <2>3, <2>5
    <3> HIDE DEF x
    <3> QED BY <2>1, <3>1, PingHolds DEF x
  <2>6. CASE pkt.number # 0 /\ pkt.number = w.s.peer
    <3>1. t = RecvOld(x, pkt)
      <4> HIDE DEF x
      <4> QED BY <2>3, <2>4, <2>6
    <3> QED BY <2>1, <3>1, OldHolds
  <2>7. CASE pkt.number # 0 /\ pkt.number = w.s.peer + 1
    <3>1. t = RecvNew(x, pkt)
      <4> HIDE DEF x
      <4> QED BY <2>3, <2>4, <2>7
    <3> QED BY <2>1, <2>7, <3>1, NewHolds
  <2>8. CASE pkt.number # 0 /\ pkt.number # w.s.peer /\ pkt.number # w.s.peer + 1
    <3>1. t = x
      <4> HIDE DEF x
      <4> QED BY <2>3, <2>8
    <3>2. ~w.s.notready
      BY <2>1, <2>8, PacketSays
    <3>3. t = w
      BY <1>a, <3>1, <3>2, ReadySame
    <3> QED BY <1>o, <3>3, ProperSame DEF Holds
  <2> QED BY <2>5, <2>6, <2>7, <2>8
<1> QED BY <1>1, <1>2

LEMMA RecvHolds ==
  ASSUME NEW k, NEW l, NEW e \in Ends, NEW w, NEW y, NEW c, HoldsAt(k, l, e, w, y, c),
         NEW pkt \in y.n, NEW t, t = Recv(w, pkt)
  PROVE  Holds(e, t, y, c) /\ Proper(w, t) /\ Stays(w, t)
<1>a. /\ w \in Worlds /\ w.s \in Streams /\ w.p \in Processes /\ w.n \subseteq Packets
      /\ y \in Sides /\ y.s \in Streams /\ y.p \in Processes /\ y.n \subseteq Packets
      /\ c \in BOOLEAN
  BY DEF HoldsAt, Worlds, Sides
<1>1. pkt.kind \in {"resp", "ack_ack", "reset", "data"}
  BY <1>a DEF Packets
<1>2. CASE pkt.kind = "resp"
  <2>1. t = RecvResp(w)
    BY <1>2 DEF Recv
  <2> QED BY <1>2, <2>1, RespHolds
<1>3. CASE pkt.kind = "ack_ack"
  <2>1. t = RecvAckAck(w)
    BY <1>3 DEF Recv
  <2> QED BY <1>3, <2>1, AckAckHolds
<1>4. CASE pkt.kind = "reset"
  <2>1. t = RecvReset(w)
    BY <1>4 DEF Recv
  <2> QED BY <1>4, <2>1, RecvResetHolds
<1>5. CASE pkt.kind = "data"
  <2>1. t = RecvData(w, pkt)
    BY <1>5 DEF Recv
  <2> QED BY <1>5, <2>1, RecvDataHolds
<1> QED BY <1>1, <1>2, <1>3, <1>4, <1>5

-----------------------------------------------------------------------------
(* close_this_stream, for a process that closes its stream or ends *)

ShutDown(w, t) ==
  /\ t \in Worlds /\ t.route = w.route
  /\ w.s.dead => ~t.s.use
  /\ t.s.req = "sent" => w.s.req = "sent"
  /\ t.p.state = w.p.state \/ (w.p.state = "asleep" /\ t.p.state = "lost")

LEMMA CloseHolds ==
  ASSUME NEW k, NEW l, NEW e \in Ends, NEW w, NEW y, NEW c, HoldsAt(k, l, e, w, y, c), w.s.use,
         ~(e = "requester" /\ w.s.req = "sent"),
         w.s.writesleep => w.s.req = "stale" \/ w.s.dead \/ w.s.peerclosing,
         NEW t, t = CloseThisStream(w, FALSE)
  PROVE  Holds(e, t, y, c) /\ ShutDown(w, t)
<1>o. w.room = MaxPackets[Peer(e)] /\ (c => w.route) /\ k \in Firsts(e) /\ l \in Firsts(Peer(e))
  BY DEF HoldsAt
<1>1. CASE w.s.dead \/ w.s.peerclosing
  <2>1. t = Discard(w)
    BY <1>1 DEF CloseThisStream
  <2>2. c /\ y.s.use /\ ~y.s.closing => Complete(k, w, y)
    BY <1>1, GoneComplete
  <2>3. HoldsAt(k, l, e, t, y, c) /\ Freed(w, t)
    BY <2>1, <2>2, DiscardHolds
  <2>4. ShutDown(w, t)
    <3>1. ~t.s.use /\ t.s.req = w.s.req
      BY <2>3, FreedFields DEF HoldsAt
    <3> QED BY <2>3, <3>1 DEF ShutDown, Freed
  <2> QED BY <1>o, <2>3, <2>4 DEF Holds
<1>2. CASE ~(w.s.dead \/ w.s.peerclosing)
  <2> DEFINE x == [w EXCEPT !.s.closing = TRUE]
  <2>1. t = IF x.s.out = <<>> THEN SendData(x) ELSE x
    BY <1>2 DEF CloseThisStream
  <2>2. HoldsAt(k, l, e, x, y, c) /\ ClosingSet(w, TRUE, x)
    BY <1>2, ClosingHolds
  <2> HIDE DEF x
  <2>3. CASE t = x
    <3>1. ShutDown(w, t)
      BY <1>2, <2>2, <2>3 DEF ShutDown, ClosingSet
    <3> QED BY <1>o, <2>2, <2>3, <3>1 DEF Holds
  <2>4. CASE t = SendData(x)
    <3>1. x.s.use /\ x.s.closing /\ ~(e = "requester" /\ x.s.req = "sent")
      BY <2>2 DEF ClosingSet
    <3>2. Holds(e, t, y, c) /\ SentOn(x, t)
      BY <2>2, <2>4, <3>1, SendDataHolds
    <3>3. ShutDown(w, t)
      BY <1>2, <2>2, <3>2 DEF ShutDown, ClosingSet, SentOn
    <3> QED BY <3>2, <3>3
  <2> QED BY <2>1, <2>3, <2>4
<1> QED BY <1>1, <1>2

\* IPC_STREAM_CLOSE
LEMMA CloseProper ==
  ASSUME NEW k, NEW l, NEW e \in Ends, NEW w, NEW y, NEW c, HoldsAt(k, l, e, w, y, c), w.s.use,
         ~(e = "requester" /\ w.s.req = "sent"), w.p.state = "running",
         NEW t, t = CloseThisStream(w, FALSE)
  PROVE  Holds(e, t, y, c) /\ Proper(w, t) /\ (w.s.dead => ~t.s.use)
<1>d. Manner(e, w)
  BY DEF HoldsAt, GoodAt
<1>1. w.s.writesleep => w.s.dead \/ w.s.peerclosing
  BY <1>d DEF Manner
<1>2. Holds(e, t, y, c) /\ ShutDown(w, t)
  BY <1>1, CloseHolds
<1>3. t.p.state \notin {"asleep", "lost"}
  BY <1>2 DEF ShutDown
<1>4. Proper(w, t)
  BY <1>2, <1>3 DEF ShutDown, Proper, Resting
<1> QED BY <1>2, <1>4 DEF ShutDown

\* ipc_stream_task_cleanup
LEMMA DieHolds ==
  ASSUME NEW k, NEW l, NEW e \in Ends, NEW w, NEW y, NEW c, HoldsAt(k, l, e, w, y, c), w.s.use,
         ~(e = "requester" /\ w.s.req = "sent"), w.s.req # "stale",
         NEW t, t = [CloseThisStream([w EXCEPT !.s.readsleep = FALSE, !.s.writesleep = FALSE,
                                               !.s.req = "none"], FALSE)
                     EXCEPT !.p.state = "ended"]
  PROVE  Holds(e, t, y, c) /\ Proper(w, t) /\ (w.s.dead => ~t.s.use)
<1>a. /\ w \in Worlds /\ w.s \in Streams /\ w.p \in Processes /\ w.n \subseteq Packets
      /\ y \in Sides /\ y.s \in Streams /\ y.p \in Processes /\ y.n \subseteq Packets
      /\ c \in BOOLEAN
  BY DEF HoldsAt, Worlds, Sides
<1>c. Shape(e, w)
  BY DEF HoldsAt, GoodAt
<1>d. Manner(e, w)
  BY DEF HoldsAt, GoodAt
<1>n. Meeting(e, w, y, c)
  BY SMTT(40) DEF HoldsAt, GoodAt
<1> DEFINE v == [w EXCEPT !.s.readsleep = FALSE, !.s.writesleep = FALSE, !.s.req = "none"]
           u == CloseThisStream(v, FALSE)
<1>1. EndedSet(w, "none", v)
  BY Zenon, <1>a, IsEndedSet
<1>2. t = [u EXCEPT !.p.state = "ended"]
  OBVIOUS
<1> HIDE DEF v
<1>3. Quiet(w, v)
  BY <1>1, <1>c DEF Quiet, EndedSet, Shape
<1>4. Manner(e, v)
  BY <1>1, <1>d DEF Manner, EndedSet
<1>5. Meeting(e, v, y, c)
  <2>1. /\ v.s.use = w.s.use /\ v.s.req = "none" /\ v.s.closing = w.s.closing /\ v.s.dead = w.s.dead
        /\ v.s.notready = w.s.notready /\ v.n = w.n
    BY <1>1 DEF EndedSet
  <2>2. CASE e = "requester"
    BY <1>n, <2>1, <2>2 DEF Meeting, Handshake, HasReset, HasData
  <2>3. CASE e # "requester"
    BY <1>n, <2>1, <2>3 DEF Meeting, Handshake, HasReset, HasData
  <2> QED BY <2>2, <2>3
<1>6. v.p.eof = w.p.eof /\ v.s.req = "none" /\ ~v.s.writesleep /\ v.s.use /\ v.s.dead = w.s.dead
  BY <1>1 DEF EndedSet
<1>7. HoldsAt(k, l, e, v, y, c)
  BY <1>3, <1>4, <1>5, <1>6, QuietHolds
<1>8. Holds(e, u, y, c) /\ ShutDown(v, u)
  BY <1>6, <1>7, CloseHolds
<1> HIDE DEF u
<1>9. PICK k1 \in Firsts(e), l1 \in Firsts(Peer(e)) : HoldsAt(k1, l1, e, u, y, c)
  BY <1>8 DEF Holds
<1>10. u \in Worlds /\ Shape(e, u) /\ Manner(e, u) /\ Meeting(e, u, y, c)
  BY <1>9 DEF HoldsAt, GoodAt
<1>11. StateSet(u, "ended", t)
  BY <1>2, <1>10, IsStateSet
<1>12. Quiet(u, t)
  <2>1. ~u.s.use => t.s = GivenBack(t.s)
    <3>1. t \in Worlds /\ t.s \in Streams /\ u.s \in Streams
      BY <1>10, <1>11, WorldFields DEF StateSet
    <3>2. t.s = u.s
      BY <1>11, <3>1, EqualStreams DEF StateSet
    <3> QED BY <1>10, <3>2 DEF Shape
  <2> QED BY <1>10, <1>11, <2>1 DEF Quiet, StateSet, Shape
<1>13. Manner(e, t)
  BY <1>10, <1>11 DEF Manner, StateSet
<1>14. Meeting(e, t, y, c)
  BY ZenonT(60), <1>10, <1>11 DEF Meeting, Handshake, HasReset, HasData, StateSet
<1>15. t.p.eof = u.p.eof
  BY <1>11 DEF StateSet
<1>16. HoldsAt(k1, l1, e, t, y, c)
  BY <1>9, <1>12, <1>13, <1>14, <1>15, QuietHolds
<1>17. t.s.use = u.s.use /\ t.s.req = u.s.req /\ t.p.state = "ended"
  BY <1>11 DEF StateSet
<1>18. u.s.req # "sent" /\ (w.s.dead => ~u.s.use)
  BY <1>6, <1>8 DEF ShutDown
<1>19. Proper(w, t)
  BY <1>17, <1>18 DEF Proper, Resting
<1> QED BY <1>16, <1>17, <1>18, <1>19 DEF Holds

-----------------------------------------------------------------------------
(* IPC_STREAM_READ and IPC_STREAM_WRITE *)

\* A process that runs goes to sleep on its stream.
LEMMA SleepForReading ==
  ASSUME NEW k, NEW l, NEW e \in Ends, NEW w, NEW y, NEW c, HoldsAt(k, l, e, w, y, c), w.s.use,
         ~(e = "requester" /\ w.s.req = "sent"), w.p.state = "running",
         NEW m \in Nat, NEW t, t = Sleep(w, "readsleep", m)
  PROVE  HoldsAt(k, l, e, t, y, c) /\ ReadSleepSet(w, m, t)
<1>a. /\ w \in Worlds /\ w.s \in Streams /\ w.p \in Processes /\ w.n \subseteq Packets
      /\ y \in Sides /\ y.s \in Streams /\ y.p \in Processes /\ y.n \subseteq Packets
      /\ c \in BOOLEAN
  BY DEF HoldsAt, Worlds, Sides
<1>c. Shape(e, w)
  BY DEF HoldsAt, GoodAt
<1>d. Manner(e, w)
  BY DEF HoldsAt, GoodAt
<1>1. ReadSleepSet(w, m, t)
  BY <1>a, IsReadSleepSet DEF Sleep
<1>2. Quiet(w, t)
  BY <1>1, <1>c DEF Quiet, ReadSleepSet, Shape
<1>3. w.s.writesleep => w.s.dead \/ w.s.peerclosing
  BY <1>d DEF Manner
<1>4. Manner(e, t)
  BY <1>1, <1>3, <1>d DEF Manner, ReadSleepSet
<1>5. t.s.req = w.s.req /\ t.p.eof = w.p.eof
  BY <1>1 DEF ReadSleepSet
<1> QED BY <1>1, <1>2, <1>4, <1>5, QuietChange

LEMMA SleepForWriting ==
  ASSUME NEW k, NEW l, NEW e \in Ends, NEW w, NEW y, NEW c, HoldsAt(k, l, e, w, y, c), w.s.use,
         ~(e = "requester" /\ w.s.req = "sent"), w.p.state = "running", ~w.s.closing,
         NEW m \in Nat, w.p.written + m <= MaxBytes[e], NEW t, t = Sleep(w, "writesleep", m)
  PROVE  HoldsAt(k, l, e, t, y, c) /\ WriteSleepSet(w, m, t)
<1>a. /\ w \in Worlds /\ w.s \in Streams /\ w.p \in Processes /\ w.n \subseteq Packets
      /\ y \in Sides /\ y.s \in Streams /\ y.p \in Processes /\ y.n \subseteq Packets
      /\ c \in BOOLEAN
  BY DEF HoldsAt, Worlds, Sides
<1>c. Shape(e, w)
  BY DEF HoldsAt, GoodAt
<1>d. Manner(e, w)
  BY DEF HoldsAt, GoodAt
<1>1. WriteSleepSet(w, m, t)
  BY <1>a, IsWriteSleepSet DEF Sleep
<1>2. Quiet(w, t)
  BY <1>1, <1>c DEF Quiet, WriteSleepSet, Shape
<1>3. ~w.s.readsleep
  BY <1>d DEF Manner
<1>4. Manner(e, t)
  BY <1>1, <1>3, <1>d DEF Manner, WriteSleepSet
<1>5. t.s.req = w.s.req /\ t.p.eof = w.p.eof
  BY <1>1 DEF WriteSleepSet
<1> QED BY <1>1, <1>2, <1>4, <1>5, QuietChange

\* An update that finds its process running, or asleep on a stream that is
\* alive, does not leave it resting.
LEMMA BusyUpdate ==
  ASSUME NEW k, NEW l, NEW e \in Ends, NEW w, NEW u, NEW y, NEW c, HoldsAt(k, l, e, u, y, c),
         w.s.use, ~w.s.dead, u.s.use, ~u.s.dead, u.s.req = w.s.req, u.route = w.route,
         u.p.state = "running" \/ (u.p.state = "asleep" /\ (u.s.readsleep \/ u.s.writesleep)),
         NEW t, t = u \/ \E sendsth : t = Update(u, sendsth)
  PROVE  Holds(e, t, y, c) /\ Proper(w, t) /\ Stays(w, t)
<1>1. u \in Worlds
  BY DEF HoldsAt
<1>2. u.s.req \in {"none", "sent", "stale"}
  BY <1>1, WorldFields, StreamFields
<1>3. CASE t = u
  <2>1. Proper(w, t) /\ Stays(w, t)
    BY <1>2, <1>3 DEF Proper, Stays, Resting
  <2>2. Holds(e, t, y, c)
    BY <1>3 DEF Holds, HoldsAt
  <2> QED BY <2>1, <2>2
<1>4. CASE \E sendsth : t = Update(u, sendsth)
  <2>1. Holds(e, t, y, c) /\ Served(u, t)
    BY <1>4, UpdateHolds
  <2>2. t.s.use /\ t.s.req = w.s.req /\ (w.route => ~t.s.dead)
    BY <2>1 DEF Served
  <2>3. t.p.state \in {"asleep", "lost"} => t.s.readsleep \/ t.s.writesleep
    BY <2>1 DEF Served
  <2>4. Proper(w, t) /\ Stays(w, t)
    BY <1>2, <2>2, <2>3 DEF Proper, Stays, Resting
  <2> QED BY <2>1, <2>4
<1> QED BY <1>3, <1>4

LEMMA ReadingHolds ==
  ASSUME NEW k, NEW l, NEW e \in Ends, NEW w, NEW y, NEW c, HoldsAt(k, l, e, w, y, c), w.s.use,
         ~(e = "requester" /\ w.s.req = "sent"), w.p.state = "running",
         NEW count \in Nat, NEW nonblock, NEW t, t = Reading(w, count, nonblock)
  PROVE  Holds(e, t, y, c) /\ Proper(w, t) /\ Stays(w, t)
<1>o. w.room = MaxPackets[Peer(e)] /\ (c => w.route) /\ k \in Firsts(e) /\ l \in Firsts(Peer(e))
  BY DEF HoldsAt
<1>a. /\ w \in Worlds /\ w.s \in Streams /\ w.p \in Processes /\ w.n \subseteq Packets
      /\ y \in Sides /\ y.s \in Streams /\ y.p \in Processes /\ y.n \subseteq Packets
      /\ c \in BOOLEAN
  BY DEF HoldsAt, Worlds, Sides
<1>1. Len(w.s.in) \in Nat
  BY <1>a, StreamFields
<1> DEFINE n == Least(count, Len(w.s.in))
           x == Consume(w, n)
           waits == n < count /\ ~nonblock
           m == count - n
           f == x.p.eof \/ n < count
<1>2. n \in Nat /\ n <= Len(w.s.in) /\ n <= count /\ (n = count \/ n = Len(w.s.in)) /\ m \in Nat
  BY <1>1 DEF Least
<1>3. t = IF w.s.dead THEN [x EXCEPT !.p.eof = f]
          ELSE Update(IF waits THEN Sleep(x, "readsleep", m) ELSE x, FALSE)
  BY DEF Reading
<1> HIDE DEF n, m
<1>4. HoldsAt(k, l, e, x, y, c) /\ Consumed(l, w, n, x)
  BY <1>2, ConsumeHolds
<1> HIDE DEF x
<1>5. /\ x \in Worlds /\ x.s.use /\ x.s.req = w.s.req /\ x.s.dead = w.s.dead /\ x.p.state = "running"
      /\ x.route = w.route /\ x.s.closing = w.s.closing /\ x.p.eof \in BOOLEAN
  <2>1. x \in Worlds
    BY <1>4 DEF Consumed
  <2>2. x.p.eof \in BOOLEAN
    BY <2>1, WorldFields, ProcessFields
  <2> QED BY <1>4, <2>1, <2>2 DEF Consumed
<1>6. CASE w.s.dead
  <2>1. f \in BOOLEAN
    BY <1>5
  <2>2. f => x.p.eof \/ n # count
    BY <1>2
  <2> HIDE DEF f
  <2>3. t = [x EXCEPT !.p.eof = f]
    BY <1>3, <1>6
  <2>4. EofSet(x, f, t)
    BY <1>5, <2>1, <2>3, IsEofSet
  <2>5. Quiet(x, t)
    <3>1. x.s.retries <= MaxResend
      BY <1>4 DEF HoldsAt, GoodAt, Shape
    <3> QED BY <1>5, <2>4, <3>1 DEF Quiet, EofSet
  <2>6. Manner(e, t)
    <3>1. Manner(e, x)
      BY <1>4 DEF HoldsAt, GoodAt
    <3> QED BY <1>5, <1>6, <2>4, <3>1 DEF Manner, EofSet
  <2>7. t.p.eof => x.p.eof \/ (c /\ x.s.use /\ ~x.s.closing => Complete(l, y, x) /\ x.s.in = <<>>)
    <3>1. ASSUME n # count PROVE x.s.in = <<>>
      <4>1. n = Len(w.s.in)
        BY <1>2, <3>1
      <4>2. Len(x.s.in) = 0
        BY <1>1, <1>4, <4>1 DEF Consumed
      <4>3. x.s.in \in Seq(Nat)
        BY <1>5, WorldFields, StreamFields
      <4> QED BY <4>2, <4>3
    <3>2. Endings(l, y, x, c)
      BY <1>4 DEF HoldsAt, GoodAt
    <3>3. t.p.eof = f
      BY <2>4 DEF EofSet
    <3> QED BY <1>5, <1>6, <2>2, <3>1, <3>2, <3>3 DEF Endings
  <2>8. HoldsAt(k, l, e, t, y, c)
    <3>1. t.s.req = x.s.req
      BY <2>4 DEF EofSet
    <3> QED BY <1>4, <1>5, <2>5, <2>6, <2>7, <3>1, QuietChange
  <2>9. t.s.use /\ t.s.dead /\ t.s.req = w.s.req /\ t.p.state = "running"
    BY <1>5, <1>6, <2>4 DEF EofSet
  <2>10. Proper(w, t) /\ Stays(w, t)
    BY <1>6, <2>9 DEF Proper, Stays, Resting
  <2> QED BY <1>o, <2>8, <2>10 DEF Holds
<1>7. CASE ~w.s.dead
  <2> DEFINE u == IF waits THEN Sleep(x, "readsleep", m) ELSE x
  <2>1. t = Update(u, FALSE)
    BY <1>3, <1>7
  <2>2. CASE waits
    <3>1. u = Sleep(x, "readsleep", m)
      BY <2>2
    <3> HIDE DEF u
    <3>2. HoldsAt(k, l, e, u, y, c) /\ ReadSleepSet(x, m, u)
      BY <1>2, <1>4, <1>5, <3>1, SleepForReading
    <3>3. /\ u.s.use /\ ~u.s.dead /\ u.s.req = w.s.req /\ u.route = w.route
          /\ u.p.state = "asleep" /\ u.s.readsleep
      BY <1>5, <1>7, <3>2 DEF ReadSleepSet
    <3> QED BY <1>7, <2>1, <3>2, <3>3, BusyUpdate
  <2>3. CASE ~waits
    <3>1. u = x
      BY <2>3
    <3> HIDE DEF u
    <3> QED BY <1>4, <1>5, <1>7, <2>1, <3>1, BusyUpdate
  <2> QED BY <2>2, <2>3
<1> QED BY <1>6, <1>7

LEMMA WritingHolds ==
  ASSUME NEW k, NEW l, NEW e \in Ends, NEW w, NEW y, NEW c, HoldsAt(k, l, e, w, y, c), w.s.use,
         ~(e = "requester" /\ w.s.req = "sent"), w.p.state = "running", ~w.s.dead, ~w.s.closing,
         NEW count \in Nat, w.p.written + count <= MaxBytes[e],
         NEW nonblock \in BOOLEAN, ~(nonblock /\ w.s.notready),
         NEW t, t = Writing(w, count, nonblock)
  PROVE  Holds(e, t, y, c) /\ Proper(w, t) /\ Stays(w, t)
<1>a. /\ w \in Worlds /\ w.s \in Streams /\ w.p \in Processes /\ w.n \subseteq Packets
      /\ y \in Sides /\ y.s \in Streams /\ y.p \in Processes /\ y.n \subseteq Packets
      /\ c \in BOOLEAN
  BY DEF HoldsAt, Worlds, Sides
<1>b. /\ k \in Nat /\ l \in Nat /\ Len(Kept(w.s)) \in Nat /\ Len(Kept(y.s)) \in Nat
      /\ Wanted(k, y) \in Nat /\ Wanted(l, w) \in Nat /\ Arrival(w, y) \in Nat /\ Arrival(y, w) \in Nat
      /\ MaxBytes[e] \in Nat /\ MaxPackets[Peer(e)] \in Nat /\ BufferLen \in Nat /\ BufferLen >= 1
  BY Numbers
<1>c. Shape(e, w)
  BY DEF HoldsAt, GoodAt
<1>d. Manner(e, w)
  BY DEF HoldsAt, GoodAt
<1>1. CASE ~nonblock
  <2> DEFINE u == Sleep(w, "writesleep", count)
  <2>1. t = u \/ t = Update(u, FALSE)
    <3> HIDE DEF u
    <3>1. t = CASE ~nonblock /\ w.s.notready -> u
                [] ~nonblock /\ ~w.s.notready -> Update(u, FALSE)
                [] OTHER -> Update(Accept(w, Least(count, Room(w.s))), FALSE)
      BY DEF Writing, u
    <3> QED BY <1>1, <3>1
  <2>2. HoldsAt(k, l, e, u, y, c) /\ WriteSleepSet(w, count, u)
    BY SleepForWriting
  <2> HIDE DEF u
  <2>3. /\ u.s.use /\ ~u.s.dead /\ u.s.req = w.s.req /\ u.route = w.route
        /\ u.p.state = "asleep" /\ u.s.writesleep
    BY <2>2 DEF WriteSleepSet
  <2> QED BY <2>1, <2>2, <2>3, BusyUpdate
<1>2. CASE nonblock
  <2>1. Len(w.s.out) \in Nat /\ w.p.written \in Nat /\ Len(w.s.out) <= BufferLen
    BY <1>a, <1>c, StreamFields, ProcessFields DEF Shape
  <2>2. Room(w.s) \in Nat
    <3>1. ASSUME NEW a \in Nat, NEW b \in Nat, a <= b PROVE b - a \in Nat
      BY <3>1
    <3>2. BufferLen - Len(w.s.out) \in Nat
      BY <1>b, <2>1, <3>1
    <3> QED BY <3>2 DEF Room
  <2> DEFINE n == Least(count, Room(w.s))
             u == Accept(w, n)
  <2>3. t = Update(u, FALSE)
    BY <1>2 DEF Writing
  <2>4. n \in Nat /\ n <= Room(w.s) /\ n <= count
    BY <2>2 DEF Least
  <2> HIDE DEF n
  <2>5. w.p.written + n <= MaxBytes[e]
    <3>1. ASSUME NEW a \in Nat, NEW b \in Nat, a + count <= b PROVE a + n <= b
      BY <2>4, <3>1
    <3> QED BY <1>b, <2>1, <3>1
  <2>6. w.s.writesleep => w.s.peerclosing
    BY <1>d DEF Manner
  <2>7. HoldsAt(k, l, e, u, y, c)
    BY <1>2, <2>4, <2>5, <2>6, AcceptHolds
  <2>8. Accepted(w, n, u)
    <3>1. Run(w.s.out, Oldest(w))
      BY <1>c DEF Shape
    <3> QED BY <1>a, <2>4, <3>1, AcceptFields
  <2> HIDE DEF u
  <2>9. /\ u.s.use /\ ~u.s.dead /\ u.s.req = w.s.req /\ u.route = w.route /\ u.p.state = "running"
    BY <2>8 DEF Accepted
  <2> QED BY <2>3, <2>7, <2>9, BusyUpdate
<1> QED BY <1>1, <1>2

-----------------------------------------------------------------------------
(* The timers: a fault is noticed. *)

LEMMA HoldsUpset ==
  ASSUME NEW k, NEW l, NEW e \in Ends, NEW w, NEW y, NEW c, HoldsAt(k, l, e, w, y, c)
  PROVE  HoldsAt(k, l, e, w, y, FALSE)
  BY GoodUpset DEF HoldsAt

\* The slot is given back, and nothing is sent.
Emptied(w, t) == t.n = w.n /\ ~t.s.use

\* The request was not answered in time.
LEMMA UnansweredHolds ==
  ASSUME NEW k, NEW l, NEW e \in Ends, NEW w, NEW y, HoldsAt(k, l, e, w, y, FALSE),
         NEW t, t = CloseThisStream(w, TRUE)
  PROVE  HoldsAt(k, l, e, t, y, FALSE) /\ Emptied(w, t)
<1>1. t = Discard(w)
  BY HardClose
<1>2. HoldsAt(k, l, e, t, y, FALSE) /\ Freed(w, t)
  BY <1>1, DiscardHolds
<1>3. ~t.s.use
  BY <1>2, FreedFields DEF HoldsAt
<1> QED BY <1>2, <1>3 DEF Freed, Emptied

\* The answer is sent again.
LEMMA RepeatHolds ==
  ASSUME NEW k, NEW l, NEW w, NEW y, NEW c, HoldsAt(k, l, "acceptor", w, y, c),
         w.s.retries + 1 < MaxResend
  PROVE  \E t : /\ HoldsAt(k, l, "acceptor", t, y, c)
                /\ t.s = [w.s EXCEPT !.retries = @ + 1] /\ t.p = w.p /\ t.n = Put(w, Note("resp")).n
<1> DEFINE e == "acceptor"
           v == [w EXCEPT !.s.retries = @ + 1]
           t == Put(v, Note("resp"))
<1>1. e \in Ends /\ w \in Worlds /\ w.s \in Streams
  BY WorldFields DEF HoldsAt, Ends
<1>2. w.s.retries + 1 \in Nat /\ w.s.retries + 1 <= MaxResend
  BY <1>1, StreamFields, ConstantTypes
<1>3. RetriesSet(w, w.s.retries + 1, v)
  <2> DEFINE m == w.s.retries + 1
  <2>1. v = [w EXCEPT !.s.retries = m] /\ m \in Nat
    BY <1>2
  <2> HIDE DEF m, v
  <2>2. RetriesSet(w, m, v)
    BY <1>1, <2>1, IsRetriesSet
  <2> QED BY <2>2 DEF m
<1>4. v.s = [w.s EXCEPT !.retries = @ + 1] /\ v.p = w.p
  BY <1>1 DEF Worlds
<1>5. Put(w, Note("resp")).n = t.n
  <2> DEFINE pkt == Note("resp")
             q == w.n \cup {pkt}
  <2> HIDE DEF pkt
  <2>1. v.n = w.n /\ v.room = w.room /\ v.route = w.route /\ v \in Worlds
    BY <1>3 DEF RetriesSet
  <2> HIDE DEF v
  <2>2. CASE w.route /\ Cardinality(w.n) < w.room
    <3>1. Put(w, pkt) = [w EXCEPT !.n = q] /\ Put(v, pkt) = [v EXCEPT !.n = q]
      BY <2>1, <2>2 DEF Put
    <3>2. Put(w, pkt).n = Put(v, pkt).n
      <4> HIDE DEF q
      <4> QED BY <1>1, <2>1, <3>1 DEF Worlds
    <3> QED BY <3>2 DEF pkt
  <2>3. CASE ~(w.route /\ Cardinality(w.n) < w.room)
    BY <2>1, <2>3 DEF Put
  <2> QED BY <2>2, <2>3
<1> HIDE DEF v
<1>6. Manner(e, w) /\ Meeting(e, w, y, c)
  BY DEF HoldsAt, GoodAt
<1>7. Quiet(w, v)
  <2>1. ~w.s.use => v.s = GivenBack(v.s)
    <3>1. ~w.s.use => w.s = GivenBack(w.s)
      BY DEF HoldsAt, GoodAt, Shape
    <3>2. v.s \in Streams /\ GivenLike(w.s, v.s)
      BY <1>3, WorldFields DEF RetriesSet, GivenLike
    <3> QED BY <1>1, <3>1, <3>2, GivenFrom
  <2> QED BY <1>2, <1>3, <2>1 DEF Quiet, RetriesSet
<1>8. Manner(e, v)
  BY <1>3, <1>6 DEF Manner, RetriesSet
<1>9. Meeting(e, v, y, c)
  BY <1>3, <1>6 DEF Meeting, Handshake, HasReset, HasData, RetriesSet
<1>10. v.p.eof = w.p.eof
  BY <1>4
<1>11. HoldsAt(k, l, e, v, y, c)
  BY <1>1, <1>7, <1>8, <1>9, <1>10, QuietHolds
<1>12. HoldsAt(k, l, e, t, y, c) /\ \E pkt : PutIn(v, pkt, t) /\ pkt.kind \in {"resp", "ack_ack"}
  BY <1>1, <1>11, AnswerHolds
<1>13. t.s = v.s /\ t.p = v.p
  BY <1>12 DEF PutIn
<1> HIDE DEF t
<1> QED BY <1>4, <1>5, <1>12, <1>13

\* z is t with its request let go.
Staled(t, z) ==
  /\ z.s = [t.s EXCEPT !.req = "stale"]
  /\ z.p = t.p /\ z.n = t.n

\* An answer that was not confirmed is given up: what the timer leaves is what
\* it would leave if it had let the request go first.
LEMMA StaleFirst ==
  ASSUME NEW w \in Worlds, w.s.use, w.route, w.s.dead \/ w.s.peerclosing \/ w.s.out = <<>>,
         NEW v, v = [w EXCEPT !.s.req = "stale"],
         NEW t, t = CloseThisStream(w, FALSE), NEW z, z = CloseThisStream(v, FALSE)
  PROVE  Staled(t, z)
<1>1. ReqSet(w, "stale", v)
  BY IsReqSet
<1>2. CASE w.s.dead \/ w.s.peerclosing
  <2>1. t = Discard(w)
    BY <1>2 DEF CloseThisStream
  <2>2. z = Discard(v)
    BY <1>1, <1>2 DEF CloseThisStream, ReqSet
  <2>3. v \in Worlds /\ v.p = w.p /\ v.n = w.n /\ v.s.req = "stale" /\ v.s.retries = w.s.retries
    BY <1>1 DEF ReqSet
  <2>4. Freed(w, t) /\ Freed(v, z)
    BY <2>1, <2>2, <2>3, DiscardFields
  <2>5. z.s = [t.s EXCEPT !.req = "stale"]
    <3>1. t.s = [Free EXCEPT !.req = w.s.req, !.retries = w.s.retries]
      BY <2>4 DEF Freed, GivenBack
    <3>2. z.s = [Free EXCEPT !.req = "stale", !.retries = w.s.retries]
      BY <2>3, <2>4 DEF Freed, GivenBack
    <3> QED BY <3>1, <3>2, FreeType DEF Streams
  <2>6. z.n = t.n
    BY <2>3, <2>4 DEF Freed
  <2>7. z.p = t.p
    <3>1. z.p \in Processes /\ t.p \in Processes
      BY <2>4, WorldFields DEF Freed
    <3>2. /\ z.p.written = t.p.written /\ z.p.log = t.p.log /\ z.p.eof = t.p.eof
          /\ z.p.state = t.p.state
      <4>1. v.p = w.p
        BY <2>3
      <4> QED BY ZenonT(60), <2>4, <4>1 DEF Freed
    <3> QED BY <3>1, <3>2, EqualProcesses
  <2> QED BY <2>5, <2>6, <2>7 DEF Staled
<1>3. CASE ~(w.s.dead \/ w.s.peerclosing) /\ w.s.out = <<>>
  <2> DEFINE x == [w EXCEPT !.s.closing = TRUE]
             r == [v EXCEPT !.s.closing = TRUE]
             pkt == Packet(x.s)
  <2>1. ClosingSet(w, TRUE, x) /\ ClosingSet(v, TRUE, r)
    BY <1>1, IsClosingSet DEF ReqSet
  <2>2. /\ x \in Worlds /\ r \in Worlds /\ x.p = r.p /\ x.n = r.n /\ x.room = r.room /\ x.route /\ r.route
        /\ x.s.out = <<>> /\ r.s.out = <<>> /\ ~x.s.dead /\ ~r.s.dead /\ x.s.closing = r.s.closing
        /\ x.s.peer = r.s.peer /\ x.s.my = r.s.my /\ x.s.sent = r.s.sent /\ x.s.use = w.s.use
        /\ x.s.peerclosing = r.s.peerclosing
    <3>1. /\ x \in Worlds /\ x.p = w.p /\ x.n = w.n /\ x.room = w.room /\ x.route /\ x.s.out = <<>>
          /\ ~x.s.dead /\ x.s.closing /\ x.s.peer = w.s.peer /\ x.s.my = w.s.my /\ x.s.sent = w.s.sent
          /\ x.s.use = w.s.use /\ x.s.peerclosing = w.s.peerclosing /\ x.s.closing = TRUE
      BY <1>3, <2>1 DEF ClosingSet
    <3>2. /\ r \in Worlds /\ r.p = v.p /\ r.n = v.n /\ r.room = v.room /\ r.route = v.route /\ r.s.out = v.s.out
          /\ r.s.dead = v.s.dead /\ r.s.closing = TRUE /\ r.s.peer = v.s.peer /\ r.s.my = v.s.my
          /\ r.s.sent = v.s.sent /\ r.s.peerclosing = v.s.peerclosing
      BY <2>1 DEF ClosingSet
    <3> QED BY ZenonT(60), <1>1, <1>3, <3>1, <3>2 DEF ReqSet
  <2>3. r.s = [x.s EXCEPT !.req = "stale"]
    BY DEF Worlds, Streams
  <2>4. t = SendData(x)
    BY <1>3, <2>2 DEF CloseThisStream
  <2>5. z = SendData(r)
    <3>1. ~v.s.dead /\ ~v.s.peerclosing
      BY <1>1, <1>3 DEF ReqSet
    <3> QED BY <2>2, <3>1 DEF CloseThisStream
  <2> HIDE DEF x, r
  <2>6. ~DataToSend(x.s) /\ ~DataToSend(r.s)
    BY <2>2 DEF DataToSend
  <2>7. Packet(r.s) = pkt
    BY <2>2, <2>6 DEF Packet
  <2>8. t = [Put(x, pkt) EXCEPT !.s.dead = ~x.route]
    BY <2>2, <2>4, <2>6 DEF SendData
  <2>9. z = [Put(r, pkt) EXCEPT !.s.dead = ~r.route]
    BY <2>2, <2>5, <2>6, <2>7 DEF SendData
  <2>10. pkt \in Packets
    <3>1. x.s \in Streams /\ x.s.my \in Nat /\ x.s.peer \in Nat
      BY <2>2, WorldFields, StreamFields
    <3> QED BY <2>6, <3>1 DEF Packet, Packets
  <2> HIDE DEF pkt
  <2>11. PutIn(x, pkt, Put(x, pkt)) /\ PutIn(r, pkt, Put(r, pkt))
    BY <2>2, <2>10, PutFields
  <2>12. t = Put(x, pkt) /\ z = Put(r, pkt)
    <3> DEFINE a == Put(x, pkt)
               b == Put(r, pkt)
    <3>1. x.route = TRUE /\ r.route = TRUE
      BY <2>2, WorldFields
    <3>2. a \in Worlds /\ b \in Worlds /\ ~a.s.dead /\ ~b.s.dead
      BY <2>2, <2>11 DEF PutIn
    <3>3. t = [a EXCEPT !.s.dead = ~x.route] /\ z = [b EXCEPT !.s.dead = ~r.route]
      BY <2>8, <2>9
    <3> HIDE DEF a, b
    <3>4. t = a /\ z = b
      BY <3>1, <3>2, <3>3, DeadSame
    <3> QED BY <3>4 DEF a, b
  <2>13. z.n = t.n
    <3>1. CASE Cardinality(x.n) < x.room
      <4> DEFINE q == x.n \cup {pkt}
      <4>1. t = [x EXCEPT !.n = q] /\ z = [r EXCEPT !.n = q]
        BY <2>2, <2>12, <3>1 DEF Put
      <4> HIDE DEF q
      <4> QED BY <2>2, <4>1 DEF Worlds
    <3>2. CASE ~(Cardinality(x.n) < x.room)
      BY <2>2, <2>12, <3>2 DEF Put
    <3> QED BY <3>1, <3>2
  <2>14. t.s = x.s /\ z.s = r.s /\ t.p = x.p /\ z.p = r.p
    BY <2>11, <2>12 DEF PutIn
  <2> QED BY <2>2, <2>3, <2>13, <2>14 DEF Staled
<1> QED BY <1>2, <1>3

LEMMA UnconfirmedHolds ==
  ASSUME NEW k, NEW l, NEW w, NEW y, HoldsAt(k, l, "acceptor", w, y, FALSE),
         w.s.use, w.s.req = "sent", w.route, NEW t, t = CloseThisStream(w, FALSE)
  PROVE  \E z : /\ Holds("acceptor", z, y, FALSE) /\ z.s.req # "sent"
                /\ Staled(t, z) /\ (w.s.dead => ~z.s.use)
<1> DEFINE e == "acceptor"
           v == [w EXCEPT !.s.req = "stale"]
           z == CloseThisStream(v, FALSE)
<1>1. e \in Ends /\ w \in Worlds
  BY DEF HoldsAt, Ends
<1>2. ReqSet(w, "stale", v)
  BY <1>1, IsReqSet
<1>3. Manner(e, w) /\ Meeting(e, w, y, FALSE) /\ Shape(e, w)
  BY DEF HoldsAt, GoodAt
<1>4. w.s.dead \/ w.s.peerclosing \/ w.s.out = <<>>
  BY <1>3 DEF Manner, Shape
<1>5. Staled(t, z)
  <2>1. v = [w EXCEPT !.s.req = "stale"] /\ z = CloseThisStream(v, FALSE)
    OBVIOUS
  <2> HIDE DEF v, z
  <2> QED BY <1>1, <1>4, <2>1, StaleFirst
<1> HIDE DEF v
<1>6. Quiet(w, v)
  BY <1>2, <1>3 DEF Quiet, ReqSet, Shape
<1>7. Manner(e, v)
  BY <1>2, <1>3 DEF Manner, ReqSet
<1>8. Meeting(e, v, y, FALSE)
  BY <1>2, <1>3 DEF Meeting, Handshake, HasReset, HasData, ReqSet
<1>9. v.s.req = "stale" /\ v.p.eof = w.p.eof /\ v.s.use /\ v.s.dead = w.s.dead
  BY <1>2 DEF ReqSet
<1>10. HoldsAt(k, l, e, v, y, FALSE)
  BY <1>1, <1>6, <1>7, <1>8, <1>9, QuietHolds
<1>11. Holds(e, z, y, FALSE) /\ ShutDown(v, z)
  BY <1>1, <1>9, <1>10, CloseHolds
<1>12. z.s.req # "sent" /\ (w.s.dead => ~z.s.use)
  BY <1>9, <1>11 DEF ShutDown
<1> HIDE DEF z
<1> QED BY <1>5, <1>11, <1>12

\* The same when the stream is gone already
LEMMA UnconfirmedGone ==
  ASSUME NEW k, NEW l, NEW w, NEW y, HoldsAt(k, l, "acceptor", w, y, FALSE), ~w.s.use
  PROVE  \E z : /\ Holds("acceptor", z, y, FALSE) /\ z.s.req # "sent"
                /\ Staled(w, z) /\ ~z.s.use
<1> DEFINE e == "acceptor"
           z == [w EXCEPT !.s.req = "stale"]
<1>1. e \in Ends /\ w \in Worlds /\ k \in Firsts(e) /\ l \in Firsts(Peer(e))
  BY DEF HoldsAt, Ends
<1>2. ReqSet(w, "stale", z)
  BY <1>1, IsReqSet
<1>3. Manner(e, w) /\ Meeting(e, w, y, FALSE) /\ Shape(e, w)
  BY DEF HoldsAt, GoodAt
<1>4. Staled(w, z)
  BY <1>1 DEF Staled, Worlds
<1>5. z.s = GivenBack(z.s)
  <2>1. w.s = GivenBack(w.s) /\ w.s \in Streams
    BY <1>1, <1>3, WorldFields DEF Shape
  <2>2. z.s = [w.s EXCEPT !.req = "stale"]
    BY <1>4 DEF Staled
  <2> HIDE DEF z
  <2> QED BY <2>1, <2>2 DEF GivenBack, Free, Streams
<1> HIDE DEF z
<1>6. Quiet(w, z)
  BY <1>2, <1>3, <1>5 DEF Quiet, ReqSet, Shape
<1>7. Manner(e, z)
  BY <1>2, <1>3 DEF Manner, ReqSet
<1>8. Meeting(e, z, y, FALSE)
  BY <1>2, <1>3 DEF Meeting, Handshake, HasReset, HasData, ReqSet
<1>9. z.s.req = "stale" /\ z.p.eof = w.p.eof /\ ~z.s.use
  BY <1>2 DEF ReqSet
<1>10. HoldsAt(k, l, e, z, y, FALSE)
  BY <1>1, <1>6, <1>7, <1>8, <1>9, QuietHolds
<1>11. Holds(e, z, y, FALSE)
  BY <1>1, <1>10 DEF Holds
<1> QED BY <1>4, <1>9, <1>11

\* The stream is given up, and nothing is sent.
Silenced(w, t) == t.n = w.n /\ (t.s.dead \/ ~t.s.use) /\ (t.s.req = "sent" => w.s.req = "sent")

\* The peer was silent.
LEMMA SilentHolds ==
  ASSUME NEW k, NEW l, NEW e \in Ends, NEW w, NEW y, HoldsAt(k, l, e, w, y, FALSE),
         w.s.use, w.s.notready, NEW x, x = [w EXCEPT !.s.dead = TRUE],
         NEW t, t = IF x.s.closing THEN CloseThisStream(x, TRUE) ELSE Update(x, TRUE)
  PROVE  HoldsAt(k, l, e, t, y, FALSE) /\ Silenced(w, t)
<1>1. HoldsAt(k, l, e, x, y, FALSE) /\ DeadSet(w, TRUE, x)
  BY DeadHolds
<1>2. CASE x.s.closing
  <2>1. t = Discard(x)
    BY <1>2, HardClose
  <2>2. HoldsAt(k, l, e, t, y, FALSE) /\ Freed(x, t)
    BY <1>1, <2>1, DiscardHolds
  <2>3. ~t.s.use /\ t.s.req = x.s.req /\ x.s.req = w.s.req /\ t.n = w.n
    <3>1. x \in Worlds /\ x.s.req = w.s.req /\ x.n = w.n
      BY <1>1 DEF DeadSet
    <3>2. ~t.s.use /\ t.s.req = x.s.req
      BY <2>2, <3>1, FreedFields
    <3>3. t.n = x.n
      BY <2>2 DEF Freed
    <3> QED BY <3>1, <3>2, <3>3
  <2> QED BY <2>2, <2>3 DEF Silenced
<1>3. CASE ~x.s.closing
  <2>1. x.s.notready
    BY <1>1 DEF DeadSet
  <2>2. t = x
    BY <1>3, <2>1 DEF Update
  <2> QED BY <1>1, <2>2 DEF DeadSet, Silenced
<1> QED BY <1>2, <1>3

-----------------------------------------------------------------------------
(* Steps *)

\* What the packets, the streams and the processes are
Types ==
  /\ end \in [Ends -> Streams] /\ proc \in [Ends -> Processes] /\ net \in [Ends -> SUBSET Packets]
  /\ upset \subseteq Faults \cup ({"wreck"} \X Ends)

IInv == Types /\ Once /\ Sound

LEMMA SideTypes ==
  ASSUME Types, NEW e \in Ends
  PROVE  /\ end[e] \in Streams /\ proc[e] \in Processes /\ net[e] \subseteq Packets
         /\ Side(e) \in Sides /\ \A route \in BOOLEAN : Start(e, route) \in Worlds
<1>1. Peer(e) \in Ends
  BY PeerEnds
<1>2. end[e] \in Streams /\ proc[e] \in Processes /\ net[e] \subseteq Packets /\ net[Peer(e)] \subseteq Packets
  BY <1>1 DEF Types
<1>3. MaxPackets[Peer(e)] \in Nat
  BY <1>1, ConstantTypes
<1> QED BY <1>2, <1>3 DEF Side, Sides, Start, Worlds

\* Both ends see the same.
LEMMA SoundAt ==
  ASSUME NEW e \in Ends
  PROVE  Sound <=> Good(e, Side(e), Side(Peer(e)), upset = {})
<1>1. CASE e = "requester"
  BY <1>1 DEF Sound, Peer
<1>2. CASE e = "acceptor"
  <2>1. Peer(e) = "requester"
    BY <1>2 DEF Peer
  <2>2. Good(e, Side(e), Side(Peer(e)), upset = {}) <=> Good(Peer(e), Side(Peer(e)), Side(e), upset = {})
    BY GoodTurned
  <2> QED BY <1>2, <2>1, <2>2 DEF Sound
<1> QED BY <1>1, <1>2 DEF Ends

LEMMA SoundAtNext ==
  ASSUME NEW e \in Ends
  PROVE  Sound' <=> Good(e, Side(e)', Side(Peer(e))', (upset = {})')
<1>1. CASE e = "requester"
  BY <1>1 DEF Sound, Peer
<1>2. CASE e = "acceptor"
  <2>1. Peer(e) = "requester"
    BY <1>2 DEF Peer
  <2>2. Good(e, Side(e)', Side(Peer(e))', (upset = {})') <=> Good(Peer(e), Side(Peer(e))', Side(e)', (upset = {})')
    BY GoodTurned
  <2> QED BY <1>2, <2>1, <2>2 DEF Sound
<1> QED BY <1>1, <1>2 DEF Ends

\* What a handler starts with
LEMMA StartHolds ==
  ASSUME IInv, NEW e \in Ends, NEW route \in BOOLEAN
  PROVE  \E k, l : HoldsAt(k, l, e, Start(e, route), Side(Peer(e)), route /\ upset = {})
<1> DEFINE w == Start(e, route)
           x == Side(e)
           y == Side(Peer(e))
           c == upset = {}
           d == route /\ upset = {}
<1>1. Good(e, x, y, c)
  BY SoundAt DEF IInv
<1>2. PICK k \in Firsts(e), l \in Firsts(Peer(e)) : GoodAt(k, l, e, x, y, c)
  BY <1>1 DEF Good
<1>3. w.s = x.s /\ w.p = x.p /\ w.n = x.n /\ w.room = MaxPackets[Peer(e)] /\ w.route = route
  BY DEF Start, Side
<1>4. w \in Worlds /\ y \in Sides /\ d \in BOOLEAN /\ c \in BOOLEAN /\ (d => w.route)
  BY <1>3, SideTypes, PeerEnds DEF IInv
<1> HIDE DEF w, x, y, c
<1>5. GoodAt(k, l, e, w, y, c)
  BY <1>2, <1>3, GoodSame
<1>6. GoodAt(k, l, e, w, y, d)
  <2>1. CASE route
    <3>1. d = c
      BY <2>1, <1>4 DEF c
    <3> QED BY <1>5, <3>1
  <2>2. CASE ~route
    <3>1. d = FALSE
      BY <2>2
    <3> QED BY <1>5, <3>1, GoodUpset
  <2> QED BY <2>1, <2>2
<1> HIDE DEF d
<1>7. HoldsAt(k, l, e, w, y, d)
  BY <1>2, <1>3, <1>4, <1>6 DEF HoldsAt
<1> QED BY <1>7 DEF w, y, d

\* A handler of e took packets and left w.
Left(e, w, taken) ==
  /\ end' = [end EXCEPT ![e] = w.s]
  /\ proc' = [proc EXCEPT ![e] = w.p]
  /\ net' = [net EXCEPT ![e] = @ \ taken, ![Peer(e)] = w.n]

LEMMA LeftFields ==
  ASSUME Types, NEW e \in Ends, NEW w, NEW taken, Left(e, w, taken)
  PROVE  /\ end'[e] = w.s /\ end'[Peer(e)] = end[Peer(e)]
         /\ proc'[e] = w.p /\ proc'[Peer(e)] = proc[Peer(e)]
         /\ net'[e] = net[e] \ taken /\ net'[Peer(e)] = w.n
  BY PeerEnds DEF Left, Types

LEMMA LeftGood ==
  ASSUME IInv, NEW e \in Ends, NEW w, NEW c, Holds(e, w, Side(Peer(e)), c), NEW taken,
         Left(e, w, taken), c = (upset' = {}), upset' \subseteq Faults \cup ({"wreck"} \X Ends)
  PROVE  Types' /\ Sound'
<1> DEFINE y == Side(Peer(e))
           t == Side(e)'
           u == Side(Peer(e))'
           x == [s |-> w.s, p |-> w.p, n |-> w.n]
<1>1. PICK k, l : HoldsAt(k, l, e, w, y, c)
  BY DEF Holds
<1>2. /\ w \in Worlds /\ w.s \in Streams /\ w.p \in Processes /\ w.n \subseteq Packets /\ y \in Sides
      /\ c \in BOOLEAN /\ GoodAt(k, l, e, w, y, c) /\ k \in Firsts(e) /\ l \in Firsts(Peer(e))
  BY <1>1, WorldFields DEF HoldsAt
<1>3. Peer(e) \in Ends /\ Peer(Peer(e)) = e /\ Peer(e) # e
  BY PeerEnds
<1>4. Types'
  BY <1>2, <1>3 DEF IInv, Types, Left
<1>5. /\ end'[e] = w.s /\ end'[Peer(e)] = end[Peer(e)]
      /\ proc'[e] = w.p /\ proc'[Peer(e)] = proc[Peer(e)]
      /\ net'[e] = net[e] \ taken /\ net'[Peer(e)] = w.n
  BY LeftFields DEF IInv
<1>6. t.s = w.s /\ t.p = w.p /\ t.n = w.n
  BY <1>5 DEF Side
<1>7. u.s = y.s /\ u.p = y.p /\ u.n \subseteq y.n
  BY <1>3, <1>5 DEF Side
<1>8. x \in Sides
  BY <1>2 DEF Sides
<1>9. x.s = w.s /\ x.p = w.p /\ x.n = w.n
  OBVIOUS
<1> HIDE DEF x, y, t, u
<1>10. GoodAt(k, l, e, x, y, c)
  BY <1>2, <1>9, GoodSame
<1>11. GoodAt(k, l, e, t, u, c)
  BY <1>2, <1>6, <1>7, <1>8, <1>9, <1>10, GoodWithFewer
<1>12. Good(e, t, u, c)
  BY <1>2, <1>11 DEF Good
<1>13. Good(e, Side(e)', Side(Peer(e))', (upset = {})')
  BY <1>12 DEF t, u
<1> QED BY <1>4, <1>13, SoundAtNext

\* The faults of before are told by what w is.
LEMMA OnceLeft ==
  ASSUME IInv, NEW e \in Ends, NEW w, NEW taken, Left(e, w, taken),
         w.s.use => end[e].use, w.s.use /\ end[e].dead => w.s.dead,
         w.s.req = "sent" => end[e].req = "sent",
         NEW new, upset' = upset \cup new, new \subseteq {<<"unanswered", "requester">>, <<"unconfirmed", "acceptor">>,
                  <<"silent", e>>, <<"no route", e>>},
         <<"unanswered", "requester">> \in new => e = "requester" /\ ~w.s.use,
         <<"unconfirmed", "acceptor">> \in new => e = "acceptor" /\ w.s.req # "sent",
         <<"silent", e>> \in new \/ <<"no route", e>> \in new => w.s.dead \/ ~w.s.use
  PROVE  Once'
<1>1. end'[e] = w.s /\ end'[Peer(e)] = end[Peer(e)]
  BY LeftFields DEF IInv
<1>2. Once /\ "acceptor" # "requester"
  BY DEF IInv
<1> SUFFICES ASSUME NEW d \in Ends
             PROVE  /\ <<"unanswered", d>> \in upset' => ~end'[d].use \/ d = "acceptor"
                    /\ <<"unconfirmed", d>> \in upset' => end'[d].req # "sent" \/ d = "requester"
                    /\ <<"silent", d>> \in upset' \/ <<"no route", d>> \in upset' => end'[d].dead \/ ~end'[d].use
  BY DEF Once
<1>3. /\ <<"unanswered", d>> \in upset => ~end[d].use \/ d = "acceptor"
      /\ <<"unconfirmed", d>> \in upset => end[d].req # "sent" \/ d = "requester"
      /\ <<"silent", d>> \in upset \/ <<"no route", d>> \in upset => end[d].dead \/ ~end[d].use
  BY <1>2 DEF Once
<1>4. CASE d = e
  <2>1. <<"unanswered", d>> \in upset' => ~end'[d].use \/ d = "acceptor"
    BY <1>1, <1>3, <1>4
  <2>2. <<"unconfirmed", d>> \in upset' => end'[d].req # "sent" \/ d = "requester"
    BY <1>1, <1>3, <1>4
  <2>3. <<"silent", d>> \in upset' \/ <<"no route", d>> \in upset' => end'[d].dead \/ ~end'[d].use
    BY <1>1, <1>3, <1>4
  <2> QED BY <2>1, <2>2, <2>3
<1>5. CASE d = Peer(e)
  <2>1. d # e /\ end'[d] = end[d]
    BY <1>1, <1>5, PeerEnds
  <2>2. <<"silent", d>> \notin new /\ <<"no route", d>> \notin new
    BY <2>1
  <2>3. <<"unanswered", d>> \notin new
    BY <2>1
  <2>4. <<"unconfirmed", d>> \notin new
    BY <2>1
  <2> QED BY <1>3, <2>1, <2>2, <2>3, <2>4
<1> QED BY <1>4, <1>5, PeerEnds

-----------------------------------------------------------------------------
(* The step of each handler *)

\* What SleepersStayAwaited says of a step
Wakeful ==
  \A e \in Ends :
    Sleeps(e)' /\ ~Awaited(e)' =>
      \/ Sleeps(e) /\ ~Awaited(e)
      \/ upset' # upset \/ end[e].closing \/ end[e].req = "stale"

LEMMA RestingSleeps ==
  ASSUME NEW e \in Ends
  PROVE  Resting(Side(e)) <=> Sleeps(e) /\ ~Awaited(e)
  BY DEF Resting, Side, Sleeps, Awaited

LEMMA RestingSleepsNext ==
  ASSUME NEW e \in Ends
  PROVE  Resting(Side(e)') <=> Sleeps(e)' /\ ~Awaited(e)'
  BY DEF Resting, Side, Sleeps, Awaited

LEMMA RestingSame ==
  ASSUME NEW x, NEW t, t.s = x.s, t.p = x.p
  PROVE  Resting(t) <=> Resting(x)
  BY DEF Resting

LEMMA LeftWakeful ==
  ASSUME Types, NEW e \in Ends, NEW w, NEW taken, Left(e, w, taken),
         upset' # upset \/ (\E r : r = TRUE /\ Proper(Start(e, r), w))
  PROVE  Wakeful
<1>1. /\ end'[e] = w.s /\ end'[Peer(e)] = end[Peer(e)]
      /\ proc'[e] = w.p /\ proc'[Peer(e)] = proc[Peer(e)]
  BY LeftFields
<1> SUFFICES ASSUME NEW d \in Ends, Sleeps(d)' /\ ~Awaited(d)', upset' = upset
             PROVE  (Sleeps(d) /\ ~Awaited(d)) \/ end[d].closing \/ end[d].req = "stale"
  BY DEF Wakeful
<1>2. CASE d = e
  <2> DEFINE v == Start(e, TRUE)
  <2>1. Proper(v, w)
    OBVIOUS
  <2>2. v.s = Side(e).s /\ v.p = Side(e).p /\ v.route /\ v.s = end[e]
    BY DEF Start, Side
  <2>3. w.s = (Side(e)').s /\ w.p = (Side(e)').p
    BY <1>1 DEF Side
  <2> HIDE DEF v
  <2>4. Resting(Side(e)')
    BY <1>2, RestingSleepsNext
  <2>5. Resting(w)
    BY <2>3, <2>4, RestingSame
  <2>6. Resting(v) \/ v.s.closing \/ v.s.req = "stale"
    BY <2>1, <2>2, <2>5 DEF Proper
  <2>7. Resting(v) => Resting(Side(e))
    BY <2>2, RestingSame
  <2> QED BY <1>2, <2>2, <2>6, <2>7, RestingSleeps
<1>3. CASE d = Peer(e)
  BY <1>1, <1>3 DEF Sleeps, Awaited
<1> QED BY <1>2, <1>3, PeerEnds

\* A step that is not that of a handler with or without a route
LEMMA SameWakeful ==
  ASSUME end' = end, proc' = proc
  PROVE  Wakeful
  BY DEF Wakeful, Sleeps, Awaited

\* A step of a handler: op with and without a route.
LEMMA DoStep ==
  ASSUME IInv, NEW e \in Ends, NEW op, NEW taken, Do(e, op, taken),
         \A r \in BOOLEAN : Holds(e, op[r], Side(Peer(e)), r /\ upset = {}) /\ Proper(Start(e, r), op[r]),
         \/ \A r \in BOOLEAN : Stays(Start(e, r), op[r])
         \/ \A r \in BOOLEAN : end[e].dead => ~op[r].s.use
  PROVE  IInv' /\ Wakeful
<1>1. PICK r \in {TRUE} \cup (IF <<"no route", e>> \in Faults THEN {FALSE} ELSE {}) :
        /\ r \/ (op[r].s.dead /\ ~op[TRUE].s.dead)
        /\ Left(e, op[r], taken)
        /\ upset' = upset \cup (IF r THEN {} ELSE {<<"no route", e>>})
  BY DEF Do, Left
<1> DEFINE w == op[r]
           v == Start(e, r)
<1>2. r \in BOOLEAN /\ Holds(e, w, Side(Peer(e)), r /\ upset = {}) /\ Proper(v, w)
  BY <1>1
<1>3. v.s = end[e] /\ v.p = proc[e]
  BY DEF Start
<1>4. /\ w.s.use => end[e].use
      /\ w.s.use /\ end[e].dead => w.s.dead
      /\ w.s.req = "sent" => end[e].req = "sent"
  BY ZenonT(60), <1>2, <1>3 DEF Proper
<1>5. w.s \in Streams /\ (~w.s.use => w.s = GivenBack(w.s))
  BY <1>2, WorldFields DEF Holds, HoldsAt, GoodAt, Shape
<1>6. Left(e, w, taken)
  BY <1>1
<1>7. Types
  BY DEF IInv
<1>8. CASE r = TRUE
  <2>1. upset' = upset \cup {} /\ upset' = upset
    BY <1>1, <1>8
  <2>2. Types' /\ Sound'
    <3>1. (r /\ upset = {}) = (upset' = {})
      BY <1>8, <2>1
    <3>2. upset' \subseteq Faults \cup ({"wreck"} \X Ends)
      BY <1>7, <2>1 DEF Types
    <3> HIDE DEF w
    <3> QED BY <1>2, <1>6, <3>1, <3>2, LeftGood
  <2>3. Once'
    <3> HIDE DEF w
    <3> DEFINE new == {}
    <3>1. upset' = upset \cup new /\ \A z : z \notin new
      BY <2>1
    <3> HIDE DEF new
    <3> QED BY <1>4, <1>6, <3>1, OnceLeft
  <2>4. Wakeful
    <3>1. r = TRUE /\ Proper(Start(e, r), w)
      BY <1>2, <1>8
    <3> HIDE DEF w, v
    <3> QED BY <1>6, <1>7, <3>1, LeftWakeful
  <2> QED BY <2>2, <2>3, <2>4 DEF IInv
<1>9. CASE r = FALSE
  <2>1. upset' = upset \cup {<<"no route", e>>} /\ w.s.dead /\ ~op[TRUE].s.dead /\ <<"no route", e>> \in Faults
    BY <1>1, <1>9
  <2>2. w.s.use
    BY <1>5, <2>1, GivenFields
  <2>3. end[e].use /\ ~end[e].dead
    <3>1. Proper(Start(e, TRUE), op[TRUE]) /\ Start(e, TRUE).s = end[e]
      BY DEF Start
    <3>2. CASE \A q \in BOOLEAN : Stays(Start(e, q), op[q])
      <4>1. Stays(Start(e, TRUE), op[TRUE])
        BY <3>2
      <4> QED BY <1>4, <2>1, <2>2, <3>1, <4>1 DEF Proper, Stays
    <3>3. CASE \A q \in BOOLEAN : end[e].dead => ~op[q].s.use
      BY <1>2, <1>4, <2>2, <3>3
    <3> QED BY <3>2, <3>3
  <2>4. <<"no route", e>> \notin upset
    BY <2>3 DEF IInv, Once
  <2>5. upset' # upset /\ upset' # {}
    BY <2>1, <2>4
  <2>6. Types' /\ Sound'
    <3>1. (r /\ upset = {}) = (upset' = {})
      BY <1>9, <2>5
    <3>2. upset' \subseteq Faults \cup ({"wreck"} \X Ends)
      BY <1>7, <2>1 DEF Types
    <3> HIDE DEF w
    <3> QED BY <1>2, <1>6, <3>1, <3>2, LeftGood
  <2>7. Once'
    <3> HIDE DEF w
    <3> DEFINE new == {<<"no route", e>>}
    <3>1. upset' = upset \cup new /\ <<"unanswered", "requester">> \notin new /\ <<"unconfirmed", "acceptor">> \notin new
          /\ new \subseteq {<<"unanswered", "requester">>, <<"unconfirmed", "acceptor">>,
                            <<"silent", e>>, <<"no route", e>>}
      BY <2>1
    <3> HIDE DEF new
    <3> QED BY <1>4, <1>6, <2>1, <3>1, OnceLeft
  <2>8. Wakeful
    <3> HIDE DEF w
    <3> QED BY <1>6, <1>7, <2>5, LeftWakeful
  <2> QED BY <2>6, <2>7, <2>8 DEF IInv
<1> QED BY <1>2, <1>8, <1>9

\* A handler that runs after its end has been found fit
LEMMA EndStep ==
  ASSUME IInv, NEW e \in Ends, NEW w, NEW taken, Left(e, w, taken), upset' = upset,
         Holds(e, w, Side(Peer(e)), upset = {}), Proper(Start(e, TRUE), w)
  PROVE  IInv' /\ Wakeful
<1> DEFINE v == Start(e, TRUE)
<1>1. v.s = end[e] /\ v.p = proc[e]
  BY DEF Start
<1>2. /\ w.s.use => end[e].use
      /\ w.s.use /\ end[e].dead => w.s.dead
      /\ w.s.req = "sent" => end[e].req = "sent"
  BY <1>1 DEF Proper
<1>3. Types' /\ Sound'
  <2>1. (upset = {}) = (upset' = {}) /\ upset' \subseteq Faults \cup ({"wreck"} \X Ends)
    BY DEF IInv, Types
  <2> QED BY <2>1, LeftGood
<1>4. Once'
  <2> DEFINE new == {}
  <2>1. upset' = upset \cup new /\ \A z : z \notin new
    OBVIOUS
  <2> HIDE DEF new
  <2> QED BY <1>2, <2>1, OnceLeft
<1>5. Wakeful
  BY LeftWakeful DEF IInv
<1> QED BY <1>3, <1>4, <1>5 DEF IInv

\* A fault that happens to an end, of which w is left
LEMMA FaultStep ==
  ASSUME IInv, NEW e \in Ends, NEW w, Left(e, w, {}), Holds(e, w, Side(Peer(e)), FALSE),
         w.s.use => end[e].use, w.s.use /\ end[e].dead => w.s.dead,
         w.s.req = "sent" => end[e].req = "sent",
         NEW f, Fault(f, e), <<f, e>> \notin upset,
         \/ f = "unanswered" /\ e = "requester" /\ ~w.s.use
         \/ f = "unconfirmed" /\ e = "acceptor" /\ w.s.req # "sent"
         \/ f = "silent" /\ (w.s.dead \/ ~w.s.use)
  PROVE  IInv' /\ Wakeful
<1>1. <<f, e>> \in Faults /\ upset' = upset \cup {<<f, e>>} /\ upset' # upset /\ upset' # {}
  BY DEF Fault
<1>2. Types' /\ Sound'
  <2>1. FALSE = (upset' = {}) /\ upset' \subseteq Faults \cup ({"wreck"} \X Ends)
    BY <1>1 DEF IInv, Types
  <2> QED BY <2>1, LeftGood
<1>3. Once'
  <2> DEFINE new == {<<f, e>>}
  <2>1. upset' = upset \cup new /\ new \subseteq {<<"unanswered", "requester">>, <<"unconfirmed", "acceptor">>,
                                                  <<"silent", e>>, <<"no route", e>>}
        /\ (<<"unanswered", "requester">> \in new => e = "requester" /\ ~w.s.use)
        /\ (<<"unconfirmed", "acceptor">> \in new => e = "acceptor" /\ w.s.req # "sent")
        /\ (<<"silent", e>> \in new \/ <<"no route", e>> \in new => w.s.dead \/ ~w.s.use)
    BY <1>1
  <2> HIDE DEF new
  <2> QED BY <2>1, OnceLeft
<1>4. Wakeful
  BY <1>1, LeftWakeful DEF IInv
<1> QED BY <1>2, <1>3, <1>4 DEF IInv

-----------------------------------------------------------------------------
(* The actions *)

\* Only the packets to the peer, or none of them, are new.
LEMMA SendOnly ==
  ASSUME Types, NEW e \in Ends, NEW n
  PROVE  [net EXCEPT ![Peer(e)] = n] = [net EXCEPT ![e] = @ \ {}, ![Peer(e)] = n]
<1> DEFINE f == [net EXCEPT ![Peer(e)] = n]
           g == [net EXCEPT ![e] = @ \ {}, ![Peer(e)] = n]
<1>1. net \in [Ends -> SUBSET Packets] /\ Peer(e) \in Ends /\ Peer(e) # e
  BY PeerEnds DEF Types
<1>2. DOMAIN f = Ends /\ DOMAIN g = Ends /\ f = [d \in Ends |-> f[d]] /\ g = [d \in Ends |-> g[d]]
  BY <1>1
<1>3. ASSUME NEW d \in Ends PROVE f[d] = g[d]
  BY <1>1, PeerEnds
<1> HIDE DEF f, g
<1>4. f = g
  BY <1>2, <1>3
<1> QED BY <1>4 DEF f, g

LEMMA NothingNew ==
  ASSUME Types, NEW e \in Ends
  PROVE  /\ net = [net EXCEPT ![e] = @ \ {}, ![Peer(e)] = net[Peer(e)]]
         /\ end = [end EXCEPT ![e] = end[e]] /\ proc = [proc EXCEPT ![e] = proc[e]]
<1>1. net = [net EXCEPT ![Peer(e)] = net[Peer(e)]]
  BY PeerEnds DEF Types
<1>2. [net EXCEPT ![Peer(e)] = net[Peer(e)]] = [net EXCEPT ![e] = @ \ {}, ![Peer(e)] = net[Peer(e)]]
  BY SendOnly
<1> QED BY <1>1, <1>2 DEF Types

LEMMA WreckStep ==
  ASSUME IInv, NEW e \in Ends, Wreck(e)
  PROVE  IInv' /\ Wakeful
<1> DEFINE x == Side(e)
           y == Side(Peer(e))
           c == upset = {}
<1>1. upset' = upset \cup {<<"wreck", e>>} /\ end' = end /\ proc' = proc /\ net' = net /\ upset' # {}
  BY DEF Wreck
<1>2. PICK k \in Firsts(e), l \in Firsts(Peer(e)) : GoodAt(k, l, e, x, y, c)
  BY SoundAt DEF IInv, Good
<1>3. x = Side(e)' /\ y = Side(Peer(e))' /\ (upset' = {}) = FALSE
  BY <1>1 DEF Side
<1> HIDE DEF x, y, c
<1>4. GoodAt(k, l, e, x, y, FALSE)
  BY <1>2, GoodUpset
<1>5. Good(e, x, y, FALSE)
  BY <1>2, <1>4 DEF Good
<1>6. Sound'
  BY <1>3, <1>5, SoundAtNext
<1>7. Types'
  BY <1>1 DEF IInv, Types
<1>8. Once'
  <2>1. ASSUME NEW d \in Ends PROVE /\ <<"unanswered", d>> \in upset' => <<"unanswered", d>> \in upset
                                    /\ <<"unconfirmed", d>> \in upset' => <<"unconfirmed", d>> \in upset
                                    /\ <<"silent", d>> \in upset' => <<"silent", d>> \in upset
                                    /\ <<"no route", d>> \in upset' => <<"no route", d>> \in upset
    BY <1>1
  <2> QED BY <1>1, <2>1 DEF IInv, Once
<1>9. Wakeful
  BY <1>1, SameWakeful
<1> QED BY <1>6, <1>7, <1>8, <1>9 DEF IInv

LEMMA LoseStep ==
  ASSUME IInv, NEW e \in Ends, Lose(e)
  PROVE  IInv' /\ Wakeful
<1> DEFINE x == Side(e)
           y == Side(Peer(e))
           t == Side(e)'
           u == Side(Peer(e))'
           c == upset = {}
<1>1. PICK pkt \in net[e] : net' = [net EXCEPT ![e] = @ \ {pkt}]
  BY DEF Lose
<1>2. end' = end /\ proc' = proc /\ upset' = upset
  BY DEF Lose
<1>3. net \in [Ends -> SUBSET Packets] /\ Peer(e) \in Ends /\ Peer(e) # e /\ Peer(Peer(e)) = e
  BY PeerEnds DEF IInv, Types
<1>4. net'[e] \subseteq net[e] /\ net'[Peer(e)] = net[Peer(e)]
  BY <1>1, <1>3
<1>5. /\ x.s = t.s /\ x.p = t.p /\ t.n \subseteq x.n
      /\ y.s = u.s /\ y.p = u.p /\ u.n \subseteq y.n /\ c = (upset = {})'
  BY <1>2, <1>3, <1>4 DEF Side
<1>6. x \in Sides /\ y \in Sides /\ c \in BOOLEAN
  BY <1>3, SideTypes DEF IInv
<1>7. PICK k \in Firsts(e), l \in Firsts(Peer(e)) : GoodAt(k, l, e, x, y, c)
  BY SoundAt DEF IInv, Good
<1> HIDE DEF x, y, t, u, c
<1>8. GoodAt(k, l, e, t, u, c)
  BY <1>5, <1>6, <1>7, GoodWithFewer
<1>9. Good(e, t, u, c)
  BY <1>7, <1>8 DEF Good
<1>10. Sound'
  BY <1>5, <1>9, SoundAtNext DEF t, u
<1>11. Types'
  BY <1>1, <1>2, <1>3 DEF IInv, Types
<1>12. Once'
  BY <1>2 DEF IInv, Once
<1>13. Wakeful
  BY <1>2, SameWakeful
<1> QED BY <1>10, <1>11, <1>12, <1>13 DEF IInv

LEMMA ReceiveStep ==
  ASSUME IInv, NEW e \in Ends, Receive(e)
  PROVE  IInv' /\ Wakeful
<1>1. PICK pkt \in net[e] :
        Wreck(e) \/ Do(e, [route \in BOOLEAN |-> Recv(Start(e, route), pkt)], {pkt})
  BY DEF Receive
<1>2. CASE Wreck(e)
  BY <1>2, WreckStep
<1>3. CASE Do(e, [route \in BOOLEAN |-> Recv(Start(e, route), pkt)], {pkt})
  <2> DEFINE op == [route \in BOOLEAN |-> Recv(Start(e, route), pkt)]
             y == Side(Peer(e))
  <2>1. pkt \in y.n
    BY PeerEnds DEF Side
  <2>2. ASSUME NEW r \in BOOLEAN
        PROVE  Holds(e, op[r], y, r /\ upset = {}) /\ Proper(Start(e, r), op[r]) /\ Stays(Start(e, r), op[r])
    <3> DEFINE w == Start(e, r)
               t == op[r]
               c == r /\ upset = {}
    <3>1. PICK k, l : HoldsAt(k, l, e, w, y, c)
      BY StartHolds
    <3>2. t = Recv(w, pkt)
      OBVIOUS
    <3> HIDE DEF w, t, c, op, y
    <3>3. Holds(e, t, y, c) /\ Proper(w, t) /\ Stays(w, t)
      BY <2>1, <3>1, <3>2, RecvHolds
    <3> QED BY <3>3 DEF w, t, c
  <2>3. Do(e, op, {pkt})
    BY <1>3
  <2> HIDE DEF op
  <2> QED BY <2>2, <2>3, DoStep DEF y
<1> QED BY <1>1, <1>2, <1>3

LEMMA PingStep ==
  ASSUME IInv, NEW e \in Ends, Ping(e)
  PROVE  IInv' /\ Wakeful
<1> DEFINE op == [route \in BOOLEAN |-> Update(Start(e, route), TRUE)]
           y == Side(Peer(e))
<1>1. Do(e, op, {}) /\ end[e].use
  BY DEF Ping
<1>2. ASSUME NEW r \in BOOLEAN
      PROVE  Holds(e, op[r], y, r /\ upset = {}) /\ Proper(Start(e, r), op[r]) /\ Stays(Start(e, r), op[r])
  <2> DEFINE w == Start(e, r)
             t == op[r]
             c == r /\ upset = {}
  <2>1. PICK k, l : HoldsAt(k, l, e, w, y, c)
    BY StartHolds
  <2>2. t = Update(w, TRUE) /\ w.s.use
    BY <1>1 DEF Start
  <2>3. w \in Worlds
    BY SideTypes DEF IInv
  <2> HIDE DEF w, t, c, op, y
  <2>4. Grown(w, w)
    BY <2>3 DEF Grown
  <2>5. Holds(e, t, y, c) /\ Proper(w, t) /\ Stays(w, t)
    BY <2>1, <2>2, <2>4, GrownUpdate
  <2> QED BY <2>5 DEF w, t, c
<1> HIDE DEF op
<1> QED BY <1>1, <1>2, DoStep DEF y

LEMMA ReadStep ==
  ASSUME IInv, NEW e \in Ends, Read(e)
  PROVE  IInv' /\ Wakeful
<1>1. PICK call \in Calls :
        Ready(e) /\ Do(e, [route \in BOOLEAN |-> Reading(Start(e, route), call[1], call[2])], {})
  BY DEF Read
<1> DEFINE op == [route \in BOOLEAN |-> Reading(Start(e, route), call[1], call[2])]
           y == Side(Peer(e))
<1>2. Do(e, op, {})
  BY <1>1
<1>3. call[1] \in Nat
  BY NetStreamAssumption
<1>4. ASSUME NEW r \in BOOLEAN
      PROVE  Holds(e, op[r], y, r /\ upset = {}) /\ Proper(Start(e, r), op[r]) /\ Stays(Start(e, r), op[r])
  <2> DEFINE w == Start(e, r)
             t == op[r]
             c == r /\ upset = {}
  <2>1. PICK k, l : HoldsAt(k, l, e, w, y, c)
    BY StartHolds
  <2>2. t = Reading(w, call[1], call[2])
    OBVIOUS
  <2>3. w.s.use /\ ~(e = "requester" /\ w.s.req = "sent") /\ w.p.state = "running"
    BY <1>1 DEF Ready, Start
  <2> HIDE DEF w, t, c, op, y
  <2>4. Holds(e, t, y, c) /\ Proper(w, t) /\ Stays(w, t)
    BY <1>3, <2>1, <2>2, <2>3, ReadingHolds
  <2> QED BY <2>4 DEF w, t, c
<1> HIDE DEF op
<1> QED BY <1>2, <1>4, DoStep DEF y

LEMMA WriteStep ==
  ASSUME IInv, NEW e \in Ends, Write(e)
  PROVE  IInv' /\ Wakeful
<1>1. PICK call \in Calls :
        /\ Do(e, [route \in BOOLEAN |-> Writing(Start(e, route), call[1], call[2])], {})
        /\ Ready(e) /\ ~end[e].dead /\ ~end[e].closing /\ ~(call[2] /\ end[e].notready)
        /\ proc[e].written + call[1] <= MaxBytes[e]
  BY DEF Write
<1> DEFINE op == [route \in BOOLEAN |-> Writing(Start(e, route), call[1], call[2])]
           y == Side(Peer(e))
<1>2. Do(e, op, {})
  BY <1>1
<1>3. call[1] \in Nat /\ call[2] \in BOOLEAN
  BY NetStreamAssumption
<1>4. ASSUME NEW r \in BOOLEAN
      PROVE  Holds(e, op[r], y, r /\ upset = {}) /\ Proper(Start(e, r), op[r]) /\ Stays(Start(e, r), op[r])
  <2> DEFINE w == Start(e, r)
             t == op[r]
             c == r /\ upset = {}
             count == call[1]
             nonblock == call[2]
  <2>1. PICK k, l : HoldsAt(k, l, e, w, y, c)
    BY StartHolds
  <2>2. t = Writing(w, count, nonblock) /\ count \in Nat /\ nonblock \in BOOLEAN
    BY <1>3
  <2>3. w.s.use /\ ~(e = "requester" /\ w.s.req = "sent") /\ w.p.state = "running" /\ ~w.s.dead /\ ~w.s.closing
    BY <1>1 DEF Ready, Start
  <2>4. ~(nonblock /\ w.s.notready) /\ w.p.written + count <= MaxBytes[e]
    BY <1>1 DEF Start
  <2> HIDE DEF w, t, c, op, y, count, nonblock
  <2>5. Holds(e, t, y, c) /\ Proper(w, t) /\ Stays(w, t)
    BY <2>1, <2>2, <2>3, <2>4, WritingHolds
  <2> QED BY <2>5 DEF w, t, c
<1> HIDE DEF op
<1> QED BY <1>2, <1>4, DoStep DEF y

LEMMA CloseStep ==
  ASSUME IInv, NEW e \in Ends, Close(e)
  PROVE  IInv' /\ Wakeful
<1> DEFINE op == [route \in BOOLEAN |-> CloseThisStream(Start(e, route), FALSE)]
           y == Side(Peer(e))
<1>1. Ready(e) /\ Do(e, op, {})
  BY DEF Close
<1>2. ASSUME NEW r \in BOOLEAN
      PROVE  Holds(e, op[r], y, r /\ upset = {}) /\ Proper(Start(e, r), op[r]) /\ (end[e].dead => ~op[r].s.use)
  <2> DEFINE w == Start(e, r)
             t == op[r]
             c == r /\ upset = {}
  <2>1. PICK k, l : HoldsAt(k, l, e, w, y, c)
    BY StartHolds
  <2>2. t = CloseThisStream(w, FALSE)
    OBVIOUS
  <2>3. w.s.use /\ ~(e = "requester" /\ w.s.req = "sent") /\ w.p.state = "running" /\ w.s = end[e]
    BY <1>1 DEF Ready, Start
  <2> HIDE DEF w, t, c, op, y
  <2>4. Holds(e, t, y, c) /\ Proper(w, t) /\ (w.s.dead => ~t.s.use)
    BY <2>1, <2>2, <2>3, CloseProper
  <2> QED BY <2>3, <2>4 DEF w, t, c
<1> HIDE DEF op
<1> QED BY <1>1, <1>2, DoStep DEF y

\* A process ends that has no stream.
Over(w, t) == t.s = w.s /\ t.n = w.n /\ t.p = [w.p EXCEPT !.state = "ended"]

LEMMA EndedHolds ==
  ASSUME NEW k, NEW l, NEW e \in Ends, NEW w, NEW y, NEW c, HoldsAt(k, l, e, w, y, c), ~w.s.use,
         NEW t, t = [w EXCEPT !.p.state = "ended"]
  PROVE  HoldsAt(k, l, e, t, y, c) /\ Proper(w, t) /\ Over(w, t)
<1>1. /\ w \in Worlds /\ Manner(e, w) /\ Meeting(e, w, y, c) /\ w.s = GivenBack(w.s)
      /\ w.s.retries <= MaxResend
  BY DEF HoldsAt, GoodAt, Shape
<1>2. "ended" \in {"running", "asleep", "lost", "corrupt", "ended"}
  OBVIOUS
<1>3. StateSet(w, "ended", t)
  BY <1>1, <1>2, IsStateSet
<1>4. Quiet(w, t)
  <2>1. t.s = w.s
    BY <1>1 DEF Worlds
  <2> QED BY <1>1, <1>3, <2>1 DEF Quiet, StateSet
<1>5. Manner(e, t)
  BY <1>1, <1>3 DEF Manner, StateSet
<1>6. Meeting(e, t, y, c)
  BY <1>1, <1>3 DEF Meeting, Handshake, HasReset, HasData, StateSet
<1>7. t.p.eof = w.p.eof /\ t.s = w.s /\ t.n = w.n /\ t.p.state = "ended"
  BY <1>3, <1>4, <1>1 DEF StateSet, Worlds
<1>8. HoldsAt(k, l, e, t, y, c)
  BY <1>1, <1>4, <1>5, <1>6, <1>7, QuietHolds
<1>9. Proper(w, t)
  BY <1>7 DEF Proper, Resting
<1>10. t.p = [w.p EXCEPT !.state = "ended"]
  BY <1>1 DEF Worlds
<1> QED BY <1>7, <1>8, <1>9, <1>10 DEF Over

LEMMA DieStep ==
  ASSUME IInv, NEW e \in Ends, Die(e)
  PROVE  IInv' /\ Wakeful
<1> DEFINE op == [route \in BOOLEAN |->
                    [CloseThisStream([Start(e, route) EXCEPT !.s.readsleep = FALSE, !.s.writesleep = FALSE,
                                                             !.s.req = "none"], FALSE)
                     EXCEPT !.p.state = "ended"]]
           y == Side(Peer(e))
<1>1. CASE end[e].use /\ end[e].req = "stale"
  BY <1>1, WreckStep DEF Die
<1>2. CASE end[e].use /\ end[e].req # "stale"
  <2>1. Do(e, op, {}) /\ ~(e = "requester" /\ end[e].req = "sent")
    BY <1>2 DEF Die
  <2>2. ASSUME NEW r \in BOOLEAN
        PROVE  Holds(e, op[r], y, r /\ upset = {}) /\ Proper(Start(e, r), op[r]) /\ (end[e].dead => ~op[r].s.use)
    <3> DEFINE w == Start(e, r)
               t == op[r]
               c == r /\ upset = {}
    <3>1. PICK k, l : HoldsAt(k, l, e, w, y, c)
      BY StartHolds
    <3>2. t = [CloseThisStream([w EXCEPT !.s.readsleep = FALSE, !.s.writesleep = FALSE, !.s.req = "none"], FALSE)
               EXCEPT !.p.state = "ended"]
      OBVIOUS
    <3>3. w.s.use /\ ~(e = "requester" /\ w.s.req = "sent") /\ w.s.req # "stale" /\ w.s = end[e]
      BY <1>2, <2>1 DEF Start
    <3> HIDE DEF w, t, c, op, y
    <3>4. Holds(e, t, y, c) /\ Proper(w, t) /\ (w.s.dead => ~t.s.use)
      BY <3>1, <3>2, <3>3, DieHolds
    <3> QED BY <3>3, <3>4 DEF w, t, c
  <2> HIDE DEF op
  <2> QED BY <2>1, <2>2, DoStep DEF y
<1>3. CASE ~end[e].use
  <2> DEFINE w == Start(e, TRUE)
             t == [w EXCEPT !.p.state = "ended"]
             c == TRUE /\ upset = {}
  <2>1. proc' = [proc EXCEPT ![e].state = "ended"] /\ end' = end /\ net' = net /\ upset' = upset
    BY <1>3 DEF Die
  <2>2. PICK k, l : HoldsAt(k, l, e, w, y, c)
    BY StartHolds
  <2>3. w.s = end[e] /\ w.p = proc[e] /\ w.n = net[Peer(e)]
    BY DEF Start
  <2>4. t = [w EXCEPT !.p.state = "ended"]
    OBVIOUS
  <2> HIDE DEF w, t, c, y
  <2>5. HoldsAt(k, l, e, t, y, c) /\ Proper(w, t) /\ Over(w, t)
    BY <1>3, <2>2, <2>3, <2>4, EndedHolds
  <2>12. t.s = w.s /\ t.n = w.n /\ t.p = [w.p EXCEPT !.state = "ended"]
    BY <2>5 DEF Over
  <2>6. end' = [end EXCEPT ![e] = t.s]
    BY <2>12, <2>1, <2>3, NothingNew DEF IInv
  <2>7. proc' = [proc EXCEPT ![e] = t.p]
    BY <2>12, <2>1, <2>3
  <2>8. net' = [net EXCEPT ![e] = @ \ {}, ![Peer(e)] = t.n]
    BY <2>12, <2>1, <2>3, NothingNew DEF IInv
  <2>9. Left(e, t, {})
    BY <2>6, <2>7, <2>8 DEF Left
  <2>10. k \in Firsts(e) /\ l \in Firsts(Peer(e))
    BY <2>5 DEF HoldsAt
  <2>11. Holds(e, t, y, c) /\ c = (upset = {})
    BY <2>5, <2>10 DEF Holds, c
  <2> QED BY <2>1, <2>5, <2>9, <2>11, EndStep DEF w, y
<1> QED BY <1>1, <1>2, <1>3

LEMMA UnansweredStep ==
  ASSUME IInv, Unanswered
  PROVE  IInv' /\ Wakeful
<1> DEFINE e == "requester"
           w == Start(e, TRUE)
           t == CloseThisStream(w, TRUE)
           y == Side(Peer(e))
<1>1. e \in Ends
  BY DEF Ends
<1>2. /\ end[e].use /\ end[e].req = "sent" /\ Fault("unanswered", e) /\ net' = net
      /\ end' = [end EXCEPT ![e] = t.s] /\ proc' = [proc EXCEPT ![e] = t.p]
  BY DEF Unanswered
<1>3. PICK k, l : HoldsAt(k, l, e, w, y, TRUE /\ upset = {})
  BY <1>1, StartHolds
<1>4. w.n = net[Peer(e)] /\ t = CloseThisStream(w, TRUE)
  BY DEF Start
<1>5. <<"unanswered", e>> \notin upset
  BY <1>1, <1>2 DEF IInv, Once
<1> HIDE DEF w, t, y
<1>6. HoldsAt(k, l, e, w, y, FALSE)
  BY <1>1, <1>3, HoldsUpset
<1>7. HoldsAt(k, l, e, t, y, FALSE) /\ Emptied(w, t)
  BY <1>1, <1>4, <1>6, UnansweredHolds
<1>8. k \in Firsts(e) /\ l \in Firsts(Peer(e)) /\ ~t.s.use
  BY <1>7 DEF HoldsAt, Emptied
<1>9. Holds(e, t, y, FALSE)
  BY <1>7, <1>8 DEF Holds
<1>10. net' = [net EXCEPT ![e] = @ \ {}, ![Peer(e)] = t.n]
  <2>1. net[Peer(e)] = t.n
    BY <1>4, <1>7 DEF Emptied
  <2> HIDE DEF e
  <2>2. net = [net EXCEPT ![e] = @ \ {}, ![Peer(e)] = net[Peer(e)]]
    BY <1>1, NothingNew DEF IInv
  <2> QED BY <1>2, <2>1, <2>2
<1>11. Left(e, t, {})
  BY <1>2, <1>10 DEF Left
<1> QED BY <1>1, <1>2, <1>5, <1>7, <1>8, <1>9, <1>11, FaultStep DEF y

LEMMA RepeatStep ==
  ASSUME IInv, Repeat
  PROVE  IInv' /\ Wakeful
<1> DEFINE e == "acceptor"
           w == Start(e, TRUE)
           y == Side(Peer(e))
           c == TRUE /\ upset = {}
           n == Put(w, Note("resp")).n
           s == [w.s EXCEPT !.retries = @ + 1]
<1>1. e \in Ends /\ Peer(e) = "requester"
  BY DEF Ends, Peer
<1>2. /\ end[e].retries + 1 < MaxResend /\ proc' = proc /\ upset' = upset
      /\ end' = [end EXCEPT !["acceptor"].retries = @ + 1]
      /\ net' = [net EXCEPT !["requester"] = n]
  BY DEF Repeat
<1>3. PICK k, l : HoldsAt(k, l, e, w, y, c)
  BY <1>1, StartHolds
<1>4. w.s = end[e] /\ w.p = proc[e]
  BY DEF Start
<1>5. n = Put(w, Note("resp")).n /\ s = [w.s EXCEPT !.retries = @ + 1] /\ c = (upset = {})
  OBVIOUS
<1>6. end' = [end EXCEPT ![e] = s]
  BY <1>2, <1>4
<1> HIDE DEF w, y, c, n, s
<1>7. PICK t : HoldsAt(k, l, "acceptor", t, y, c) /\ t.s = s /\ t.p = w.p /\ t.n = n
  BY <1>2, <1>3, <1>4, <1>5, RepeatHolds
<1>8. k \in Firsts(e) /\ l \in Firsts(Peer(e))
  BY <1>7 DEF HoldsAt
<1>9. Holds(e, t, y, upset = {})
  BY <1>5, <1>7, <1>8 DEF Holds
<1>10. Left(e, t, {})
  <2>1. proc' = [proc EXCEPT ![e] = t.p]
    BY <1>1, <1>2, <1>4, <1>7, NothingNew DEF IInv
  <2>2. net' = [net EXCEPT ![e] = @ \ {}, ![Peer(e)] = t.n]
    BY ZenonT(60), <1>1, <1>2, <1>7, SendOnly DEF IInv
  <2> QED BY <1>6, <1>7, <2>1, <2>2 DEF Left
<1>11. Proper(w, t)
  <2>1. w.s \in Streams
    BY <1>3, WorldFields DEF HoldsAt
  <2>2. /\ s.use = w.s.use /\ s.dead = w.s.dead /\ s.req = w.s.req /\ s.readsleep = w.s.readsleep
        /\ s.writesleep = w.s.writesleep
    BY <1>5, <2>1 DEF Streams
  <2> QED BY <1>7, <2>2 DEF Proper, Resting
<1> QED BY <1>1, <1>2, <1>9, <1>10, <1>11, EndStep DEF w, y

LEMMA UnconfirmedStep ==
  ASSUME IInv, Unconfirmed
  PROVE  IInv' /\ Wakeful
<1> DEFINE e == "acceptor"
           w == Start(e, TRUE)
           t == IF w.s.use THEN CloseThisStream(w, FALSE) ELSE w
           y == Side(Peer(e))
           s == [t.s EXCEPT !.req = "stale"]
<1>1. e \in Ends /\ Peer(e) = "requester"
  BY DEF Ends, Peer
<1>2. /\ end[e].req = "sent" /\ Fault("unconfirmed", e)
      /\ end' = [end EXCEPT ![e] = s] /\ proc' = [proc EXCEPT ![e] = t.p]
      /\ net' = [net EXCEPT !["requester"] = t.n]
  BY DEF Unconfirmed
<1>3. PICK k, l : HoldsAt(k, l, e, w, y, TRUE /\ upset = {})
  BY <1>1, StartHolds
<1>4. w.s = end[e] /\ w.route /\ t = (IF w.s.use THEN CloseThisStream(w, FALSE) ELSE w)
      /\ s = [t.s EXCEPT !.req = "stale"]
  BY DEF Start
<1>5. <<"unconfirmed", e>> \notin upset
  BY <1>1, <1>2 DEF IInv, Once
<1> HIDE DEF w, t, y, s
<1>6. HoldsAt(k, l, "acceptor", w, y, FALSE)
  BY <1>1, <1>3, HoldsUpset
<1>7. PICK z : /\ Holds("acceptor", z, y, FALSE) /\ z.s.req # "sent" /\ Staled(t, z)
               /\ (~w.s.use \/ w.s.dead => ~z.s.use)
  <2>1. CASE w.s.use
    BY <1>2, <1>4, <1>6, <2>1, UnconfirmedHolds
  <2>2. CASE ~w.s.use
    <3>1. t = w
      BY <1>4, <2>2
    <3> QED BY <1>6, <2>2, <3>1, UnconfirmedGone
  <2> QED BY <2>1, <2>2
<1>8. z.s = s /\ z.p = t.p /\ z.n = t.n
  BY <1>4, <1>7 DEF Staled
<1>9. net' = [net EXCEPT ![e] = @ \ {}, ![Peer(e)] = z.n]
  BY <1>1, <1>2, <1>8, SendOnly DEF IInv
<1>10. Left(e, z, {})
  BY <1>2, <1>8, <1>9 DEF Left
<1> QED BY <1>1, <1>2, <1>4, <1>5, <1>7, <1>10, FaultStep DEF y

LEMMA SilentStep ==
  ASSUME IInv, NEW e \in Ends, Silent(e)
  PROVE  IInv' /\ Wakeful
<1> DEFINE w == Start(e, TRUE)
           x == [w EXCEPT !.s.dead = TRUE]
           t == IF x.s.closing THEN CloseThisStream(x, TRUE) ELSE Update(x, TRUE)
           y == Side(Peer(e))
<1>1. /\ end[e].use /\ end[e].req = "none" /\ ~end[e].dead /\ end[e].notready /\ Fault("silent", e)
      /\ end' = [end EXCEPT ![e] = t.s] /\ proc' = [proc EXCEPT ![e] = t.p] /\ net' = net
  BY DEF Silent
<1>2. PICK k, l : HoldsAt(k, l, e, w, y, TRUE /\ upset = {})
  BY StartHolds
<1>3. w.s = end[e] /\ w.n = net[Peer(e)] /\ x = [w EXCEPT !.s.dead = TRUE]
      /\ t = IF x.s.closing THEN CloseThisStream(x, TRUE) ELSE Update(x, TRUE)
  BY DEF Start
<1>4. <<"silent", e>> \notin upset
  BY <1>1 DEF IInv, Once
<1> HIDE DEF w, x, t, y
<1>5. HoldsAt(k, l, e, w, y, FALSE)
  BY <1>2, HoldsUpset
<1>6. HoldsAt(k, l, e, t, y, FALSE) /\ Silenced(w, t)
  BY <1>1, <1>3, <1>5, SilentHolds
<1>7. k \in Firsts(e) /\ l \in Firsts(Peer(e))
  BY <1>6 DEF HoldsAt
<1>8. Holds(e, t, y, FALSE)
  BY <1>6, <1>7 DEF Holds
<1>9. net' = [net EXCEPT ![e] = @ \ {}, ![Peer(e)] = t.n]
  BY <1>1, <1>3, <1>6, NothingNew DEF IInv, Silenced
<1>10. Left(e, t, {})
  BY <1>1, <1>9 DEF Left
<1>11. (t.s.dead \/ ~t.s.use) /\ t.s.req # "sent"
  BY <1>1, <1>3, <1>6 DEF Silenced
<1> QED BY <1>1, <1>3, <1>4, <1>8, <1>10, <1>11, FaultStep DEF y

-----------------------------------------------------------------------------
(* The invariant *)

LEMMA NextStep == IInv /\ [Next]_vars => IInv' /\ Wakeful
<1> SUFFICES ASSUME IInv, [Next]_vars PROVE IInv' /\ Wakeful
  OBVIOUS
<1>1. ASSUME NEW e \in Ends, Receive(e) PROVE IInv' /\ Wakeful
  BY <1>1, ReceiveStep
<1>2. ASSUME NEW e \in Ends, Lose(e) PROVE IInv' /\ Wakeful
  BY <1>2, LoseStep
<1>3. ASSUME NEW e \in Ends, Ping(e) PROVE IInv' /\ Wakeful
  BY <1>3, PingStep
<1>4. ASSUME NEW e \in Ends, Silent(e) PROVE IInv' /\ Wakeful
  BY <1>4, SilentStep
<1>5. ASSUME NEW e \in Ends, Read(e) PROVE IInv' /\ Wakeful
  BY <1>5, ReadStep
<1>6. ASSUME NEW e \in Ends, Write(e) PROVE IInv' /\ Wakeful
  BY <1>6, WriteStep
<1>7. ASSUME NEW e \in Ends, Close(e) PROVE IInv' /\ Wakeful
  BY <1>7, CloseStep
<1>8. ASSUME NEW e \in Ends, Die(e) PROVE IInv' /\ Wakeful
  BY <1>8, DieStep
<1>9. CASE Unanswered
  BY <1>9, UnansweredStep
<1>10. CASE Repeat
  BY <1>10, RepeatStep
<1>11. CASE Unconfirmed
  BY <1>11, UnconfirmedStep
<1>12. CASE UNCHANGED vars
  <2>1. end' = end /\ proc' = proc /\ net' = net /\ upset' = upset
    BY <1>12 DEF vars
  <2>2. Sound'
    BY <2>1 DEF IInv, Sound, Side
  <2> QED BY <2>1, <2>2, SameWakeful DEF IInv, Types, Once
<1> QED BY <1>1, <1>2, <1>3, <1>4, <1>5, <1>6, <1>7, <1>8, <1>9, <1>10, <1>11, <1>12 DEF Next

LEMMA OpenedFields ==
  ASSUME NEW m \in Nat, NEW n \in Nat, NEW s, s = Opened(m, n)
  PROVE  /\ s \in Streams /\ s.use /\ s.notready /\ ~s.dead /\ ~s.closing /\ ~s.peerclosing /\ ~s.readsleep
         /\ ~s.writesleep /\ s.req = "sent" /\ s.retries = 0 /\ s.in = <<>> /\ s.out = <<>> /\ s.sent = 0
         /\ s.data = <<>> /\ s.my = m /\ s.peer = n /\ s.left = 0
<1>1. s = [Free EXCEPT !.use = TRUE, !.notready = TRUE, !.req = "sent", !.my = m, !.peer = n]
  BY DEF Opened
<1>2. Free \in Streams
  BY FreeType
<1>3. s \in Streams
  BY <1>1, <1>2 DEF Streams
<1>4. s.use = TRUE /\ s.notready = TRUE /\ s.req = "sent" /\ s.my = m /\ s.peer = n
  BY <1>1, <1>2 DEF Streams
<1>5. s.dead = Free.dead /\ s.closing = Free.closing /\ s.peerclosing = Free.peerclosing
      /\ s.readsleep = Free.readsleep /\ s.writesleep = Free.writesleep
  BY <1>1, <1>2 DEF Streams
<1>6. s.retries = Free.retries /\ s.in = Free.in /\ s.out = Free.out /\ s.sent = Free.sent
      /\ s.data = Free.data /\ s.left = Free.left
  BY <1>1, <1>2 DEF Streams
<1> QED BY <1>3, <1>4, <1>5, <1>6, FreeFields

LEMMA InitShape ==
  ASSUME NEW e \in Ends, NEW x, x.s.notready, x.s.use, ~x.s.dead, x.s.retries = 0, x.s.in = <<>>, x.s.out = <<>>,
         x.s.sent = 0, x.s.data = <<>>, x.s.my = Born(e), x.s.peer = 1 - Born(e),
         x.p.written = 0, x.p.log = <<>>,
         x.n = {} \/ (x.n = {Note("resp")} /\ Peer(e) = "requester"),
         IsFiniteSet(x.n) /\ Cardinality(x.n) <= MaxPackets[Peer(e)]
  PROVE  Shape(e, x)
<1>1. BufferLen \in Nat /\ MaxResend \in Nat /\ MaxBytes[e] \in Nat
  BY ConstantTypes
<1>2. Run(x.s.out, Oldest(x))
  BY EmptyRun
<1> QED BY <1>1, <1>2 DEF Shape, Born, Ends

LEMMA InitManner ==
  ASSUME NEW e \in Ends, NEW x, x.s.notready, ~x.s.readsleep, ~x.s.writesleep, x.s.req = "sent",
         x.p.state \in {"running", "asleep"}, ~x.p.eof
  PROVE  Manner(e, x)
  BY DEF Manner

LEMMA InitFlow ==
  ASSUME NEW e \in Ends, NEW x, NEW y,
         x.s.use, y.s.use, ~x.s.peerclosing, ~y.s.peerclosing, ~x.s.dead, ~y.s.dead, ~y.p.eof,
         y.p.log = <<>>, y.s.in = <<>>, y.s.data = <<>>, x.s.out = <<>>, x.s.sent = 0, x.p.written = 0,
         x.s.my = Born(e), y.s.peer = 1 - Born(Peer(e)), \A d \in x.n : d.kind = "resp",
         ~HasReset(x), ~HasReset(y), NEW c
  PROVE  Flow(1, e, x, y) /\ Fitting(1, e, x, y) /\ Endings(1, x, y, c)
<1>1. Kept(y.s) = <<>> /\ Len(<<>>) = 0 /\ Run(<<>>, 1) /\ Wanted(1, y) = 1 /\ Oldest(x) = 1 /\ Arrival(x, y) = 0
  BY EmptyRun DEF Kept, Wanted, Oldest, Arrival
<1>2. Born(e) \in Nat /\ y.s.peer = x.s.my
  BY DEF Born, Peer, Ends
<1>3. Flow(1, e, x, y)
  BY <1>1, <1>2, EmptyRun DEF Flow
<1>4. Fitting(1, e, x, y)
  BY DEF Fitting
<1>5. Endings(1, x, y, c)
  BY DEF Endings
<1> QED BY <1>3, <1>4, <1>5

LEMMA InitIInv == Init => IInv
<1> SUFFICES ASSUME Init PROVE IInv
  OBVIOUS
<1> DEFINE x == Side("requester")
           y == Side("acceptor")
<1>1. "requester" \in Ends /\ "acceptor" \in Ends /\ Peer("requester") = "acceptor" /\ Peer("acceptor") = "requester"
      /\ "requester" # "acceptor" /\ Born("requester") = 1 /\ Born("acceptor") = 0
  BY DEF Ends, Peer, Born
<1>2. x.s = Opened(1, 0) /\ y.s = Opened(0, 1)
  BY <1>1 DEF Init, Side
<1>3. /\ x.s \in Streams /\ x.s.use /\ x.s.notready /\ ~x.s.dead /\ ~x.s.closing /\ ~x.s.peerclosing
      /\ ~x.s.readsleep /\ ~x.s.writesleep /\ x.s.req = "sent" /\ x.s.retries = 0 /\ x.s.in = <<>>
      /\ x.s.out = <<>> /\ x.s.sent = 0 /\ x.s.data = <<>> /\ x.s.my = 1 /\ x.s.peer = 0
  BY <1>2, OpenedFields
<1>4. /\ y.s \in Streams /\ y.s.use /\ y.s.notready /\ ~y.s.dead /\ ~y.s.closing /\ ~y.s.peerclosing
      /\ ~y.s.readsleep /\ ~y.s.writesleep /\ y.s.req = "sent" /\ y.s.retries = 0 /\ y.s.in = <<>>
      /\ y.s.out = <<>> /\ y.s.sent = 0 /\ y.s.data = <<>> /\ y.s.my = 0 /\ y.s.peer = 1
  BY <1>2, OpenedFields
<1>5. ASSUME NEW e \in Ends
      PROVE  /\ proc[e] \in Processes /\ proc[e].state \in {"running", "asleep"} /\ proc[e].written = 0
             /\ proc[e].log = <<>> /\ proc[e].eof = FALSE
  <2>1. proc[e] \in [state : {"running", "asleep"}, written : {0}, log : {<<>>}, eof : {FALSE}]
    BY DEF Init
  <2> DEFINE p == proc[e]
  <2> HIDE DEF p
  <2>2. p \in [state : {"running", "asleep"}, written : {0}, log : {<<>>}, eof : {FALSE}]
    BY <2>1 DEF p
  <2>3. /\ p.state \in {"running", "asleep"} /\ p.written = 0 /\ p.log = <<>> /\ p.eof = FALSE
        /\ p = [state |-> p.state, written |-> p.written, log |-> p.log, eof |-> p.eof]
    BY <2>2
  <2>4. <<>> \in Seq(Nat)
    OBVIOUS
  <2>5. p \in Processes
    <3>1. p.state \in {"running", "asleep", "lost", "corrupt", "ended"}
      BY <2>3
    <3>2. p.written \in Nat
      BY <2>3
    <3>3. p.log \in Seq(Nat)
      BY <2>3, <2>4
    <3>4. p.eof \in BOOLEAN
      BY <2>3
    <3> QED BY <2>3, <3>1, <3>2, <3>3, <3>4 DEF Processes
  <2> QED BY <2>3, <2>5 DEF p
<1>6. x.p = proc["requester"] /\ y.p = proc["acceptor"]
  BY DEF Side
<1>7. Note("resp") \in Packets /\ Note("resp").kind = "resp"
  BY DEF Note, Packets
<1>8. x.n = {} /\ y.n = {Note("resp")}
  BY <1>1 DEF Init, Side
<1>9. Types
  <2>1. end \in [Ends -> Streams]
    BY <1>3, <1>4 DEF Init, Side, Ends
  <2>2. proc \in [Ends -> Processes]
    BY <1>5 DEF Init
  <2>3. net \in [Ends -> SUBSET Packets]
    BY <1>7 DEF Init
  <2>4. upset \subseteq Faults \cup ({"wreck"} \X Ends)
    BY DEF Init
  <2> QED BY <2>1, <2>2, <2>3, <2>4 DEF Types
<1>10. Once
  <2>1. upset = {}
    BY DEF Init
  <2> QED BY <2>1 DEF Once
<1>11. IsFiniteSet(x.n) /\ Cardinality(x.n) <= MaxPackets["acceptor"]
  <2>1. MaxPackets["acceptor"] \in Nat
    BY <1>1, ConstantTypes
  <2> QED BY <1>8, <2>1, FS_EmptySet
<1>12. IsFiniteSet(y.n) /\ Cardinality(y.n) <= MaxPackets["requester"]
  <2>1. MaxPackets["requester"] \in Nat \ {0}
    BY <1>1, NetStreamAssumption
  <2>2. IsFiniteSet(y.n) /\ Cardinality(y.n) = 1
    BY <1>8, FS_Singleton
  <2> QED BY <2>1, <2>2
<1>13. ~HasReset(x) /\ ~HasReset(y) /\ ~HasData(x) /\ ~HasData(y)
       /\ (\A d \in x.n : d.kind = "resp") /\ (\A d \in y.n : d.kind = "resp")
  BY <1>7, <1>8 DEF HasReset, HasData
<1> HIDE DEF x, y
<1>14. Shape("requester", x) /\ Manner("requester", x)
  <2>1. x.p.written = 0 /\ x.p.log = <<>> /\ ~x.p.eof /\ x.p.state \in {"running", "asleep"}
    BY <1>1, <1>5, <1>6
  <2>2. x.s.my = Born("requester") /\ x.s.peer = 1 - Born("requester")
    BY <1>1, <1>3
  <2>3. Shape("requester", x)
    BY <1>1, <1>3, <1>8, <1>11, <2>1, <2>2, InitShape
  <2>4. Manner("requester", x)
    BY <1>1, <1>3, <2>1, InitManner
  <2> QED BY <2>3, <2>4
<1>15. Shape("acceptor", y) /\ Manner("acceptor", y)
  <2>1. y.p.written = 0 /\ y.p.log = <<>> /\ ~y.p.eof /\ y.p.state \in {"running", "asleep"}
    BY <1>1, <1>5, <1>6
  <2>2. y.s.my = Born("acceptor") /\ y.s.peer = 1 - Born("acceptor")
    BY <1>1, <1>4
  <2>3. Shape("acceptor", y)
    BY <1>1, <1>4, <1>8, <1>12, <2>1, <2>2, InitShape
  <2>4. Manner("acceptor", y)
    BY <1>1, <1>4, <2>1, InitManner
  <2> QED BY <2>3, <2>4
<1> DEFINE c == upset = {}
<1>16. Flow(1, "requester", x, y) /\ Fitting(1, "requester", x, y) /\ Endings(1, x, y, c)
  <2>1. y.p.log = <<>> /\ ~y.p.eof /\ x.p.written = 0
    BY <1>1, <1>5, <1>6
  <2>2. x.s.my = Born("requester") /\ y.s.peer = 1 - Born("acceptor")
    BY <1>1, <1>3, <1>4
  <2> HIDE DEF c
  <2> QED BY <1>1, <1>3, <1>4, <1>13, <2>1, <2>2, InitFlow
<1>17. Flow(1, "acceptor", y, x) /\ Fitting(1, "acceptor", y, x) /\ Endings(1, y, x, c)
  <2>1. x.p.log = <<>> /\ ~x.p.eof /\ y.p.written = 0
    BY <1>1, <1>5, <1>6
  <2>2. y.s.my = Born("acceptor") /\ x.s.peer = 1 - Born("requester")
    BY <1>1, <1>3, <1>4
  <2> HIDE DEF c
  <2> QED BY <1>1, <1>3, <1>4, <1>13, <2>1, <2>2, InitFlow
<1>18. Handshake(x, y, c)
  BY <1>3, <1>4, <1>7, <1>8, <1>13 DEF Handshake
<1>19. GoodAt(1, 1, "requester", x, y, c)
  BY <1>1, <1>14, <1>15, <1>16, <1>17, <1>18 DEF GoodAt, Meeting
<1>20. 1 \in Firsts("requester") /\ 1 \in Firsts(Peer("requester"))
  BY <1>1, ConstantTypes DEF Firsts
<1>21. Good("requester", x, y, c)
  BY <1>19, <1>20 DEF Good
<1>22. Sound
  BY <1>21 DEF Sound, x, y
<1> QED BY <1>9, <1>10, <1>22 DEF IInv

LEMMA NetInvariance == Spec => []IInv
<1>1. IInv /\ [Next]_vars => IInv'
  BY NextStep
<1> QED BY <1>1, InitIInv, PTL DEF Spec

-----------------------------------------------------------------------------
(* The theorems *)

LEMMA RunIsFrom ==
  ASSUME NEW q \in Seq(Nat), NEW k \in Nat, NEW n \in Int, Run(q, k), Len(q) = n - k + 1
  PROVE  q = From(k, n)
<1> DEFINE f == [i \in 1 .. n - k + 1 |-> k + i - 1]
<1>1. DOMAIN q = 1 .. n - k + 1 /\ q = [i \in DOMAIN q |-> q[i]]
  OBVIOUS
<1>2. ASSUME NEW i \in 1 .. n - k + 1 PROVE q[i] = k + i - 1
  BY <1>1 DEF Run
<1>3. q = f
  BY <1>1, <1>2
<1> QED BY <1>3 DEF From

LEMMA IInvTypeOK == IInv => TypeOK
<1> SUFFICES ASSUME IInv, NEW e \in Ends
             PROVE  /\ end[e].req \in {"none", "sent", "stale"} /\ end[e].retries \in 0 .. MaxResend
                    /\ Len(end[e].in) <= BufferLen /\ Len(end[e].out) <= BufferLen
                    /\ end[e].sent \in 0 .. Len(end[e].out)
                    /\ Len(end[e].data) <= 1
                    /\ (~end[e].use => end[e] = GivenBack(end[e]))
                    /\ Cardinality(net[e]) <= MaxPackets[e]
                    /\ proc[e].state \in {"running", "asleep", "lost", "corrupt", "ended"}
                    /\ proc[e].written \in 0 .. MaxBytes[e]
                    /\ upset \subseteq Faults \cup ({"wreck"} \X Ends)
  BY DEF TypeOK
<1> DEFINE w == Start(e, TRUE)
           y == Side(Peer(e))
<1>1. PICK k, l : HoldsAt(k, l, e, w, y, TRUE /\ upset = {})
  BY StartHolds
<1>2. w.s = end[e] /\ w.p = proc[e] /\ y.n = net[e]
  BY PeerEnds DEF Start, Side
<1>3. w.s \in Streams /\ w.p \in Processes /\ upset \subseteq Faults \cup ({"wreck"} \X Ends)
  BY <1>2, SideTypes DEF IInv, Types
<1>4. Shape(e, w) /\ Shape(Peer(e), y) /\ Peer(Peer(e)) = e
  BY <1>1, PeerEnds DEF HoldsAt, GoodAt
<1> HIDE DEF w, y
<1>5. MaxResend \in Nat /\ MaxBytes[e] \in Nat
  BY ConstantTypes
<1>6. /\ w.s.req \in {"none", "sent", "stale"} /\ w.s.retries \in Nat /\ w.s.sent \in Nat /\ Len(w.s.out) \in Nat
  BY <1>3, StreamFields
<1>7. w.p.state \in {"running", "asleep", "lost", "corrupt", "ended"} /\ w.p.written \in Nat
  BY <1>3, ProcessFields
<1>8. Cardinality(y.n) <= MaxPackets[e]
  BY <1>4 DEF Shape
<1>9. /\ w.s.retries \in 0 .. MaxResend /\ w.s.sent \in 0 .. Len(w.s.out) /\ w.p.written \in 0 .. MaxBytes[e]
  BY <1>4, <1>5, <1>6, <1>7 DEF Shape
<1>10. /\ Len(w.s.in) <= BufferLen /\ Len(w.s.out) <= BufferLen /\ Len(w.s.data) <= 1 /\ (~w.s.use => w.s = GivenBack(w.s))
  BY <1>4 DEF Shape
<1> QED BY <1>2, <1>3, <1>6, <1>7, <1>8, <1>9, <1>10

\* What the reader of the way from e has read, and what it holds
LEMMA LogIsFrom ==
  ASSUME IInv, NEW e \in Ends
  PROVE  \E k \in Firsts(e) : proc[Peer(e)].log = From(k, k + Len(proc[Peer(e)].log) - 1)
<1> DEFINE w == Start(e, TRUE)
           y == Side(Peer(e))
           q == y.p.log
<1>1. PICK k, l : HoldsAt(k, l, e, w, y, TRUE /\ upset = {})
  BY StartHolds
<1>2. k \in Nat /\ y.p \in Processes /\ k \in Firsts(e) /\ Run(q, k)
  BY <1>1, Numbers DEF HoldsAt, GoodAt, Flow
<1>3. q \in Seq(Nat)
  BY <1>2, ProcessFields
<1>4. q = proc[Peer(e)].log
  BY DEF Side
<1> HIDE DEF w, y, q
<1>5. Len(q) \in Nat
  BY <1>3
<1>6. k + Len(q) - 1 \in Int /\ Len(q) = (k + Len(q) - 1) - k + 1
  BY <1>2, <1>5
<1>7. q = From(k, k + Len(q) - 1)
  BY <1>2, <1>3, <1>6, RunIsFrom
<1> QED BY SMTT(40), <1>2, <1>4, <1>7

LEMMA PipeIsFrom ==
  ASSUME IInv, NEW e \in Ends, end[e].use, end[Peer(e)].use, ~end[Peer(e)].closing
  PROVE  \E k \in Firsts(e) : Pipe(e) = From(k, proc[e].written)
<1> DEFINE w == Start(e, TRUE)
           y == Side(Peer(e))
           i == Arrival(w, y)
           r == Kept(y.s)
           o == SubSeq(w.s.out, i + 1, Len(w.s.out))
<1>1. PICK k, l : HoldsAt(k, l, e, w, y, TRUE /\ upset = {})
  BY StartHolds
<1>2. w.s = end[e] /\ y.s = end[Peer(e)] /\ w.p = proc[e] /\ y.p = proc[Peer(e)]
  BY DEF Start, Side
<1>3. Pipe(e) = y.p.log \o y.s.in \o r \o o
  BY <1>2 DEF Pipe, Arrived, Arrival, Kept
<1> HIDE DEF w, y
<1>4. Flow(k, e, w, y) /\ Flow(l, Peer(e), y, w) /\ Shape(e, w) /\ k \in Firsts(e)
  BY <1>1 DEF HoldsAt, GoodAt
<1>5. ~w.s.peerclosing
  BY <1>2, <1>4 DEF Flow
<1>6. /\ Run(y.p.log, k) /\ Run(y.s.in, k + Len(y.p.log)) /\ Run(r, k + Len(y.p.log) + Len(y.s.in))
      /\ Wanted(k, y) = Oldest(w) + i
  BY <1>2, <1>4, <1>5 DEF Flow
<1>7. /\ k \in Nat /\ w.s \in Streams /\ w.p \in Processes /\ y.s \in Streams /\ y.p \in Processes
      /\ Wanted(k, y) \in Nat /\ i \in Nat
  BY <1>1, Numbers
<1>8. /\ y.p.log \in Seq(Nat) /\ y.s.in \in Seq(Nat) /\ w.s.out \in Seq(Nat) /\ w.p.written \in Nat
      /\ Len(w.s.out) \in Nat /\ w.s.sent \in Nat
  BY <1>7, StreamFields, ProcessFields
<1>9. r \in Seq(Nat)
  BY <1>7, <1>4, KeptType
<1>10. i <= Len(w.s.out)
  BY <1>4, <1>8 DEF Arrival, Shape
<1>11. Run(w.s.out, Oldest(w)) /\ Oldest(w) \in Int
  BY SMTT(40), <1>4, <1>8 DEF Shape, Oldest
<1> HIDE DEF i, r
<1>12. o \in Seq(Nat) /\ Len(o) = Len(w.s.out) - i /\ Run(o, Oldest(w) + i)
  BY <1>7, <1>8, <1>10, <1>11, RunOfPart
<1> HIDE DEF o
<1> DEFINE a == y.p.log
           b == y.s.in
           ab == a \o b
           abr == ab \o r
           all == abr \o o
<1>13. Len(a) \in Nat /\ Len(b) \in Nat /\ Len(r) \in Nat /\ Len(o) \in Nat
  BY SMTT(40), <1>8, <1>9, <1>12
<1>14. Wanted(k, y) = k + Len(a) + Len(b) + Len(r)
  BY DEF Wanted, r
<1>15. a \in Seq(Nat) /\ b \in Seq(Nat) /\ Run(a, k) /\ Run(b, k + Len(a)) /\ Run(r, k + Len(a) + Len(b))
  BY <1>6, <1>8
<1> HIDE DEF a, b
<1>16. ab \in Seq(Nat) /\ Len(ab) = Len(a) + Len(b) /\ Run(ab, k)
  BY <1>7, <1>15, RunsJoin
<1>17. Run(r, k + Len(ab)) /\ k \in Int
  <2>1. k + Len(ab) = k + Len(a) + Len(b)
    BY <1>7, <1>13, <1>16
  <2> HIDE DEF ab
  <2> QED BY <1>7, <1>15, <2>1
<1> HIDE DEF ab
<1>18. abr \in Seq(Nat) /\ Len(abr) = Len(ab) + Len(r) /\ Run(abr, k)
  BY <1>9, <1>16, <1>17, RunsJoin
<1>19. k + Len(abr) = Oldest(w) + i
  BY <1>6, <1>7, <1>13, <1>14, <1>16, <1>18
<1> HIDE DEF abr
<1>20. Run(o, k + Len(abr))
  BY <1>12, <1>19
<1>21. all \in Seq(Nat) /\ Len(all) = Len(abr) + Len(o) /\ Run(all, k)
  BY <1>12, <1>17, <1>18, <1>20, RunsJoin
<1>22. Len(all) = w.p.written - k + 1
  <2>1. Oldest(w) = w.p.written - Len(w.s.out) + 1
    BY DEF Oldest
  <2>2. Len(abr) \in Nat
    BY <1>18
  <2>3. k + Len(abr) = w.p.written - Len(w.s.out) + 1 + i
    BY <1>19, <2>1
  <2> DEFINE m == Len(abr)
             h == Len(w.s.out)
             n == w.p.written
  <2>4. m \in Nat /\ h \in Nat /\ n \in Nat /\ i \in Nat /\ k \in Nat /\ k + m = n - h + 1 + i
    BY <1>7, <1>8, <2>2, <2>3
  <2>5. Len(abr) + (Len(w.s.out) - i) = w.p.written - k + 1
    <3> HIDE DEF m, h, n
    <3>1. m + (h - i) = n - k + 1
      BY <2>4
    <3> QED BY <3>1 DEF m, h, n
  <2>6. Len(all) = Len(abr) + (Len(w.s.out) - i)
    BY <1>12, <1>21
  <2> QED BY <2>5, <2>6
<1> HIDE DEF all
<1>23. w.p.written \in Int
  BY <1>8
<1>24. all = From(k, w.p.written)
  BY <1>7, <1>21, <1>22, <1>23, RunIsFrom
<1> QED BY <1>2, <1>3, <1>4, <1>24 DEF all, abr, ab, a, b

LEMMA IInvBytes == IInv => BytesAreNotLost
  BY LogIsFrom, PipeIsFrom DEF BytesAreNotLost

LEMMA IInvEnd == IInv => EndOfStreamIsTheEnd
<1> SUFFICES ASSUME IInv, NEW e \in Ends, proc[Peer(e)].eof, end[Peer(e)].use, ~end[Peer(e)].closing, upset = {}
             PROVE  \E k \in Firsts(e) : proc[Peer(e)].log = From(k, proc[e].written)
  BY DEF EndOfStreamIsTheEnd
<1> DEFINE w == Start(e, TRUE)
           y == Side(Peer(e))
           c == TRUE /\ upset = {}
           q == y.p.log
<1>1. PICK k, l : HoldsAt(k, l, e, w, y, c)
  BY StartHolds
<1>2. w.p = proc[e] /\ y.s = end[Peer(e)] /\ y.p = proc[Peer(e)] /\ q = proc[Peer(e)].log /\ c
  BY DEF Start, Side
<1>3. k \in Nat /\ w.p \in Processes /\ y.p \in Processes
  BY <1>1, Numbers
<1> HIDE DEF w, y, c
<1>4. Endings(k, w, y, c) /\ k \in Firsts(e) /\ Run(q, k)
  BY <1>1 DEF HoldsAt, GoodAt, Flow
<1>5. Complete(k, w, y) /\ y.s.in = <<>>
  BY <1>2, <1>4 DEF Endings
<1>6. q \in Seq(Nat) /\ w.p.written \in Nat
  BY <1>3, ProcessFields
<1>7. Wanted(k, y) = w.p.written + 1 /\ Wanted(k, y) = k + Len(q) + Len(<<>>) + Len(<<>>)
  BY <1>5 DEF Complete, Wanted, Kept
<1> HIDE DEF q
<1>8. Len(q) = w.p.written - k + 1 /\ w.p.written \in Int
  BY <1>3, <1>6, <1>7
<1>9. q = From(k, w.p.written)
  BY <1>3, <1>4, <1>6, <1>8, RunIsFrom
<1> QED BY <1>2, <1>4, <1>9

\* The ends of a stream, their processes and the packets under way keep their
\* types and limits, for every length of the buffers and every number of
\* repetitions and packets (struct stream, ripc_stream_update).
THEOREM NetTypeCorrect == Spec => []TypeOK
BY NetInvariance, IInvTypeOK, PTL

\* The bytes a process reads are those its peer wrote, in order, without a gap
\* or a repetition, whichever packets are lost, sent again or overtaken, and
\* from the first that arrives on none is lost on the way.  The bytes of the
\* acceptor's first packet may be: it has the number 0 when nothing has come
\* from the requester yet, and is then acknowledged and dropped (Firsts;
\* ripc_stream_send_data, ripc_stream_recv_data).
THEOREM BytesCross == Spec => []BytesAreNotLost
BY NetInvariance, IInvBytes, PTL

\* Without a fault besides lost packets, a reader that is told that the stream
\* has ended has read all that was written (close_this_stream,
\* ripc_stream_reset, ripc_stream_update).
THEOREM EndIsTheEnd == Spec => []EndOfStreamIsTheEnd
BY NetInvariance, IInvEnd, PTL

\* No step but a fault, and the two exceptions the property names, leaves a
\* process asleep on the stream that nobody will wake (ripc_stream_update, the
\* timers).
THEOREM NobodyIsForgotten == Spec => SleepersStayAwaited
<1>1. IInv /\ [Next]_vars => Wakeful
  BY NextStep
<1>2. Wakeful => [\A e \in Ends :
                    Sleeps(e)' /\ ~Awaited(e)' =>
                      \/ Sleeps(e) /\ ~Awaited(e)
                      \/ upset' # upset \/ end[e].closing \/ end[e].req = "stale"]_vars
  BY DEF Wakeful
<1> QED BY <1>1, <1>2, NetInvariance, PTL DEF Spec, SleepersStayAwaited
=============================================================================
