--------------------------- MODULE SysExecProofs ----------------------------
(***************************************************************************)
(* Theorems about SysExec, for any coroutines, descriptors and bounds.     *)
(***************************************************************************)
EXTENDS SysExec, TLAPS, SequenceTheorems

(* A descriptor without record has no data, and nothing is received that   *)
(* was not written.                                                        *)
Cleared ==
  \A fd \in Fd \ tree :
    /\ cur[fd] = 0 /\ got[fd] = 0 /\ written[fd] = 0
    /\ out[fd] = <<>> /\ queued[fd] = <<>>
    /\ fd \notin closed /\ fd \notin qname
Behind == \A fd \in Fd : got[fd] <= written[fd]

(* With one thread, what was called is still waited for.                   *)
CalledIsWaited ==
  ~threads => pending \subseteq tree /\ \A c \in fired : status[c] = "wait"

Records == RecordsAgree /\ CalledIsWaited /\ HandlersFindRecord /\ NoStrayChild
Data == Cleared /\ Behind /\ OutputIsPrefix /\ QueueGetsAll

(* A coroutine that waits has no result yet.                               *)
Unanswered == \A c \in Ctx : status[c] = "wait" => result[c] = NoOutput

ExecInv == TypeOK /\ Records /\ Data /\ Unanswered

-----------------------------------------------------------------------------
(* The bytes of an output.                                                 *)

(* Bytes are a sequence of their number.                                   *)
LEMMA BytesAreSeq ==
  ASSUME NEW from \in Nat, NEW n \in Nat
  PROVE  Bytes(from, n) \in Seq(Nat) /\ Len(Bytes(from, n)) = n
<1>1. \A i \in 1 .. n : from + i \in Nat  OBVIOUS
<1>2. Bytes(from, n) \in [1 .. n -> Nat]  BY <1>1 DEF Bytes
<1>3. Bytes(from, n) \in Seq(Nat)  BY <1>2
<1> QED  BY <1>2, <1>3

(* The first bytes and those that follow them are the first bytes.         *)
LEMMA BytesContinue ==
  ASSUME NEW a \in Nat, NEW n \in Nat
  PROVE  Bytes(0, a) \o Bytes(a, n) = Bytes(0, a + n)
<1> DEFINE s == Bytes(0, a)
           t == Bytes(a, n)
           u == Bytes(0, a + n)
<1>1. s \in Seq(Nat) /\ Len(s) = a /\ t \in Seq(Nat) /\ Len(t) = n
  BY BytesAreSeq
<1>2. u \in Seq(Nat) /\ Len(u) = a + n  BY BytesAreSeq
<1>3. s \o t \in Seq(Nat) /\ Len(s \o t) = a + n  BY <1>1
<1>4. ASSUME NEW i \in 1 .. a + n PROVE (s \o t)[i] = u[i]
  <2>1. u[i] = i  BY DEF Bytes
  <2>2. CASE i <= a
    <3>1. (s \o t)[i] = s[i]  BY <1>1, <2>2
    <3> QED  BY <2>1, <2>2, <3>1 DEF Bytes
  <2>3. CASE i > a
    <3>1. (s \o t)[i] = t[i - a]
      <4> HIDE DEF s, t
      <4>1. \A j \in 1 .. Len(s) + Len(t) :
              (s \o t)[j] = IF j <= Len(s) THEN s[j] ELSE t[j - Len(s)]
        BY <1>1, ConcatProperties
      <4> QED  BY <1>1, <2>3, <4>1
    <3>2. i - a \in 1 .. n  BY <2>3
    <3> QED  BY <2>1, <3>1, <3>2 DEF Bytes
  <2>4. i <= a \/ i > a  OBVIOUS
  <2> QED  BY <2>2, <2>3, <2>4
<1> HIDE DEF s, t, u
<1>5. s \o t = u  BY <1>2, <1>3, <1>4, SeqEqual
<1> QED  BY <1>5 DEF s, t, u

(* No bytes are added by none.                                             *)
LEMMA NoBytes ==
  ASSUME NEW a \in Nat, NEW from
  PROVE  Bytes(0, a) \o Bytes(from, 0) = Bytes(0, a)
<1>1. Bytes(from, 0) = <<>>  BY DEF Bytes
<1>2. Bytes(0, a) \in Seq(Nat)  BY BytesAreSeq
<1> QED  BY <1>1, <1>2, ConcatEmptySeq

(* The buffer before another than the first.                               *)
LEMMA OneBefore == \A m \in Nat : m >= 1 /\ m # 1 => m - 1 \in 1 .. m
OBVIOUS

(* What a chain adds: the loop keeps the first bytes of the output, up to  *)
(* the limit, whatever the buffers; a queue gets them all.                 *)
LEMMA ChainIsKept ==
  ASSUME TypeOK, Data, NEW fd \in Fd, fd \in tree, NEW chain \in Chains(fd)
  PROVE  /\ Total(chain) = written[fd] - got[fd]
         /\ Bytes(0, got[fd]) \o Bytes(got[fd], Total(chain))
              = Bytes(0, written[fd])
         /\ \A s : StopsAt(fd, chain, s) =>
              /\ NewSize(fd, chain, s) = Limited(limit[fd], written[fd])
              /\ NewOut(fd, chain, s) = Bytes(0, NewSize(fd, chain, s))
<1> DEFINE g == got[fd]
           w == written[fd]
           n == w - g
           l == limit[fd]
<1>1. g \in Nat /\ w \in Nat /\ g <= w /\ n \in Nat /\ l \in Int
  <2>1. g \in Nat /\ w \in Nat  BY DEF TypeOK
  <2>2. g <= w  BY DEF Data, Behind
  <2>3. l \in Bufsizes \cup {0}  BY DEF TypeOK
  <2>4. l \in Int
    <3>1. CASE l \in Bufsizes  BY <3>1, ConstAssumption
    <3>2. CASE l = 0  BY <3>2
    <3> QED  BY <2>3, <3>1, <3>2
  <2> QED  BY <2>1, <2>2, <2>4
<1>2. cur[fd] = Limited(l, g) /\ out[fd] = Bytes(0, cur[fd])
  BY DEF Data, OutputIsPrefix
<1>3. cur[fd] \in Nat  BY DEF TypeOK
<1>4. /\ chain \in Seq(1 .. n)
      /\ n > 0 => chain # <<>> /\ chain[Len(chain)] = n
  <2>1. PICK k \in 0 .. n : chain \in [1 .. k -> 1 .. n]  BY DEF Chains
  <2>2. n > 0 => chain # <<>> /\ chain[Len(chain)] = n  BY DEF Chains
  <2>3. k \in Nat  BY <1>1, <2>1
  <2>4. chain \in Seq(1 .. n)  BY <2>1, <2>3, SeqDef
  <2> QED  BY <2>2, <2>4
<1>5. /\ Len(chain) \in Nat
      /\ \A i \in 1 .. Len(chain) : chain[i] \in Int /\ 1 <= chain[i] /\ chain[i] <= n
      /\ chain # <<>> => Len(chain) >= 1
  BY <1>4, <1>1
<1>6. Total(chain) = n
  <2>1. CASE n > 0  BY <1>4, <2>1 DEF Total
  <2>2. CASE n = 0
    <3>1. chain = <<>>  BY <1>1, <1>4, <1>5, <2>2
    <3> QED  BY <2>2, <3>1 DEF Total
  <2> QED  BY <1>1, <2>1, <2>2
<1>7. Bytes(0, g) \o Bytes(g, n) = Bytes(0, w)
  <2>1. g + n = w  BY <1>1
  <2> QED  BY <1>1, <2>1, BytesContinue
<1>8. ASSUME NEW s, StopsAt(fd, chain, s)
      PROVE  /\ NewSize(fd, chain, s) = Limited(l, w)
             /\ NewOut(fd, chain, s) = Bytes(0, Limited(l, w))
  <2>1. s \in 1 .. Len(chain) + 1  BY <1>8 DEF StopsAt
  <2>2. CASE s > Len(chain)
    <3>1. chain # <<>> => l < 0 \/ g + n < l
      <4> SUFFICES ASSUME chain # <<>>, l >= 0 PROVE g + n < l  BY <1>1
      <4>0. Len(chain) \in Nat /\ Len(chain) >= 1  BY <1>5
      <4>1. Len(chain) \in 1 .. s - 1  BY <4>0, <2>1, <2>2
      <4>2. ~Fills(fd, chain, Len(chain))  BY <1>8, <4>1 DEF StopsAt
      <4>4. Before(chain, Len(chain)) \in Int
        <5>1. CASE Len(chain) = 1  BY <5>1 DEF Before
        <5>2. CASE Len(chain) # 1
          <6>1. Len(chain) - 1 \in 1 .. Len(chain)
            BY <4>0, <5>2, OneBefore
          <6>2. chain[Len(chain) - 1] \in Int  BY <1>5, <6>1
          <6> QED  BY <5>2, <6>2 DEF Before
        <5> QED  BY <5>1, <5>2
      <4>3. cur[fd] + Before(chain, Len(chain))
              + (chain[Len(chain)] - Before(chain, Len(chain))) < l
        BY <1>1, <1>3, <1>5, <4>2, <4>4 DEF Fills, Size, BufSize
      <4>5. chain[Len(chain)] = n  BY <1>6 DEF Total
      <4>6. cur[fd] + n < l  BY <1>1, <1>3, <4>3, <4>4, <4>5
      <4> QED  BY <1>1, <1>2, <4>6 DEF Limited
    <3>2. Limited(l, w) = cur[fd] + n
      <4>1. CASE chain # <<>>  BY <1>1, <1>2, <3>1, <4>1 DEF Limited
      <4>2. CASE chain = <<>>
        <5>1. n = 0  BY <1>6, <4>2 DEF Total
        <5>2. w = g  BY <1>1, <5>1
        <5>3. Limited(l, w) = cur[fd]  BY <1>2, <5>2
        <5> QED  BY <1>3, <5>1, <5>3
      <4> QED  BY <4>1, <4>2
    <3>3. NewSize(fd, chain, s) = cur[fd] + n  BY <1>6, <2>2 DEF NewSize
    <3>4. NewOut(fd, chain, s) = Bytes(0, cur[fd]) \o Bytes(g, n)
      BY <1>2, <1>6, <2>2 DEF NewOut, Kept
    <3>5. n = 0 \/ cur[fd] = g
      <4>1. chain = <<>> => n = 0  BY <1>6 DEF Total
      <4> QED  BY <1>1, <1>2, <3>1, <4>1 DEF Limited
    <3>6. NewOut(fd, chain, s) = Bytes(0, cur[fd] + n)
      <4>1. CASE n = 0
        <5>1. cur[fd] + n = cur[fd]  BY <1>3, <4>1
        <5> QED  BY <1>3, <3>4, <4>1, <5>1, NoBytes
      <4>2. CASE cur[fd] = g  BY <1>1, <3>4, <4>2, BytesContinue
      <4> QED  BY <3>5, <4>1, <4>2
    <3> QED  BY <3>2, <3>3, <3>6
  <2>3. CASE s <= Len(chain)
    <3>1. s \in 1 .. Len(chain) /\ Fills(fd, chain, s)  BY <1>8, <2>1, <2>3 DEF StopsAt
    <3>2. Before(chain, s) \in Nat  BY <1>5, <3>1 DEF Before
    <3>3. l >= 0 /\ cur[fd] + chain[s] >= l
      BY <1>1, <1>3, <1>5, <3>1, <3>2 DEF Fills, Size, BufSize
    <3>4. l <= w /\ Limited(l, w) = l
      BY <1>1, <1>2, <1>5, <3>1, <3>3 DEF Limited
    <3>5. NewSize(fd, chain, s) = l  BY <2>3, <1>5, <2>1 DEF NewSize
    <3>6. Kept(fd, chain, s) = l - cur[fd]
      <4>1. CASE l = 0
        <5>1. cur[fd] = 0  BY <1>1, <1>2, <4>1 DEF Limited
        <5>2. s = 1
          <6> SUFFICES ASSUME s > 1 PROVE FALSE  BY <3>1, <1>5
          <6>1. 1 \in 1 .. s - 1 /\ 1 \in 1 .. Len(chain)  BY <3>1, <1>5
          <6>2. ~Fills(fd, chain, 1)  BY <1>8, <6>1 DEF StopsAt
          <6> QED  BY <1>5, <4>1, <5>1, <6>1, <6>2 DEF Fills, Size, BufSize, Before
        <5> QED  BY <2>3, <4>1, <5>1, <5>2, <1>5 DEF Kept, Before
      <4>2. CASE l # 0
        BY <1>1, <1>3, <1>5, <2>1, <2>3, <3>2, <4>2 DEF Kept, Size
      <4> QED  BY <4>1, <4>2
    <3>7. l - cur[fd] \in Nat /\ (l - cur[fd] = 0 \/ cur[fd] = g)
      BY <1>1, <1>2, <1>3, <3>3 DEF Limited
    <3>8. NewOut(fd, chain, s) = Bytes(0, cur[fd]) \o Bytes(g, l - cur[fd])
      BY <1>2, <3>6 DEF NewOut
    <3>9. NewOut(fd, chain, s) = Bytes(0, l)
      <4>1. CASE l - cur[fd] = 0
        <5>1. l = cur[fd]  BY <1>1, <1>3, <4>1
        <5> QED  BY <1>3, <3>8, <4>1, <5>1, NoBytes
      <4>2. CASE cur[fd] = g
        <5>1. cur[fd] + (l - cur[fd]) = l  BY <1>1, <1>3
        <5> QED  BY <1>3, <3>7, <3>8, <4>2, <5>1, BytesContinue
      <4> QED  BY <3>7, <4>1, <4>2
    <3> QED  BY <3>4, <3>5, <3>9
  <2> QED  BY <1>5, <2>1, <2>2, <2>3
<1> QED  BY <1>6, <1>7, <1>8

-----------------------------------------------------------------------------
(* The release of a record.                                                *)

(* What is left is well-typed.                                             *)
LEMMA FreeIsTyped ==
  ASSUME TypeOK, NEW fd \in Fd, NEW r \in BOOLEAN, Free(fd, r)
  PROVE  /\ tree' \subseteq Fd /\ armed' \subseteq Fd
         /\ qname' \subseteq Fd /\ closed' \subseteq Fd
         /\ user' \in [Fd -> Ctx \cup {NoCtx}]
         /\ limit' \in [Fd -> Bufsizes \cup {0}] /\ cur' \in [Fd -> Nat]
         /\ out' \in [Fd -> Seq(Nat)] /\ queued' \in [Fd -> Seq(Nat)]
         /\ written' \in [Fd -> Nat] /\ got' \in [Fd -> Nat]
         /\ stray' \in BOOLEAN
<1>1. tree' \subseteq Fd /\ armed' \subseteq Fd /\ qname' \subseteq Fd
      /\ closed' \subseteq Fd
  BY DEF TypeOK, Free
<1>2. user' \in [Fd -> Ctx \cup {NoCtx}]  BY DEF TypeOK, Free
<1>3. limit' \in [Fd -> Bufsizes \cup {0}]  BY DEF TypeOK, Free
<1>4. cur' \in [Fd -> Nat] /\ written' \in [Fd -> Nat] /\ got' \in [Fd -> Nat]
  BY DEF TypeOK, Free
<1>5. << >> \in Seq(Nat)  OBVIOUS
<1>6. out' \in [Fd -> Seq(Nat)] /\ queued' \in [Fd -> Seq(Nat)]
  BY <1>5 DEF TypeOK, Free
<1>7. stray' \in BOOLEAN  BY Zenon DEF TypeOK, Free
<1> QED  BY <1>1, <1>2, <1>3, <1>4, <1>6, <1>7

(* The other records keep their data, and that of fd is cleared.           *)
LEMMA FreeKeepsData ==
  ASSUME TypeOK, Data, NEW fd \in Fd, NEW r \in BOOLEAN, Free(fd, r),
         lowmem' = lowmem
  PROVE  Data'
<1>1. Cleared'  BY DEF TypeOK, Data, Cleared, Free
<1>2. Behind'  BY DEF TypeOK, Data, Behind, Free
<1>3. OutputIsPrefix'  BY DEF TypeOK, Data, OutputIsPrefix, Free
<1>4. QueueGetsAll'  BY DEF TypeOK, Data, QueueGetsAll, Free
<1> QED  BY <1>1, <1>2, <1>3, <1>4 DEF Data

(* The coroutine of the record waits for it alone.                         *)
LEMMA OwnerWaits ==
  ASSUME TypeOK, Records, NEW fd \in tree
  PROVE  /\ fd \in Fd /\ user[fd] \in Ctx /\ cse[user[fd]] = fd
         /\ fd # NoFd
         /\ user[fd] \notin timer /\ user[fd] \notin fired
         /\ status[user[fd]] = "wait"
<1>1. fd \in Fd /\ user[fd] \in Ctx /\ cse[user[fd]] = fd
  BY DEF TypeOK, Records, RecordsAgree
<1>2. fd # NoFd  BY <1>1, ConstAssumption
<1>3. status[user[fd]] = "wait" /\ user[fd] \notin timer
  BY <1>1, <1>2 DEF Records, RecordsAgree, Waiting
<1>4. user[fd] \notin fired  BY <1>3 DEF Records, RecordsAgree
<1> QED  BY <1>1, <1>2, <1>3, <1>4

(* A coroutine that runs has no child and no timer.                        *)
LEMMA RunnerIsFree ==
  ASSUME TypeOK, Records, NEW c \in Ctx, status[c] # "wait"
  PROVE  /\ cse[c] = NoFd /\ c \notin timer
         /\ \A fd \in tree : user[fd] # c
         /\ status[c] = "run" => c \notin fired
<1>1. cse[c] = NoFd /\ c \notin timer  BY DEF Records, RecordsAgree, Waiting
<1>2. \A fd \in tree : user[fd] # c  BY OwnerWaits
<1>3. status[c] = "run" => c \notin fired  BY <1>1 DEF Records, RecordsAgree
<1> QED  BY <1>1, <1>2, <1>3

-----------------------------------------------------------------------------
(* The steps.                                                              *)

(* The actions of Next, for the lemmas below.                              *)
LEMMA NextCases ==
  ASSUME Next
  PROVE  \/ \E c \in Ctx, fd \in Fd, bufsize \in Bufsizes, q \in BOOLEAN :
              Exec(c, fd, bufsize, q)
         \/ \E c \in Ctx, fd \in Fd : ExecFails(c, fd)
         \/ \E c \in Ctx : Msleep(c) \/ ImportMq(c) \/ End(c)
         \/ \E k, c \in Ctx : Kill(k, c)
         \/ \E fd \in Fd : ChildWrites(fd) \/ ChildCloses(fd) \/ Fire(fd)
         \/ \E fd \in Fd : \E chain \in Chains(fd) :
              \E s : ReadData(fd, chain, s)
         \/ \E fd \in Fd : \E chain \in Chains(fd) :
              \E s : ReadClosed(fd, chain, s)
         \/ \E fd \in Fd : ReadErrs(fd)
         \/ \E fd \in Fd : \E chain \in Chains(fd) : ReadAborts(fd, chain)
         \/ \E fd \in Fd : HandlerAborts(fd)
         \/ \E c \in Ctx : TimerFires(c) \/ Wakes(c) \/ WakeAborts(c)
<1>1. CASE Script  BY <1>1 DEF Script
<1>2. CASE Child  BY <1>2 DEF Child
<1>3. CASE \E fd \in Fd : Fire(fd)  BY <1>3
<1>4. CASE \E fd \in Fd : Handler(fd)  BY <1>4 DEF Handler
<1>5. CASE \E c \in Ctx : TimerFires(c) \/ Wakes(c) \/ WakeAborts(c)
  BY <1>5
<1> QED  BY <1>1, <1>2, <1>3, <1>4, <1>5 DEF Next

(* Every step keeps the types.                                             *)
LEMMA TypesStep ==
  ASSUME TypeOK, Records, Data, Next
  PROVE  TypeOK'
<1> USE DEF options, seVars, childVars
<1>1. ASSUME NEW c \in Ctx, NEW fd \in Fd, NEW bufsize \in Bufsizes,
             NEW q \in BOOLEAN, Exec(c, fd, bufsize, q)
      PROVE  TypeOK'
  <2>1. limit' \in [Fd -> Bufsizes \cup {0}]  BY <1>1 DEF TypeOK, Exec
  <2>2. user' \in [Fd -> Ctx \cup {NoCtx}] /\ cse' \in [Ctx -> Fd \cup {NoFd}]
    BY <1>1 DEF TypeOK, Exec
  <2>3. status' \in [Ctx -> {"run", "wait", "end"}]
        /\ result' \in [Ctx -> Seq(Nat) \cup {NoOutput}]
    BY <1>1 DEF TypeOK, Exec
  <2>4. tree' \subseteq Fd /\ armed' \subseteq Fd /\ qname' \subseteq Fd
    BY <1>1 DEF TypeOK, Exec
  <2>5. UNCHANGED <<options, mqSet, timer, cur, out, queued, got, childVars,
                    pending, fired, stray, fault>>
    BY <1>1 DEF Exec
  <2> QED  BY <2>1, <2>2, <2>3, <2>4, <2>5 DEF TypeOK
<1>2. ASSUME NEW c \in Ctx, NEW fd \in Fd, ExecFails(c, fd)
      PROVE  TypeOK'
  <2>1. status' \in [Ctx -> {"run", "wait", "end"}]
        /\ result' \in [Ctx -> Seq(Nat) \cup {NoOutput}]
    BY <1>2 DEF TypeOK, ExecFails
  <2>2. stray' \in BOOLEAN /\ pending' \subseteq Fd
    BY <1>2 DEF TypeOK, ExecFails
  <2> QED  BY <1>2, <2>1, <2>2 DEF TypeOK, ExecFails
<1>3. ASSUME NEW c \in Ctx, Msleep(c) \/ ImportMq(c) \/ End(c)
      PROVE  TypeOK'
  <2>1. CASE Msleep(c)  BY <2>1 DEF TypeOK, Msleep
  <2>2. CASE ImportMq(c)  BY <2>2 DEF TypeOK, ImportMq
  <2>3. CASE End(c)  BY <2>3 DEF TypeOK, End
  <2> QED  BY <1>3, <2>1, <2>2, <2>3
<1>4. ASSUME NEW k \in Ctx, NEW c \in Ctx, Kill(k, c)
      PROVE  TypeOK'
  <2>1. status' \in [Ctx -> {"run", "wait", "end"}]
        /\ result' \in [Ctx -> Seq(Nat) \cup {NoOutput}]
        /\ cse' \in [Ctx -> Fd \cup {NoFd}] /\ timer' \subseteq Ctx
    BY <1>4 DEF TypeOK, Kill, Cancelled
  <2>2. CASE cse[c] = NoFd
    BY <1>4, <2>1, <2>2 DEF TypeOK, Kill, OwnChild
  <2>3. CASE cse[c] # NoFd
    <3>1. cse[c] \in Fd  BY <2>3 DEF TypeOK
    <3>2. Free(cse[c], TRUE)
      BY <1>4, <2>3 DEF Kill, OwnChild, StartsRunning
    <3>3. UNCHANGED <<options, mqSet, pending, fired, fault>>
      BY <1>4 DEF Kill
    <3> QED  BY <2>1, <3>1, <3>2, <3>3, FreeIsTyped DEF TypeOK
  <2> QED  BY <2>2, <2>3
<1>5. ASSUME NEW fd \in Fd, ChildWrites(fd) \/ ChildCloses(fd) \/ Fire(fd)
      PROVE  TypeOK'
  <2>1. CASE ChildWrites(fd)  BY <2>1 DEF TypeOK, ChildWrites
  <2>2. CASE ChildCloses(fd)  BY <2>2 DEF TypeOK, ChildCloses
  <2>3. CASE Fire(fd)  BY <2>3 DEF TypeOK, Fire
  <2> QED  BY <1>5, <2>1, <2>2, <2>3
<1>6. ASSUME NEW fd \in Fd, NEW value \in Seq(Nat) \cup {NoOutput},
             ExecEnds(fd, value), fd \in tree, pending' = pending \ {fd},
             UNCHANGED <<options, mqSet, timer, fired, fault>>
      PROVE  TypeOK'
  <2>0. user[fd] \in Ctx  BY <1>6, OwnerWaits
  <2>1. status' \in [Ctx -> {"run", "wait", "end"}]
        /\ result' \in [Ctx -> Seq(Nat) \cup {NoOutput}]
        /\ cse' \in [Ctx -> Fd \cup {NoFd}]
    <3>1. status' \in [Ctx -> {"run", "wait", "end"}]
      BY <1>6, <2>0 DEF TypeOK, ExecEnds
    <3>2. result' \in [Ctx -> Seq(Nat) \cup {NoOutput}]
      BY <1>6, <2>0 DEF TypeOK, ExecEnds
    <3>3. cse' \in [Ctx -> Fd \cup {NoFd}]
      BY <1>6, <2>0 DEF TypeOK, ExecEnds, NoExec
    <3> QED  BY <3>1, <3>2, <3>3
  <2>2. Free(fd, FALSE)  BY <1>6 DEF ExecEnds
  <2> QED  BY <1>6, <2>1, <2>2, FreeIsTyped DEF TypeOK
<1>7. ASSUME NEW fd \in Fd, fd \in tree, NEW chain \in Chains(fd), NEW s,
             StopsAt(fd, chain, s)
      PROVE  /\ NewSize(fd, chain, s) \in Nat
             /\ NewOut(fd, chain, s) \in Seq(Nat)
             /\ Bytes(got[fd], Total(chain)) \in Seq(Nat)
  <2>1. /\ NewSize(fd, chain, s) = Limited(limit[fd], written[fd])
        /\ NewOut(fd, chain, s) = Bytes(0, NewSize(fd, chain, s))
        /\ Total(chain) = written[fd] - got[fd]
    BY <1>7, ChainIsKept
  <2>2. written[fd] \in Nat /\ got[fd] \in Nat /\ got[fd] <= written[fd]
    BY DEF TypeOK, Data, Behind
  <2>3. limit[fd] \in Bufsizes \/ limit[fd] = 0  BY DEF TypeOK
  <2>4. limit[fd] \in Int
    <3>1. CASE limit[fd] \in Bufsizes  BY <3>1, ConstAssumption
    <3>2. CASE limit[fd] = 0  BY <3>2
    <3> QED  BY <2>3, <3>1, <3>2
  <2>5. Limited(limit[fd], written[fd]) \in Nat  BY <2>2, <2>4 DEF Limited
  <2>6. Total(chain) \in Nat  BY <2>1, <2>2
  <2>7. 0 \in Nat  OBVIOUS
  <2> QED  BY <2>1, <2>2, <2>5, <2>6, <2>7, BytesAreSeq
<1>8. ASSUME NEW fd \in Fd, NEW chain \in Chains(fd), NEW s,
             ReadData(fd, chain, s)
      PROVE  TypeOK'
  <2>1. fd \in tree /\ StopsAt(fd, chain, s)  BY <1>8 DEF ReadData, Received
  <2>2. NewSize(fd, chain, s) \in Nat /\ NewOut(fd, chain, s) \in Seq(Nat)
        /\ Bytes(got[fd], Total(chain)) \in Seq(Nat)
    BY <1>7, <2>1
  <2>3. cur' \in [Fd -> Nat] /\ got' \in [Fd -> Nat]
    BY <1>8, <2>2 DEF TypeOK, ReadData
  <2>4. out' \in [Fd -> Seq(Nat)]  BY <1>8, <2>2 DEF TypeOK, ReadData
  <2>5. queued' \in [Fd -> Seq(Nat)]
    <3>1. queued[fd] \o Bytes(got[fd], Total(chain)) \in Seq(Nat)
      BY <2>2 DEF TypeOK
    <3> QED  BY <1>8, <3>1 DEF TypeOK, ReadData, ToQueue
  <2>6. pending' \subseteq Fd /\ armed' \subseteq Fd
    BY <1>8 DEF TypeOK, ReadData, Received, StaysArmed
  <2>7. UNCHANGED <<options, mqSet, timer, fired, fault, status, cse, tree,
                    user, limit, qname, childVars, result, stray>>
    BY <1>8 DEF ReadData, Received
  <2> QED  BY <2>3, <2>4, <2>5, <2>6, <2>7 DEF TypeOK
<1>9. ASSUME NEW fd \in Fd, NEW chain \in Chains(fd), NEW s,
             ReadClosed(fd, chain, s)
      PROVE  TypeOK'
  <2>1. fd \in tree /\ StopsAt(fd, chain, s) /\ pending' = pending \ {fd}
        /\ UNCHANGED <<options, mqSet, timer, fired, fault>>
    BY <1>9 DEF ReadClosed, Received
  <2>2. NewOut(fd, chain, s) \in Seq(Nat)  BY <1>7, <2>1
  <2>3. result[user[fd]] \in Seq(Nat) \cup {NoOutput}
    BY <2>1, OwnerWaits DEF TypeOK
  <2> QED  BY <1>6, <1>9, <2>1, <2>2, <2>3 DEF ReadClosed, Output
<1>10. ASSUME NEW fd \in Fd, ReadErrs(fd)
       PROVE  TypeOK'
  <2>1. fd \in tree /\ pending' = pending \ {fd}
        /\ UNCHANGED <<options, mqSet, timer, fired, fault>>
    BY <1>10 DEF ReadErrs, Received
  <2>2. result[user[fd]] \in Seq(Nat) \cup {NoOutput}
    BY <2>1, OwnerWaits DEF TypeOK
  <2> QED  BY <1>6, <1>10, <2>1, <2>2 DEF ReadErrs
<1>11. ASSUME NEW where \in {"mq_set", "handler", "timer"}, Abort(where)
       PROVE  TypeOK'
  BY <1>11 DEF TypeOK, Abort
<1>12. ASSUME NEW c \in Ctx, TimerFires(c) \/ Wakes(c)
       PROVE  TypeOK'
  BY <1>12 DEF TypeOK, TimerFires, Wakes, TimerOut
<1>13. ASSUME NEW fd \in Fd, NEW chain \in Chains(fd), ReadAborts(fd, chain)
       PROVE  TypeOK'
  BY <1>11, <1>13 DEF ReadAborts
<1>14. ASSUME NEW fd \in Fd, HandlerAborts(fd)
       PROVE  TypeOK'
  BY <1>11, <1>14 DEF HandlerAborts
<1>15. ASSUME NEW c \in Ctx, WakeAborts(c)
       PROVE  TypeOK'
  BY <1>11, <1>15 DEF WakeAborts
<1> QED
  BY <1>1, <1>2, <1>3, <1>4, <1>5, <1>8, <1>9, <1>10, <1>12, <1>13, <1>14,
     <1>15, NextCases

-----------------------------------------------------------------------------
(* Nothing that Records tells of changes.                                  *)
LEMMA RecordsSame ==
  ASSUME Records,
         UNCHANGED <<options, status, cse, timer, tree, armed, user, pending,
                     fired, stray, fault>>
  PROVE  Records'
BY DEF Records, RecordsAgree, Waiting, CalledIsWaited, HandlersFindRecord,
       NoStrayChild, options

(* Nothing that Data tells of changes.                                     *)
LEMMA DataSame ==
  ASSUME Data, UNCHANGED <<options, tree, seVars, childVars>>
  PROVE  Data'
BY DEF Data, Cleared, Behind, OutputIsPrefix, QueueGetsAll, options, seVars,
       childVars

(* Every step keeps the records of a child in agreement.                   *)
LEMMA RecordsStep ==
  ASSUME TypeOK, Records, Next
  PROVE  Records'
<1> USE DEF options, seVars, childVars, HandlersFindRecord
<1>1. ASSUME NEW c \in Ctx, NEW fd \in Fd, NEW bufsize \in Bufsizes,
             NEW q \in BOOLEAN, Exec(c, fd, bufsize, q)
      PROVE  Records'
  <2>1. status[c] = "run" /\ fd \notin tree /\ fd # NoFd
    BY <1>1, ConstAssumption DEF Exec, Running, Fresh
  <2>2. cse[c] = NoFd /\ c \notin timer /\ c \notin fired
        /\ \A f \in tree : user[f] # c
    BY <2>1, RunnerIsFree
  <2>3. /\ cse' = [cse EXCEPT ![c] = fd] /\ user' = [user EXCEPT ![fd] = c]
        /\ status' = [status EXCEPT ![c] = "wait"]
        /\ tree' = tree \cup {fd} /\ armed' = armed \cup {fd}
        /\ UNCHANGED <<threads, lowmem, timer, pending, fired, stray, fault>>
    BY <1>1 DEF Exec
  <2>4. RecordsAgree'
    BY <2>1, <2>2, <2>3 DEF TypeOK, Records, RecordsAgree, Waiting
  <2>5. CalledIsWaited'
    BY <2>2, <2>3 DEF TypeOK, Records, CalledIsWaited
  <2> QED  BY <2>3, <2>4, <2>5 DEF Records, NoStrayChild
<1>2. ASSUME NEW c \in Ctx, status[c] = "run",
             status' = [status EXCEPT ![c] = "end"],
             UNCHANGED <<options, cse, timer, tree, armed, user, fired, fault>>,
             threads \/ pending' = pending,
             NoStrayChild'
      PROVE  Records'
  <2>1. cse[c] = NoFd /\ c \notin timer /\ c \notin fired
    BY <1>2, RunnerIsFree
  <2>2. RecordsAgree'
    BY <1>2, <2>1 DEF TypeOK, Records, RecordsAgree, Waiting
  <2>3. CalledIsWaited'
    BY <1>2, <2>1 DEF TypeOK, Records, CalledIsWaited
  <2> QED  BY <1>2, <2>2, <2>3 DEF Records
<1>3. ASSUME NEW c \in Ctx, NEW fd \in Fd, ExecFails(c, fd)
      PROVE  Records'
  <2>1. /\ status[c] = "run" /\ status' = [status EXCEPT ![c] = "end"]
        /\ UNCHANGED <<options, cse, timer, tree, armed, user, fired, fault>>
        /\ threads \/ pending' = pending
    BY <1>3 DEF ExecFails, Running
  <2>2. NoStrayChild'  BY <1>3 DEF ExecFails, NoStrayChild
  <2> QED  BY <1>2, <2>1, <2>2
<1>4. ASSUME NEW c \in Ctx, End(c)
      PROVE  Records'
  BY <1>2, <1>4 DEF End, Running, Records, NoStrayChild
<1>5. ASSUME NEW c \in Ctx, Msleep(c)
      PROVE  Records'
  <2>1. status[c] = "run"  BY <1>5 DEF Msleep, Running
  <2>2. cse[c] = NoFd /\ c \notin fired  BY <2>1, RunnerIsFree
  <2>3. RecordsAgree'
    BY <1>5, <2>1, <2>2 DEF TypeOK, Msleep, Records, RecordsAgree, Waiting
  <2>4. CalledIsWaited'
    BY <1>5, <2>2 DEF TypeOK, Msleep, Records, CalledIsWaited
  <2> QED  BY <1>5, <2>3, <2>4 DEF Msleep, Records, NoStrayChild
<1>6. ASSUME NEW c \in Ctx, ImportMq(c)
      PROVE  Records'
  BY <1>6, RecordsSame DEF ImportMq
<1>7. ASSUME NEW k \in Ctx, NEW c \in Ctx, Kill(k, c)
      PROVE  Records'
  <2>1. /\ threads \/ (pending = {} /\ fired = {})
        /\ status' = [status EXCEPT ![c] = "end"]
        /\ cse' = [cse EXCEPT ![c] = NoFd] /\ timer' = timer \ {c}
        /\ UNCHANGED <<options, pending, fired, fault>>
    BY <1>7 DEF Kill, Running, Idle, Cancelled
  <2>2. CalledIsWaited'
    BY <2>1 DEF CalledIsWaited
  <2>3. CASE cse[c] = NoFd
    <3>1. UNCHANGED <<tree, armed, user, stray>>
      BY <1>7, <2>3 DEF Kill, OwnChild
    <3>2. RecordsAgree'
      BY <2>1, <2>3, <3>1 DEF TypeOK, Records, RecordsAgree, Waiting
    <3> QED  BY <2>1, <2>2, <3>1, <3>2 DEF Records, NoStrayChild
  <2>4. CASE cse[c] # NoFd
    <3>1. Free(cse[c], TRUE)
      BY <1>7, <2>4 DEF Kill, OwnChild, StartsRunning
    <3>2. /\ tree' = tree \ {cse[c]} /\ armed' = armed \ {cse[c]}
          /\ user' = [user EXCEPT ![cse[c]] = NoCtx]
      BY <3>1 DEF Free
    <3>3. RecordsAgree'
      BY <2>1, <2>4, <3>2 DEF TypeOK, Records, RecordsAgree, Waiting
    <3>4. NoStrayChild'
      BY <2>1, <3>1, Zenon DEF Free, Records, NoStrayChild
    <3> QED  BY <2>1, <2>2, <3>3, <3>4 DEF Records
  <2> QED  BY <2>3, <2>4
<1>8. ASSUME NEW fd \in Fd, ChildWrites(fd) \/ ChildCloses(fd)
      PROVE  Records'
  BY <1>8, RecordsSame DEF ChildWrites, ChildCloses
<1>9. ASSUME NEW fd \in Fd, Fire(fd)
      PROVE  Records'
  <2>1. RecordsAgree'
    BY <1>9 DEF Fire, Records, RecordsAgree, Waiting
  <2>2. CalledIsWaited'
    BY <1>9 DEF Fire, Records, RecordsAgree, CalledIsWaited
  <2> QED  BY <1>9, <2>1, <2>2 DEF Fire, Records, NoStrayChild
<1>10. ASSUME NEW fd \in Fd, NEW chain \in Chains(fd), NEW s,
              ReadData(fd, chain, s)
       PROVE  Records'
  <2>1. pending' = pending \ {fd} /\ armed' = armed
        /\ UNCHANGED <<threads, lowmem, timer, fired, fault, status, cse,
                       tree, user, stray>>
    BY <1>10 DEF ReadData, Received, StaysArmed
  <2>2. RecordsAgree'
    BY <2>1 DEF Records, RecordsAgree, Waiting
  <2>3. CalledIsWaited'
    BY <2>1 DEF Records, CalledIsWaited
  <2> QED  BY <2>1, <2>2, <2>3 DEF Records, NoStrayChild
<1>11. ASSUME NEW fd \in Fd, NEW value, ExecEnds(fd, value), fd \in tree,
              pending' = pending \ {fd}, fd \in closed \/ lowmem,
              UNCHANGED <<options, mqSet, timer, fired, fault>>
       PROVE  Records'
  <2>1. user[fd] \in Ctx /\ cse[user[fd]] = fd /\ user[fd] \notin timer
        /\ user[fd] \notin fired
    BY <1>11, OwnerWaits
  <2>2. /\ tree' = tree \ {fd} /\ armed' = armed \ {fd}
        /\ user' = [user EXCEPT ![fd] = NoCtx]
        /\ status' = [status EXCEPT ![user[fd]] = "run"]
        /\ cse' = [cse EXCEPT ![user[fd]] = NoFd]
    BY <1>11 DEF ExecEnds, Free, NoExec
  <2>3. RecordsAgree'
    BY <1>11, <2>1, <2>2 DEF TypeOK, Records, RecordsAgree, Waiting
  <2>4. CalledIsWaited'
    BY <1>11, <2>1, <2>2 DEF TypeOK, Records, CalledIsWaited
  <2>5. NoStrayChild'
    <3>1. Free(fd, FALSE) /\ lowmem' = lowmem  BY <1>11 DEF ExecEnds
    <3>2. stray' = (stray \/ fd \notin closed)  BY <3>1, Zenon DEF Free
    <3>3. ~lowmem => ~stray  BY DEF Records, NoStrayChild
    <3>4. ~lowmem => fd \in closed  BY <1>11
    <3>5. ~lowmem => ~stray'  BY <3>2, <3>3, <3>4, Zenon
    <3> QED  BY <3>1, <3>5, Zenon DEF NoStrayChild
  <2> QED  BY <1>11, <2>3, <2>4, <2>5 DEF Records
<1>12. ASSUME NEW fd \in Fd, NEW chain \in Chains(fd), NEW s,
              ReadClosed(fd, chain, s)
       PROVE  Records'
  BY <1>11, <1>12 DEF ReadClosed, Received
<1>13. ASSUME NEW fd \in Fd, ReadErrs(fd)
       PROVE  Records'
  BY <1>11, <1>13 DEF ReadErrs, Received
<1>14. ASSUME NEW where, Abort(where), where = "mq_set" \/ threads
       PROVE  Records'
  BY <1>14 DEF Abort, Records, RecordsAgree, Waiting, CalledIsWaited,
               NoStrayChild
<1>15. ASSUME NEW fd \in Fd, NEW chain \in Chains(fd), ReadAborts(fd, chain)
       PROVE  Records'
  BY <1>14, <1>15 DEF ReadAborts
<1>16. ASSUME NEW fd \in Fd, HandlerAborts(fd)
       PROVE  Records'
  <2>1. threads  BY <1>16 DEF HandlerAborts, Records, CalledIsWaited
  <2> QED  BY <1>14, <1>16, <2>1 DEF HandlerAborts
<1>17. ASSUME NEW c \in Ctx, WakeAborts(c)
       PROVE  Records'
  <2>1. threads  BY <1>17 DEF WakeAborts, Records, CalledIsWaited
  <2> QED  BY <1>14, <1>17, <2>1 DEF WakeAborts
<1>18. ASSUME NEW c \in Ctx, TimerFires(c)
       PROVE  Records'
  <2>1. RecordsAgree'
    BY <1>18 DEF TimerFires, Records, RecordsAgree, Waiting
  <2>2. CalledIsWaited'
    BY <1>18 DEF TimerFires, Records, RecordsAgree, Waiting, CalledIsWaited
  <2> QED  BY <1>18, <2>1, <2>2 DEF TimerFires, Records, NoStrayChild
<1>19. ASSUME NEW c \in Ctx, Wakes(c)
       PROVE  Records'
  <2>1. c \in timer /\ cse[c] = NoFd
    BY <1>19 DEF Wakes, Records, RecordsAgree
  <2>2. RecordsAgree'
    BY <1>19, <2>1 DEF TypeOK, Wakes, TimerOut, Records, RecordsAgree, Waiting
  <2>3. CalledIsWaited'
    BY <1>19 DEF TypeOK, Wakes, Records, CalledIsWaited
  <2> QED  BY <1>19, <2>2, <2>3 DEF Wakes, Records, NoStrayChild
<1> QED
  BY <1>1, <1>3, <1>4, <1>5, <1>6, <1>7, <1>8, <1>9, <1>10, <1>12, <1>13,
     <1>15, <1>16, <1>17, <1>18, <1>19, NextCases

(* Every step keeps the data of a child in agreement with its output.      *)
LEMMA DataStep ==
  ASSUME TypeOK, Records, Data, Next
  PROVE  Data'
<1> USE DEF options, seVars, childVars
<1>1. ASSUME NEW c \in Ctx, NEW fd \in Fd, NEW bufsize \in Bufsizes,
             NEW q \in BOOLEAN, Exec(c, fd, bufsize, q)
      PROVE  Data'
  <2>1. /\ fd \notin tree /\ tree' = tree \cup {fd}
        /\ limit' = [limit EXCEPT ![fd] = bufsize]
        /\ qname' = IF q THEN qname \cup {fd} ELSE qname
        /\ UNCHANGED <<lowmem, cur, out, queued, got, written, closed>>
    BY <1>1 DEF Exec, Fresh
  <2>2. cur[fd] = 0 /\ got[fd] = 0 /\ out[fd] = << >> /\ queued[fd] = << >>
    BY <2>1 DEF Data, Cleared
  <2>3. Limited(bufsize, 0) = 0
    <3>1. bufsize \in Int  BY ConstAssumption
    <3> QED  BY <3>1 DEF Limited
  <2>4. Bytes(0, 0) = << >>  BY DEF Bytes
  <2>5. Cleared'  BY <2>1 DEF TypeOK, Data, Cleared
  <2>6. OutputIsPrefix'
    BY <2>1, <2>2, <2>3, <2>4 DEF TypeOK, Data, OutputIsPrefix
  <2>7. QueueGetsAll'
    BY <2>1, <2>2, <2>4 DEF TypeOK, Data, QueueGetsAll
  <2> QED  BY <2>1, <2>5, <2>6, <2>7 DEF Data, Behind
<1>2. ASSUME NEW k \in Ctx, NEW c \in Ctx, Kill(k, c)
      PROVE  Data'
  <2>1. UNCHANGED options  BY <1>2 DEF Kill
  <2>2. CASE cse[c] = NoFd
    BY <1>2, <2>1, <2>2, DataSame DEF Kill, OwnChild
  <2>3. CASE cse[c] # NoFd
    <3>1. cse[c] \in Fd  BY <2>3 DEF TypeOK
    <3>2. Free(cse[c], TRUE)
      BY <1>2, <2>3 DEF Kill, OwnChild, StartsRunning
    <3> QED  BY <2>1, <3>1, <3>2, FreeKeepsData
  <2> QED  BY <2>2, <2>3
<1>3. ASSUME NEW fd \in Fd, ChildWrites(fd)
      PROVE  Data'
  <2>1. /\ fd \in tree /\ written' = [written EXCEPT ![fd] = @ + 1]
        /\ UNCHANGED <<lowmem, tree, seVars, closed>>
    BY <1>3 DEF ChildWrites
  <2>2. Behind'  BY <2>1 DEF TypeOK, Data, Behind
  <2> QED
    BY <2>1, <2>2 DEF TypeOK, Data, Cleared, OutputIsPrefix, QueueGetsAll
<1>4. ASSUME NEW fd \in Fd, ChildCloses(fd)
      PROVE  Data'
  BY <1>4 DEF ChildCloses, Data, Cleared, Behind, OutputIsPrefix, QueueGetsAll
<1>5. ASSUME NEW fd \in Fd, NEW chain \in Chains(fd), NEW s,
             ReadData(fd, chain, s)
      PROVE  Data'
  <2>1. fd \in tree /\ StopsAt(fd, chain, s)  BY <1>5 DEF ReadData, Received
  <2>2. /\ NewSize(fd, chain, s) = Limited(limit[fd], written[fd])
        /\ NewOut(fd, chain, s) = Bytes(0, NewSize(fd, chain, s))
        /\ Bytes(0, got[fd]) \o Bytes(got[fd], Total(chain))
             = Bytes(0, written[fd])
    BY <2>1, ChainIsKept
  <2>3. chain = << >> => got[fd] = written[fd]
    <3>1. Total(chain) = written[fd] - got[fd]  BY <2>1, ChainIsKept
    <3>2. got[fd] \in Nat /\ written[fd] \in Nat  BY DEF TypeOK
    <3> QED  BY <3>1, <3>2 DEF Total
  <2>4. /\ cur' = [cur EXCEPT ![fd] = NewSize(fd, chain, s)]
        /\ out' = [out EXCEPT ![fd] = NewOut(fd, chain, s)]
        /\ got' = [got EXCEPT ![fd] = written[fd]]
        /\ UNCHANGED <<options, tree, limit, qname, written, closed>>
    BY <1>5 DEF ReadData, Received
  <2>5. \/ queued' = [queued EXCEPT ![fd] =
                        queued[fd] \o Bytes(got[fd], Total(chain))]
        \/ UNCHANGED queued /\ (~Sends(fd, chain) \/ lowmem)
    BY <1>5 DEF ReadData, ToQueue
  <2>6. Cleared'  BY <2>1, <2>4, <2>5 DEF TypeOK, Data, Cleared
  <2>7. Behind'
    <3>1. written[fd] \in Nat  BY DEF TypeOK
    <3> QED  BY <2>4, <3>1 DEF TypeOK, Data, Behind
  <2>8. OutputIsPrefix'
    <3>1. cur'[fd] = Limited(limit'[fd], got'[fd])
          /\ out'[fd] = Bytes(0, cur'[fd])
      BY <2>2, <2>4 DEF TypeOK
    <3> QED  BY <2>4, <3>1 DEF TypeOK, Data, OutputIsPrefix
  <2>9. QueueGetsAll'
    <3>1. ASSUME ~lowmem, fd \in qname PROVE queued'[fd] = Bytes(0, got'[fd])
      <4>1. queued[fd] = Bytes(0, got[fd])
        BY <2>1, <3>1 DEF Data, QueueGetsAll
      <4>2. got'[fd] = written[fd]  BY <2>4 DEF TypeOK
      <4>3. CASE UNCHANGED queued /\ ~Sends(fd, chain)
        BY <2>3, <3>1, <4>1, <4>2, <4>3 DEF Sends
      <4>4. CASE queued' = [queued EXCEPT ![fd] =
                              queued[fd] \o Bytes(got[fd], Total(chain))]
        <5>1. queued'[fd] = queued[fd] \o Bytes(got[fd], Total(chain))
          BY <4>4 DEF TypeOK
        <5> QED  BY <2>2, <4>1, <4>2, <5>1
      <4> QED  BY <2>5, <3>1, <4>3, <4>4
    <3>2. ASSUME NEW f \in tree \cap qname, f # fd, ~lowmem
          PROVE  queued'[f] = Bytes(0, got'[f])
      <4>1. f \in Fd /\ queued[f] = Bytes(0, got[f])
        BY <3>2 DEF TypeOK, Data, QueueGetsAll
      <4>2. queued'[f] = queued[f] /\ got'[f] = got[f]
        BY <2>4, <2>5, <3>2, <4>1 DEF TypeOK
      <4> QED  BY <4>1, <4>2
    <3> QED  BY <2>4, <3>1, <3>2 DEF QueueGetsAll
  <2> QED  BY <2>6, <2>7, <2>8, <2>9 DEF Data
<1>6. ASSUME NEW fd \in Fd, NEW value, ExecEnds(fd, value), UNCHANGED options
      PROVE  Data'
  BY <1>6, FreeKeepsData DEF ExecEnds
<1>7. ASSUME NEW fd \in Fd, NEW chain \in Chains(fd), NEW s,
             ReadClosed(fd, chain, s)
      PROVE  Data'
  BY <1>6, <1>7 DEF ReadClosed, Received
<1>8. ASSUME NEW fd \in Fd, ReadErrs(fd)
      PROVE  Data'
  BY <1>6, <1>8 DEF ReadErrs, Received
<1>9. ASSUME \/ \E c \in Ctx, fd \in Fd : ExecFails(c, fd)
             \/ \E c \in Ctx : Msleep(c) \/ ImportMq(c) \/ End(c)
             \/ \E fd \in Fd : Fire(fd) \/ HandlerAborts(fd)
             \/ \E fd \in Fd : \E chain \in Chains(fd) : ReadAborts(fd, chain)
             \/ \E c \in Ctx : TimerFires(c) \/ Wakes(c) \/ WakeAborts(c)
      PROVE  Data'
  <2>1. UNCHANGED <<options, tree, seVars, childVars>>
    BY <1>9 DEF ExecFails, Msleep, ImportMq, End, Fire, HandlerAborts,
                ReadAborts, TimerFires, Wakes, WakeAborts, Abort
  <2> QED  BY <2>1, DataSame
<1> QED
  BY <1>1, <1>2, <1>3, <1>4, <1>5, <1>7, <1>8, <1>9, NextCases

(* Every step that suspends a coroutine clears its result.                 *)
LEMMA UnansweredStep ==
  ASSUME TypeOK, Records, Unanswered, Next
  PROVE  Unanswered'
<1> USE DEF Unanswered
<1>1. ASSUME NEW c \in Ctx, NEW fd \in Fd, NEW bufsize \in Bufsizes,
             NEW q \in BOOLEAN, Exec(c, fd, bufsize, q)
      PROVE  Unanswered'
  BY <1>1 DEF TypeOK, Exec
<1>2. ASSUME NEW c \in Ctx, NEW fd \in Fd, ExecFails(c, fd)
      PROVE  Unanswered'
  BY <1>2 DEF TypeOK, ExecFails
<1>3. ASSUME NEW c \in Ctx, Msleep(c) \/ ImportMq(c) \/ End(c)
      PROVE  Unanswered'
  BY <1>3 DEF TypeOK, Msleep, ImportMq, End
<1>4. ASSUME NEW k \in Ctx, NEW c \in Ctx, Kill(k, c)
      PROVE  Unanswered'
  BY <1>4 DEF TypeOK, Kill
<1>5. ASSUME NEW fd \in Fd, NEW value, ExecEnds(fd, value), fd \in tree
      PROVE  Unanswered'
  BY <1>5, OwnerWaits DEF TypeOK, ExecEnds
<1>6. ASSUME NEW fd \in Fd, NEW chain \in Chains(fd), NEW s,
             ReadClosed(fd, chain, s)
      PROVE  Unanswered'
  BY <1>5, <1>6 DEF ReadClosed, Received
<1>7. ASSUME NEW fd \in Fd, ReadErrs(fd)
      PROVE  Unanswered'
  BY <1>5, <1>7 DEF ReadErrs, Received
<1>8. ASSUME \/ \E fd \in Fd : ChildWrites(fd) \/ ChildCloses(fd) \/ Fire(fd)
             \/ \E fd \in Fd : \E chain \in Chains(fd) :
                  (\E s : ReadData(fd, chain, s)) \/ ReadAborts(fd, chain)
             \/ \E fd \in Fd : HandlerAborts(fd)
             \/ \E c \in Ctx : TimerFires(c) \/ WakeAborts(c)
      PROVE  Unanswered'
  <2>1. UNCHANGED <<status, result>>
    BY <1>8 DEF ChildWrites, ChildCloses, Fire, ReadData, ReadAborts,
                HandlerAborts, TimerFires, WakeAborts, Abort
  <2> QED  BY <2>1
<1>9. ASSUME NEW c \in Ctx, Wakes(c)
      PROVE  Unanswered'
  BY <1>9 DEF TypeOK, Wakes
<1> QED
  BY <1>1, <1>2, <1>3, <1>4, <1>6, <1>7, <1>8, <1>9, NextCases

-----------------------------------------------------------------------------
(* The theorems.                                                           *)

(* ExecInv holds at first.                                                 *)
LEMMA ExecInvInit == Init => ExecInv
<1> SUFFICES ASSUME Init PROVE ExecInv  OBVIOUS
<1>1. << >> \in Seq(Nat)  OBVIOUS
<1>2. TypeOK  BY <1>1, Zenon DEF Init, TypeOK
<1>3. Records
  BY ConstAssumption DEF Init, Records, RecordsAgree, Waiting, CalledIsWaited,
                         HandlersFindRecord, NoStrayChild
<1>4. Data  BY DEF Init, Data, Cleared, Behind, OutputIsPrefix, QueueGetsAll
<1>5. Unanswered  BY DEF Init, Unanswered
<1> QED  BY <1>2, <1>3, <1>4, <1>5 DEF ExecInv

(* Every step keeps it.                                                    *)
LEMMA ExecInvNext == ExecInv /\ [Next]_vars => ExecInv'
<1> SUFFICES ASSUME ExecInv, [Next]_vars PROVE ExecInv'  OBVIOUS
<1>1. CASE Next  BY <1>1, TypesStep, RecordsStep, DataStep,
               UnansweredStep DEF ExecInv
<1>2. CASE UNCHANGED vars
  <2>1. TypeOK'
    BY <1>2 DEF vars, options, seVars, childVars, ExecInv, TypeOK
  <2>2. Records /\ Data /\ Unanswered  BY DEF ExecInv
  <2>3. UNCHANGED <<options, mqSet, status, cse, timer, tree, armed, seVars,
                    childVars, pending, fired, result, stray, fault>>
    BY <1>2 DEF vars
  <2>4. Records'  BY <2>2, <2>3, RecordsSame DEF seVars
  <2>5. Data'  BY <2>2, <2>3, DataSame
  <2>6. Unanswered'  BY <2>2, <2>3 DEF Unanswered
  <2> QED  BY <2>1, <2>4, <2>5, <2>6 DEF ExecInv
<1> QED  BY <1>1, <1>2

(* The inductive invariant: types, the four places that know of a child,   *)
(* and the data of its output.                                             *)
THEOREM ExecInvariant == Spec => []ExecInv
BY ExecInvInit, ExecInvNext, PTL DEF Spec

(* The variables of exec and msleep keep their types.                      *)
THEOREM TypeCorrect == Spec => []TypeOK
<1>1. ExecInv => TypeOK  BY DEF ExecInv
<1> QED  BY <1>1, ExecInvariant, PTL

(* A coroutine, se->ctx, the tree and the event loop agree about every     *)
(* child, and a coroutine that runs waits for nothing.                     *)
THEOREM RecordsCorrect == Spec => []RecordsAgree
<1>1. ExecInv => RecordsAgree  BY DEF ExecInv, Records
<1> QED  BY <1>1, ExecInvariant, PTL

(* With one thread no handler of a child or a timer finds its record       *)
(* freed.                                                                  *)
THEOREM HandlersCorrect == Spec => []HandlersFindRecord
<1>1. ExecInv => HandlersFindRecord  BY DEF ExecInv, Records
<1> QED  BY <1>1, ExecInvariant, PTL

(* With memory, a child whose output is open has a coroutine that waits    *)
(* for it, or was sent SIGTERM.                                            *)
THEOREM NoStrayCorrect == Spec => []NoStrayChild
<1>1. ExecInv => NoStrayChild  BY DEF ExecInv, Records
<1> QED  BY <1>1, ExecInvariant, PTL

(* Every child is known to its coroutine, to the tree and to the event     *)
(* loop alike, none runs on without them, and no handler misses its record.*)
THEOREM ChildrenCorrect == Spec => []ChildrenKept
<1>1. RecordsAgree /\ NoStrayChild /\ HandlersFindRecord => ChildrenKept
  BY DEF ChildrenKept
<1> QED  BY <1>1, RecordsCorrect, NoStrayCorrect, HandlersCorrect, PTL

(* exec keeps the first bytes of the output, up to the limit, whatever     *)
(* the buffers they come in.                                               *)
THEOREM OutputCorrect == Spec => []OutputIsPrefix
<1>1. ExecInv => OutputIsPrefix  BY DEF ExecInv, Data
<1> QED  BY <1>1, ExecInvariant, PTL

(* The queue gets the whole output.                                        *)
THEOREM QueueCorrect == Spec => []QueueGetsAll
<1>1. ExecInv => QueueGetsAll  BY DEF ExecInv, Data
<1> QED  BY <1>1, ExecInvariant, PTL

(* exec returns the first bytes of all that its child wrote.               *)
THEOREM ReturnsCorrect == Spec => ReturnsOutput
<1>1. ASSUME ExecInv, Next, NEW fd \in tree, tree' = tree \ {fd},
             status'[user[fd]] = "run"
      PROVE  \/ result'[user[fd]] = Bytes(0, Limited(limit[fd], written[fd]))
             \/ lowmem /\ result'[user[fd]] = NoOutput
  <2>1. TypeOK /\ Records /\ Data /\ Unanswered  BY <1>1 DEF ExecInv
  <2>2. /\ fd \in Fd /\ user[fd] \in Ctx /\ cse[user[fd]] = fd
        /\ result[user[fd]] = NoOutput
    BY <2>1, OwnerWaits DEF Unanswered
  <2>3. fd \notin tree'  BY <1>1
  <2>4. ASSUME NEW k \in Ctx, NEW c \in Ctx, Kill(k, c)
        PROVE  FALSE
    <3>1. tree' = tree \/ tree' = tree \ {cse[c]}
      BY <2>4 DEF Kill, OwnChild, Free
    <3>2. fd = cse[c]  BY <2>3, <3>1
    <3>3. cse[c] # NoFd  BY <2>2, <3>2, ConstAssumption
    <3>4. user[fd] = c  BY <2>1, <3>2, <3>3 DEF Records, RecordsAgree
    <3>5. status'[c] = "end"  BY <2>1, <2>4 DEF Kill, TypeOK
    <3> QED  BY <1>1, <3>4, <3>5
  <2>5. ASSUME NEW f \in Fd, NEW value, ExecEnds(f, value)
        PROVE  f = fd /\ result'[user[fd]] = value
    <3>1. f = fd  BY <2>3, <2>5 DEF ExecEnds, Free
    <3> QED  BY <2>1, <2>2, <2>5, <3>1 DEF ExecEnds, TypeOK
  <2>6. ASSUME NEW f \in Fd, NEW chain \in Chains(f), NEW s,
               ReadClosed(f, chain, s)
        PROVE  \/ result'[user[fd]] = Bytes(0, Limited(limit[fd], written[fd]))
               \/ lowmem /\ result'[user[fd]] = NoOutput
    <3>1. f \in tree /\ StopsAt(f, chain, s)
      BY <2>6 DEF ReadClosed, Received
    <3>2. Output(f, chain, s) = Bytes(0, Limited(limit[f], written[f]))
      BY <2>1, <3>1, ChainIsKept DEF Output
    <3>3. CASE ExecEnds(f, Output(f, chain, s))  BY <2>5, <3>2, <3>3
    <3>4. CASE lowmem /\ ExecEnds(f, result[user[f]])  BY <2>2, <2>5, <3>4
    <3> QED  BY <2>6, <3>3, <3>4 DEF ReadClosed
  <2>7. ASSUME NEW f \in Fd, ReadErrs(f)
        PROVE  lowmem /\ result'[user[fd]] = NoOutput
    BY <2>2, <2>5, <2>7 DEF ReadErrs
  <2>8. ASSUME \/ \E c \in Ctx, f \in Fd, b \in Bufsizes, q \in BOOLEAN :
                    Exec(c, f, b, q)
               \/ \E c \in Ctx, f \in Fd : ExecFails(c, f)
               \/ \E c \in Ctx : Msleep(c) \/ ImportMq(c) \/ End(c)
               \/ \E f \in Fd : ChildWrites(f) \/ ChildCloses(f) \/ Fire(f)
               \/ \E f \in Fd : \E chain \in Chains(f) :
                    (\E s : ReadData(f, chain, s)) \/ ReadAborts(f, chain)
               \/ \E f \in Fd : HandlerAborts(f)
               \/ \E c \in Ctx : TimerFires(c) \/ Wakes(c) \/ WakeAborts(c)
        PROVE  FALSE
    <3>1. tree \subseteq tree'
      BY <2>8 DEF Exec, ExecFails, Msleep, ImportMq, End, ChildWrites,
                  ChildCloses, Fire, ReadData, ReadAborts, HandlerAborts,
                  TimerFires, Wakes, WakeAborts, Abort
    <3> QED  BY <2>3, <3>1
  <2> QED  BY <1>1, <2>4, <2>6, <2>7, <2>8, NextCases
<1>2. ExecInv /\ [Next]_vars => [Returned]_vars
  <2>1. ExecInv /\ Next => Returned  BY <1>1 DEF Returned
  <2> QED  BY <2>1
<1> QED  BY <1>2, ExecInvariant, PTL DEF Spec, ReturnsOutput

=============================================================================
