------------------------- MODULE RequestPathProofs -------------------------
(***************************************************************************)
(* Responses stay in step with requests, and nobody blocks for ever, for   *)
(* every number of workers and requests and all sizes that satisfy the     *)
(* assumption of RequestPath.  The argument follows the bytes of the       *)
(* current request through the four places where they can be.              *)
(***************************************************************************)
EXTENDS RequestPath, LoadGeneratorProofs, SequenceTheorems

-----------------------------------------------------------------------------
(* The four places, as values: response, down, the buffer from t on, up.   *)

\* s holds the bytes that come after byte number k.
Follows(s, k) == \A i \in 1 .. Len(s) : s[i] = k + i

\* One behind the other they hold the bytes from base on, up to the last one sent.
InStep(r, d, b, t, u, base, last) ==
  /\ Follows(r, base)
  /\ Follows(d, base + Len(r))
  /\ \A i \in 1 .. Len(b) - t : b[t + i] = base + Len(r) + Len(d) + i
  /\ Follows(u, base + Len(r) + Len(d) + (Len(b) - t))
  /\ last = base + Len(r) + Len(d) + (Len(b) - t) + Len(u)

\* The first n elements of s, and the others.
LEMMA Pieces ==
  ASSUME NEW s \in Seq(Nat), NEW n \in 0 .. Len(s)
  PROVE  /\ SubSeq(s, 1, n) \in Seq(Nat) /\ Len(SubSeq(s, 1, n)) = n
         /\ \A i \in 1 .. n : SubSeq(s, 1, n)[i] = s[i]
         /\ SubSeq(s, n + 1, Len(s)) \in Seq(Nat) /\ Len(SubSeq(s, n + 1, Len(s))) = Len(s) - n
         /\ \A i \in 1 .. Len(s) - n : SubSeq(s, n + 1, Len(s))[i] = s[n + i]
<1>1. Len(s) \in Nat /\ n \in Nat /\ \A i \in 1 .. Len(s) : s[i] \in Nat
  BY LenProperties
<1>2. /\ SubSeq(s, 1, n) \in Seq(Nat)
      /\ Len(SubSeq(s, 1, n)) = IF 1 <= n THEN n - 1 + 1 ELSE 0
      /\ \A i \in 1 .. n - 1 + 1 : SubSeq(s, 1, n)[i] = s[1 + i - 1]
  <2>1. \A i \in 1 .. n : s[i] \in Nat BY <1>1
  <2> QED BY <1>1, <2>1, SubSeqProperties
<1>3. /\ SubSeq(s, n + 1, Len(s)) \in Seq(Nat)
      /\ Len(SubSeq(s, n + 1, Len(s))) = IF n + 1 <= Len(s) THEN Len(s) - (n + 1) + 1 ELSE 0
      /\ \A i \in 1 .. Len(s) - (n + 1) + 1 :
           SubSeq(s, n + 1, Len(s))[i] = s[n + 1 + i - 1]
  <2>1. \A i \in n + 1 .. Len(s) : s[i] \in Nat BY <1>1
  <2> QED BY <1>1, <2>1, SubSeqProperties
<1>4. ASSUME NEW i \in 1 .. Len(s) - n PROVE SubSeq(s, n + 1, Len(s))[i] = s[n + i]
  <2>1. i \in 1 .. Len(s) - (n + 1) + 1 /\ n + 1 + i - 1 = n + i BY <1>1
  <2> QED BY <1>3, <2>1
<1> QED BY <1>1, <1>2, <1>3, <1>4

\* The beginning of s is followed by the rest of s.
LEMMA Split ==
  ASSUME NEW s \in Seq(Nat), NEW k \in Nat, Follows(s, k), NEW n \in 0 .. Len(s)
  PROVE  Follows(SubSeq(s, 1, n), k) /\ Follows(SubSeq(s, n + 1, Len(s)), k + n)
<1>1. Len(s) \in Nat /\ n \in Nat BY LenProperties
<1>2. Follows(SubSeq(s, 1, n), k) BY <1>1, Pieces DEF Follows
<1>3. ASSUME NEW i \in 1 .. Len(s) - n PROVE SubSeq(s, n + 1, Len(s))[i] = k + n + i
  <2>1. n + i \in 1 .. Len(s) BY <1>1
  <2> QED BY <1>1, <2>1, Pieces DEF Follows
<1> QED BY <1>2, <1>3, Pieces DEF Follows

\* Two pieces that follow each other make one.
LEMMA Join ==
  ASSUME NEW s \in Seq(Nat), NEW t \in Seq(Nat), NEW k \in Nat,
         Follows(s, k), Follows(t, k + Len(s))
  PROVE  s \o t \in Seq(Nat) /\ Len(s \o t) = Len(s) + Len(t) /\ Follows(s \o t, k)
<1>1. Len(s) \in Nat /\ Len(t) \in Nat BY LenProperties
<1>2. /\ s \o t \in Seq(Nat) /\ Len(s \o t) = Len(s) + Len(t)
      /\ \A i \in 1 .. Len(s) + Len(t) :
           (s \o t)[i] = IF i <= Len(s) THEN s[i] ELSE t[i - Len(s)]
  BY ConcatProperties
<1>3. Follows(s \o t, k)
  <2> SUFFICES ASSUME NEW i \in 1 .. Len(s) + Len(t) PROVE (s \o t)[i] = k + i
    BY <1>2 DEF Follows
  <2>1. CASE i <= Len(s) BY <1>1, <1>2, <2>1 DEF Follows
  <2>2. CASE ~(i <= Len(s))
    <3>1. i - Len(s) \in 1 .. Len(t) BY <1>1, <2>2
    <3>2. t[i - Len(s)] = k + Len(s) + (i - Len(s)) BY <3>1 DEF Follows
    <3> QED BY <1>1, <1>2, <2>2, <3>2
  <2> QED BY <2>1, <2>2
<1> QED BY <1>2, <1>3

\* The worker sends n more bytes.
LEMMA SendMove ==
  ASSUME NEW r \in Seq(Nat), NEW d \in Seq(Nat), NEW b \in Seq(Nat), NEW t \in Nat,
         t <= Len(b), NEW u \in Seq(Nat), NEW base \in Nat, NEW last \in Nat, NEW n \in Nat,
         InStep(r, d, b, t, u, base, last)
  PROVE  /\ u \o [i \in 1 .. n |-> last + i] \in Seq(Nat)
         /\ InStep(r, d, b, t, u \o [i \in 1 .. n |-> last + i], base, last + n)
<1> DEFINE new == [i \in 1 .. n |-> last + i]
           k   == base + Len(r) + Len(d) + (Len(b) - t)
<1>1. Len(r) \in Nat /\ Len(d) \in Nat /\ Len(b) \in Nat /\ Len(u) \in Nat /\ k \in Nat
  BY LenProperties
<1>2. new \in Seq(Nat) /\ Len(new) = n /\ Follows(new, last)
  BY DEF Follows
<1>3. Follows(u, k) /\ last = k + Len(u) BY DEF InStep
<1> HIDE DEF new, k
<1>4. u \o new \in Seq(Nat) /\ Len(u \o new) = Len(u) + n /\ Follows(u \o new, k)
  BY <1>1, <1>2, <1>3, Join
<1>5. InStep(r, d, b, t, u \o new, base, last + n)
  BY <1>1, <1>3, <1>4 DEF InStep, k
<1> QED BY <1>4, <1>5 DEF new

\* The backend takes n bytes into its buffer, which it has sent before.
LEMMA TakeMove ==
  ASSUME NEW r \in Seq(Nat), NEW d \in Seq(Nat), NEW b \in Seq(Nat), NEW u \in Seq(Nat),
         NEW base \in Nat, NEW last \in Nat, NEW n \in 0 .. Len(u),
         InStep(r, d, b, Len(b), u, base, last)
  PROVE  InStep(r, d, SubSeq(u, 1, n), 0, SubSeq(u, n + 1, Len(u)), base, last)
<1> DEFINE k == base + Len(r) + Len(d)
           front == SubSeq(u, 1, n)
           back  == SubSeq(u, n + 1, Len(u))
<1>1. Len(r) \in Nat /\ Len(d) \in Nat /\ Len(b) \in Nat /\ Len(u) \in Nat /\ k \in Nat
  BY LenProperties
<1>2. Follows(u, k) /\ last = k + Len(u) BY <1>1 DEF InStep
<1> HIDE DEF k
<1>3. Len(front) = n /\ Len(back) = Len(u) - n /\ Follows(front, k) /\ Follows(back, k + n)
  BY <1>1, <1>2, Pieces, Split
<1> HIDE DEF front, back
<1>4. /\ Follows(r, base) /\ Follows(d, base + Len(r)) BY DEF InStep
<1>5. \A i \in 1 .. Len(front) - 0 : front[0 + i] = k + i BY <1>1, <1>3 DEF Follows
<1>6. Follows(back, k + (Len(front) - 0)) BY <1>1, <1>3
<1>7. last = k + (Len(front) - 0) + Len(back) BY <1>1, <1>2, <1>3
<1>8. InStep(r, d, front, 0, back, base, last) BY <1>4, <1>5, <1>6, <1>7 DEF InStep, k
<1> QED BY <1>8 DEF front, back

\* The backend sends n bytes of what it has left.
LEMMA EchoMove ==
  ASSUME NEW r \in Seq(Nat), NEW d \in Seq(Nat), NEW b \in Seq(Nat), NEW t \in Nat,
         NEW u \in Seq(Nat), NEW base \in Nat, NEW last \in Nat,
         NEW n \in Nat, t + n <= Len(b),
         InStep(r, d, b, t, u, base, last)
  PROVE  /\ d \o SubSeq(b, t + 1, t + n) \in Seq(Nat)
         /\ InStep(r, d \o SubSeq(b, t + 1, t + n), b, t + n, u, base, last)
<1> DEFINE k    == base + Len(r)
           part == SubSeq(b, t + 1, t + n)
<1>1. /\ Len(r) \in Nat /\ Len(d) \in Nat /\ Len(b) \in Nat /\ Len(u) \in Nat /\ k \in Nat
      /\ \A i \in 1 .. Len(b) : b[i] \in Nat
  BY LenProperties, SMTT(30)
<1>2. /\ part \in Seq(Nat) /\ Len(part) = n
      /\ \A i \in 1 .. n : part[i] = b[t + i]
  <2>1. \A i \in t + 1 .. t + n : b[i] \in Nat BY <1>1
  <2>2. /\ part \in Seq(Nat) /\ Len(part) = IF t + 1 <= t + n THEN (t + n) - (t + 1) + 1 ELSE 0
        /\ \A i \in 1 .. (t + n) - (t + 1) + 1 : part[i] = b[t + 1 + i - 1]
    BY <2>1, SubSeqProperties
  <2> QED BY <2>2
<1> HIDE DEF part
<1>3. /\ Follows(r, base) /\ Follows(d, k)
      /\ \A i \in 1 .. Len(b) - t : b[t + i] = k + Len(d) + i
      /\ Follows(u, k + Len(d) + (Len(b) - t))
      /\ last = k + Len(d) + (Len(b) - t) + Len(u)
  BY DEF InStep
<1> HIDE DEF k
<1>4. Follows(part, k + Len(d))
  <2>1. ASSUME NEW i \in 1 .. n PROVE part[i] = k + Len(d) + i
    <3>1. i \in 1 .. Len(b) - t BY <1>1
    <3> QED BY <1>2, <1>3, <3>1
  <2> QED BY <1>2, <2>1 DEF Follows
<1>5. d \o part \in Seq(Nat) /\ Len(d \o part) = Len(d) + n /\ Follows(d \o part, k)
  BY <1>1, <1>2, <1>3, <1>4, Join
<1>6. ASSUME NEW i \in 1 .. Len(b) - (t + n) PROVE b[t + n + i] = k + Len(d \o part) + i
  <2>1. n + i \in 1 .. Len(b) - t BY <1>1
  <2>2. b[t + (n + i)] = k + Len(d) + (n + i) BY <1>3, <2>1
  <2> QED BY <1>1, <1>5, <2>2
<1>7. /\ k + Len(d \o part) + (Len(b) - (t + n)) = k + Len(d) + (Len(b) - t)
  BY <1>1, <1>5
<1>8. InStep(r, d \o part, b, t + n, u, base, last)
  BY <1>3, <1>5, <1>6, <1>7 DEF InStep, k
<1> QED BY <1>5, <1>8 DEF part

\* The worker receives n bytes.
LEMMA ReceiveMove ==
  ASSUME NEW r \in Seq(Nat), NEW d \in Seq(Nat), NEW b \in Seq(Nat), NEW t \in Nat,
         t <= Len(b), NEW u \in Seq(Nat), NEW base \in Nat, NEW last \in Nat,
         NEW n \in 0 .. Len(d),
         InStep(r, d, b, t, u, base, last)
  PROVE  /\ r \o SubSeq(d, 1, n) \in Seq(Nat) /\ Len(r \o SubSeq(d, 1, n)) = Len(r) + n
         /\ SubSeq(d, n + 1, Len(d)) \in Seq(Nat)
         /\ InStep(r \o SubSeq(d, 1, n), SubSeq(d, n + 1, Len(d)), b, t, u, base, last)
<1> DEFINE front == SubSeq(d, 1, n)
           back  == SubSeq(d, n + 1, Len(d))
<1>1. Len(r) \in Nat /\ Len(d) \in Nat /\ Len(b) \in Nat /\ Len(u) \in Nat
  BY LenProperties
<1>2. Follows(r, base) /\ Follows(d, base + Len(r)) BY DEF InStep
<1>3. /\ front \in Seq(Nat) /\ Len(front) = n /\ back \in Seq(Nat) /\ Len(back) = Len(d) - n
      /\ Follows(front, base + Len(r)) /\ Follows(back, base + Len(r) + n)
  <2>1. base + Len(r) \in Nat BY <1>1
  <2> QED BY <1>2, <2>1, Pieces, Split
<1> HIDE DEF front, back
<1>4. r \o front \in Seq(Nat) /\ Len(r \o front) = Len(r) + n /\ Follows(r \o front, base)
  BY <1>2, <1>3, Join
<1>5. /\ base + Len(r \o front) = base + Len(r) + n
      /\ base + Len(r \o front) + Len(back) = base + Len(r) + Len(d)
  BY <1>1, <1>3, <1>4
<1>6. InStep(r \o front, back, b, t, u, base, last)
  BY <1>3, <1>4, <1>5 DEF InStep
<1> QED BY <1>3, <1>4, <1>6 DEF front, back

\* A complete response is put aside, and the next request begins behind it.
LEMMA NextRequestMove ==
  ASSUME NEW r \in Seq(Nat), NEW d \in Seq(Nat), NEW b \in Seq(Nat), NEW t \in Nat,
         t <= Len(b), NEW u \in Seq(Nat), NEW base \in Nat, NEW last \in Nat,
         InStep(r, d, b, t, u, base, last)
  PROVE  InStep(<<>>, d, b, t, u, base + Len(r), last)
<1>1. Len(r) \in Nat /\ Len(d) \in Nat /\ Len(b) \in Nat /\ Len(u) \in Nat
  BY LenProperties
<1>2. Len(<<>>) = 0 /\ Follows(<<>>, base + Len(r))
  BY EmptySeq DEF Follows
<1> QED BY <1>1, <1>2 DEF InStep

-----------------------------------------------------------------------------
(* The invariant.                                                          *)

PathTypeOK ==
  /\ sent \in [Workers -> Nat]
  /\ response \in [Workers -> Seq(Nat)]
  /\ up \in [Workers -> Seq(Nat)] /\ down \in [Workers -> Seq(Nat)]
  /\ cut \subseteq Workers
  /\ alive \in BOOLEAN
  /\ thread \in [Workers -> {"none", "recv", "send", "over"}]
  /\ buffer \in [Workers -> Seq(Nat)]
  /\ total_sent \in [Workers -> Nat]

\* The worker's requests go on, on a connection that stands.
Live(w) == state[w] # "finished" /\ ~Ended(w)

\* The four places hold what was sent of the current request; between two requests they
\* are empty.
Bytes(w) == InStep(response[w], down[w], buffer[w], total_sent[w], up[w], Base(w), sent[w])
Counted(w) ==
  /\ Len(response[w]) <= MessageLength
  /\ total_sent[w] <= Len(buffer[w])
  /\ thread[w] = "send" => total_sent[w] < Len(buffer[w])
  /\ thread[w] \in {"none", "recv"} => total_sent[w] = Len(buffer[w])
  /\ Live(w) => /\ Bytes(w)
                /\ sent[w] <= Target(w)
                /\ ~InRequest(w) => sent[w] = Base(w)

PInv == LInv /\ PathTypeOK /\ \A w \in Workers : Counted(w)

\* What a worker and its connection are made of.
OwnState(w) == <<state[w], warm[w], completed[w], sent[w], response[w], up[w], down[w],
                 w \in cut, thread[w], buffer[w], total_sent[w]>>

\* Base is a number, and a request moves it on by one message.
LEMMA BaseAdds ==
  ASSUME LInv, NEW w \in Workers
  PROVE  /\ Base(w) \in Nat /\ Target(w) \in Nat
         /\ (warm[w] + 1 + completed[w]) * MessageLength = Target(w)
         /\ (warm[w] + (completed[w] + 1)) * MessageLength = Target(w)
<1>1. warm[w] \in Nat /\ completed[w] \in Nat /\ MessageLength \in Nat
  BY LoadGeneratorAssumption, RequestPathAssumption DEF LInv, TypeOK
<1>2. \A a, b \in Nat : a * b \in Nat /\ (a + 1) * b = a * b + b
  OBVIOUS
<1>3. /\ warm[w] + completed[w] \in Nat
      /\ warm[w] + 1 + completed[w] = (warm[w] + completed[w]) + 1
      /\ warm[w] + (completed[w] + 1) = (warm[w] + completed[w]) + 1
  BY <1>1
<1> QED BY <1>1, <1>2, <1>3 DEF Base, Target

\* A step that leaves a worker and its connection alone leaves its bytes alone.
LEMMA OthersKeep ==
  ASSUME NEW w \in Workers, Counted(w), OwnState(w)' = OwnState(w)
  PROVE  Counted(w)'
BY DEF Counted, OwnState, Live, Ended, InRequest, Bytes, Base, Target

LEMMA InitCounts == PathInit => PInv
<1> SUFFICES ASSUME PathInit PROVE PInv
  OBVIOUS
<1>1. LInv BY InitEstablishes DEF PathInit
<1>2. PathTypeOK BY DEF PathInit, PathTypeOK, Backend!Init
<1>3. ASSUME NEW w \in Workers PROVE Counted(w)
  <2>1. /\ Len(<<>>) = 0 /\ total_sent[w] = 0 /\ sent[w] = 0 /\ buffer[w] = <<>>
        /\ response[w] = <<>> /\ up[w] = <<>> /\ down[w] = <<>>
        /\ thread[w] = "none" /\ warm[w] = 0 /\ completed[w] = 0
    BY EmptySeq DEF PathInit, Init, Backend!Init
  <2>4. 0 <= MessageLength BY RequestPathAssumption
  <2>2. Base(w) = 0 /\ Target(w) \in Nat
    BY <1>1, <2>1, BaseAdds, RequestPathAssumption DEF Base
  <2>3. InStep(<<>>, <<>>, <<>>, 0, <<>>, 0, 0) BY <2>1 DEF InStep, Follows
  <2> QED BY <2>1, <2>2, <2>3, <2>4 DEF Counted, Bytes
<1> QED BY <1>1, <1>2, <1>3 DEF PInv

-----------------------------------------------------------------------------
(* Every step is one of LoadGenerator, or none.                            *)

LEMMA StepsOfSpec == [PathNext]_allVars => [Next]_vars
BY DEF PathNext, allVars, PathWorker, PathMain, SendSome, RecvSome, Answered, RequestFails,
       RaisesSigpipe, BetweenRequests, ProxyEnds, BackendStep, BackendThrows, PathDone,
       Next, Worker, Done

-----------------------------------------------------------------------------
(* One lemma per step of the request path.                                 *)

Kept == PathTypeOK' /\ \A w \in Workers : Counted(w)'

\* What the steps of a worker w start from.
LEMMA Types ==
  ASSUME PInv, NEW w \in Workers
  PROVE  /\ sent[w] \in Nat /\ response[w] \in Seq(Nat) /\ up[w] \in Seq(Nat)
         /\ down[w] \in Seq(Nat) /\ buffer[w] \in Seq(Nat) /\ total_sent[w] \in Nat
         /\ thread[w] \in {"none", "recv", "send", "over"}
         /\ Len(response[w]) \in Nat /\ Len(up[w]) \in Nat /\ Len(down[w]) \in Nat
         /\ Len(buffer[w]) \in Nat
         /\ Base(w) \in Nat /\ Target(w) \in Nat
         /\ total_sent[w] <= Len(buffer[w]) /\ Len(response[w]) <= MessageLength
<1>1. /\ response[w] \in Seq(Nat) /\ up[w] \in Seq(Nat) /\ down[w] \in Seq(Nat)
      /\ buffer[w] \in Seq(Nat)
  BY DEF PInv, PathTypeOK
<1> QED BY <1>1, BaseAdds, LenProperties DEF PInv, PathTypeOK, Counted

LEMMA SendSomeKeeps == ASSUME PInv, NEW w \in Workers, SendSome(w) PROVE Kept
<1>0. PICK n \in Backend!Portion(Target(w) - sent[w], UpCapacity - Len(up[w])) :
        /\ up' = [up EXCEPT ![w] = @ \o [i \in 1 .. n |-> sent[w] + i]]
        /\ sent' = [sent EXCEPT ![w] = @ + n]
  BY DEF SendSome
<1> DEFINE new == up[w] \o [i \in 1 .. n |-> sent[w] + i]
<1>1. /\ InRequest(w) /\ w \notin cut
      /\ up' = [up EXCEPT ![w] = new] /\ sent' = [sent EXCEPT ![w] = @ + n]
      /\ UNCHANGED <<vars, response, down, cut, backendVars>>
  BY <1>0 DEF SendSome
<1>2. n \in Nat /\ sent[w] + n <= Target(w)
  BY Types, SMTT(30) DEF Backend!Portion
<1>3. new \in Seq(Nat)
      /\ (Bytes(w) => InStep(response[w], down[w], buffer[w], total_sent[w], new, Base(w),
                             sent[w] + n))
  <2>1. [i \in 1 .. n |-> sent[w] + i] \in Seq(Nat) BY <1>2, Types
  <2>2. new \in Seq(Nat) BY <2>1, Types, ConcatProperties
  <2> QED BY <1>2, <2>2, Types, SendMove DEF Bytes
<1> HIDE DEF new
<1>4. PathTypeOK'
  BY <1>1, <1>2, <1>3, SMTT(30) DEF PInv, PathTypeOK, backendVars
<1>5. /\ up'[w] = new /\ sent'[w] = sent[w] + n
      /\ \A v \in Workers : v # w => up'[v] = up[v] /\ sent'[v] = sent[v]
  BY <1>1 DEF PInv, PathTypeOK
<1>6. Counted(w)'
  BY <1>1, <1>2, <1>3, <1>5 DEF PInv, Counted, Live, Ended, InRequest, Bytes, Base, Target,
     vars, backendVars
<1>7. ASSUME NEW v \in Workers, v # w PROVE Counted(v)'
  BY <1>1, <1>5, <1>7, OthersKeep DEF PInv, OwnState, vars, backendVars
<1> QED BY <1>4, <1>6, <1>7 DEF Kept

LEMMA RecvSomeKeeps == ASSUME PInv, NEW w \in Workers, RecvSome(w) PROVE Kept
<1>0. PICK n \in Backend!Portion(MessageLength - Len(response[w]), Len(down[w])) :
        /\ response' = [response EXCEPT ![w] = @ \o SubSeq(down[w], 1, n)]
        /\ down' = [down EXCEPT ![w] = SubSeq(@, n + 1, Len(@))]
  BY DEF RecvSome
<1> DEFINE got  == response[w] \o SubSeq(down[w], 1, n)
           rest == SubSeq(down[w], n + 1, Len(down[w]))
<1>1. /\ InRequest(w)
      /\ response' = [response EXCEPT ![w] = got] /\ down' = [down EXCEPT ![w] = rest]
      /\ UNCHANGED <<vars, sent, up, cut, backendVars>>
  BY <1>0 DEF RecvSome
<1>2. n \in 0 .. Len(down[w]) /\ Len(response[w]) + n <= MessageLength
  BY Types, SMTT(30), RequestPathAssumption DEF Backend!Portion
<1>3. /\ got \in Seq(Nat) /\ Len(got) = Len(response[w]) + n /\ rest \in Seq(Nat)
      /\ Bytes(w) => InStep(got, rest, buffer[w], total_sent[w], up[w], Base(w), sent[w])
  <2>1. ASSUME Bytes(w)
        PROVE  InStep(got, rest, buffer[w], total_sent[w], up[w], Base(w), sent[w])
    BY <1>2, <2>1, Types, ReceiveMove DEF Bytes
  <2>2. SubSeq(down[w], 1, n) \in Seq(Nat) /\ Len(SubSeq(down[w], 1, n)) = n
        /\ rest \in Seq(Nat)
    BY <1>2, Types, Pieces
  <2>3. got \in Seq(Nat) /\ Len(got) = Len(response[w]) + n
    BY <2>2, Types, ConcatProperties
  <2> QED BY <2>1, <2>2, <2>3
<1> HIDE DEF got, rest
<1>4. PathTypeOK'
  BY <1>1, <1>3 DEF PInv, PathTypeOK, backendVars
<1>5. /\ response'[w] = got /\ down'[w] = rest
      /\ \A v \in Workers : v # w => response'[v] = response[v] /\ down'[v] = down[v]
  BY <1>1 DEF PInv, PathTypeOK
<1>6. Counted(w)'
  BY <1>1, <1>2, <1>3, <1>5 DEF PInv, Counted, Live, Ended, InRequest, Bytes, Base, Target,
     vars, backendVars
<1>7. ASSUME NEW v \in Workers, v # w PROVE Counted(v)'
  BY <1>1, <1>5, <1>7, OthersKeep DEF PInv, OwnState, vars, backendVars
<1> QED BY <1>4, <1>6, <1>7 DEF Kept

\* The response is complete: the bytes behind it belong to no request yet.
LEMMA AnsweredKeeps == ASSUME PInv, NEW w \in Workers, Answered(w) PROVE Kept
<1>1. /\ InRequest(w) /\ sent[w] = Target(w) /\ Len(response[w]) = MessageLength
      /\ response' = [response EXCEPT ![w] = <<>>]
      /\ UNCHANGED <<sent, up, down, cut, backendVars, state>>
      /\ WarmUp(w) \/ Complete(w)
  BY DEF Answered, ResponseComplete, WarmUp, Complete
<1>2. /\ \/ warm'[w] = warm[w] + 1 /\ completed'[w] = completed[w]
         \/ warm'[w] = warm[w] /\ completed'[w] = completed[w] + 1
      /\ \A v \in Workers : v # w => warm'[v] = warm[v] /\ completed'[v] = completed[v]
  BY <1>1 DEF WarmUp, Complete, PInv, LInv, TypeOK
<1>3. Base(w)' = Target(w) /\ Base(w)' = Base(w) + Len(response[w])
  <2>1. CASE warm'[w] = warm[w] + 1 /\ completed'[w] = completed[w]
    BY <1>1, <2>1, BaseAdds DEF PInv, Base, Target
  <2>2. CASE warm'[w] = warm[w] /\ completed'[w] = completed[w] + 1
    BY <1>1, <2>2, BaseAdds DEF PInv, Base, Target
  <2> QED BY <1>2, <2>1, <2>2
<1>4. PathTypeOK' BY <1>1 DEF PInv, PathTypeOK, backendVars
<1>5. /\ response'[w] = <<>>
      /\ \A v \in Workers : v # w => response'[v] = response[v]
  BY <1>1 DEF PInv, PathTypeOK
<1>6. Bytes(w) => Bytes(w)'
  <2>1. Bytes(w) => InStep(<<>>, down[w], buffer[w], total_sent[w], up[w],
                           Base(w) + Len(response[w]), sent[w])
    BY Types, NextRequestMove DEF Bytes
  <2> QED BY <1>1, <1>3, <1>5, <2>1 DEF Bytes, backendVars
<1>7. Counted(w)'
  <2>1. Target(w)' = Base(w)' + MessageLength BY DEF Target
  <2>2. Base(w)' \in Nat /\ sent'[w] = Base(w)' /\ MessageLength \in Nat /\ Len(<<>>) = 0
    BY <1>1, <1>3, Types, RequestPathAssumption, EmptySeq
  <2>3. sent'[w] <= Target(w)' BY <2>1, <2>2
  <2> QED BY <1>1, <1>5, <1>6, <2>2, <2>3 DEF PInv, Counted, Live, Ended, backendVars
<1>8. ASSUME NEW v \in Workers, v # w PROVE Counted(v)'
  BY <1>1, <1>2, <1>5, <1>8, OthersKeep DEF PInv, OwnState, backendVars
<1> QED BY <1>4, <1>7, <1>8 DEF Kept

\* The steps that only move the worker's thread: out of its run, or between two requests.
LEMMA ThreadMovesKeep ==
  ASSUME PInv, NEW w \in Workers,
         RequestFails(w) \/ RaisesSigpipe(w) \/ BetweenRequests(w)
  PROVE  Kept
<1>1. UNCHANGED <<pathVars, warm, completed>>
  BY DEF RequestFails, RaisesSigpipe, BetweenRequests, FailSetup, FailRequest, Killed, Connect,
     Arrive, Released, Finish, Goto
<1>2. PathTypeOK' BY <1>1 DEF PInv, PathTypeOK, pathVars, backendVars
<1>3. /\ \A v \in Workers : v # w => state'[v] = state[v]
      /\ \/ state'[w] = "finished" \/ state'[w] = state[w]
         \/ state[w] # "finished" /\ ~InRequest(w)
  BY DEF RequestFails, RaisesSigpipe, BetweenRequests, FailSetup, FailRequest, Killed, Connect,
     Arrive, Released, Finish, Goto, InRequest, PInv, LInv, TypeOK
<1>4. ASSUME NEW v \in Workers, v # w \/ state'[w] = state[w] PROVE Counted(v)'
  BY <1>1, <1>3, <1>4, OthersKeep DEF PInv, OwnState, pathVars, backendVars
<1>5. ASSUME state'[w] = "finished" PROVE Counted(w)'
  BY <1>1, <1>5 DEF PInv, Counted, Live, pathVars, backendVars
<1>6. ASSUME state[w] # "finished", ~InRequest(w) PROVE Counted(w)'
  <2>1. Base(w)' = Base(w) /\ Target(w)' = Target(w) BY <1>1 DEF Base, Target
  <2> QED BY <1>1, <1>6, <2>1 DEF PInv, Counted, Live, Ended, Bytes, pathVars, backendVars
<1> QED BY <1>2, <1>3, <1>4, <1>5, <1>6 DEF Kept

LEMMA MainKeepsBytes == ASSUME PInv, PathMain PROVE Kept
<1>1. UNCHANGED <<pathVars, state, warm, completed>>
  BY DEF PathMain, Main, MainArrives, MainReleased, Report
<1>2. PathTypeOK' BY <1>1 DEF PInv, PathTypeOK, pathVars, backendVars
<1>3. ASSUME NEW v \in Workers PROVE Counted(v)'
  BY <1>1, OthersKeep DEF PInv, OwnState, pathVars, backendVars
<1> QED BY <1>2, <1>3 DEF Kept

LEMMA ProxyEndsKeeps == ASSUME PInv, NEW w \in Workers, ProxyEnds(w) PROVE Kept
<1>1. /\ cut' = cut \cup {w}
      /\ up' = [up EXCEPT ![w] = <<>>] /\ down' = [down EXCEPT ![w] = <<>>]
      /\ UNCHANGED <<vars, sent, response, backendVars>>
  BY DEF ProxyEnds
<1>2. PathTypeOK' BY <1>1 DEF PInv, PathTypeOK, backendVars
<1>3. \A v \in Workers : v # w => up'[v] = up[v] /\ down'[v] = down[v] /\ (v \in cut' <=> v \in cut)
  BY <1>1 DEF PInv, PathTypeOK
<1>4. Counted(w)' BY <1>1 DEF PInv, Counted, Live, Ended, vars, backendVars
<1>5. ASSUME NEW v \in Workers, v # w PROVE Counted(v)'
  BY <1>1, <1>3, <1>5, OthersKeep DEF PInv, OwnState, vars, backendVars
<1> QED BY <1>2, <1>4, <1>5 DEF Kept

\* The backend's threads begin and end.
LEMMA ThreadsKeep ==
  ASSUME PInv, UNCHANGED <<vars, sent, response, cut, buffer, total_sent, up, down>>,
         alive' \in BOOLEAN, thread' \in [Workers -> {"none", "recv", "send", "over"}],
         \A v \in Workers : \/ thread'[v] \in {thread[v], "over"}
                            \/ thread[v] = "none" /\ thread'[v] = "recv"
  PROVE  Kept
<1>1. PathTypeOK' BY DEF PInv, PathTypeOK
<1>2. ASSUME NEW v \in Workers PROVE Counted(v)'
  BY DEF PInv, Counted, Live, Ended, InRequest, Bytes, Base, Target, vars
<1> QED BY <1>1, <1>2 DEF Kept

LEMMA TakesKeep ==
  ASSUME PInv, NEW w \in Workers, Backend!Recv(w), UNCHANGED <<vars, sent, response, cut>>
  PROVE  Kept
<1>0. PICK n \in Backend!Portion(BufferSize, Len(up[w])) :
        /\ up' = [up EXCEPT ![w] = SubSeq(@, n + 1, Len(@))]
        /\ buffer' = [buffer EXCEPT ![w] = SubSeq(up[w], 1, n)]
  BY DEF Backend!Recv
<1> DEFINE got  == SubSeq(up[w], 1, n)
           rest == SubSeq(up[w], n + 1, Len(up[w]))
<1>1. /\ thread[w] = "recv"
      /\ up' = [up EXCEPT ![w] = rest] /\ buffer' = [buffer EXCEPT ![w] = got]
      /\ total_sent' = [total_sent EXCEPT ![w] = 0]
      /\ thread' = [thread EXCEPT ![w] = "send"]
      /\ UNCHANGED <<alive, down>>
  BY <1>0 DEF Backend!Recv, Backend!Goto
<1>2. n \in 1 .. Len(up[w])
  BY Types, RequestPathAssumption DEF Backend!Portion
<1>3. /\ got \in Seq(Nat) /\ Len(got) = n /\ rest \in Seq(Nat)
      /\ Bytes(w) => InStep(response[w], down[w], got, 0, rest, Base(w), sent[w])
  <2>1. total_sent[w] = Len(buffer[w]) BY <1>1 DEF PInv, Counted
  <2>2. ASSUME Bytes(w) PROVE InStep(response[w], down[w], got, 0, rest, Base(w), sent[w])
    <3>1. InStep(response[w], down[w], buffer[w], Len(buffer[w]), up[w], Base(w), sent[w])
      BY <2>1, <2>2 DEF Bytes
    <3>2. n \in 0 .. Len(up[w]) BY <1>2, Types
    <3> QED BY <3>1, <3>2, Types, TakeMove
  <2> QED BY <1>2, <2>2, Types, SMTT(30), Pieces
<1> HIDE DEF got, rest
<1>4. PathTypeOK' BY <1>1, <1>3 DEF PInv, PathTypeOK
<1>5. /\ up'[w] = rest /\ buffer'[w] = got /\ total_sent'[w] = 0 /\ thread'[w] = "send"
      /\ \A v \in Workers : v # w => /\ up'[v] = up[v] /\ buffer'[v] = buffer[v]
                                    /\ total_sent'[v] = total_sent[v] /\ thread'[v] = thread[v]
  BY <1>1 DEF PInv, PathTypeOK
<1>6. Counted(w)'
  BY <1>1, <1>2, <1>3, <1>5, SMTT(30) DEF PInv, Counted, Live, Ended, InRequest, Bytes, Base, Target, vars
<1>7. ASSUME NEW v \in Workers, v # w PROVE Counted(v)'
  BY <1>1, <1>5, <1>7, OthersKeep DEF PInv, OwnState, vars
<1> QED BY <1>4, <1>6, <1>7 DEF Kept

LEMMA EchoesKeep ==
  ASSUME PInv, NEW w \in Workers, Backend!Send(w), UNCHANGED <<vars, sent, response, cut>>
  PROVE  Kept
<1>0. PICK n \in Backend!Portion(Backend!Unsent(w), DownCapacity - Len(down[w])) :
        /\ down' = [down EXCEPT
             ![w] = @ \o SubSeq(buffer[w], total_sent[w] + 1, total_sent[w] + n)]
        /\ total_sent' = [total_sent EXCEPT ![w] = @ + n]
        /\ Backend!Goto(w, Backend!AfterSend(w, n))
  BY DEF Backend!Send
<1> DEFINE new == down[w] \o SubSeq(buffer[w], total_sent[w] + 1, total_sent[w] + n)
           go  == IF n = Backend!Unsent(w) THEN "recv" ELSE "send"
<1>1. /\ thread[w] = "send"
      /\ down' = [down EXCEPT ![w] = new]
      /\ total_sent' = [total_sent EXCEPT ![w] = @ + n]
      /\ thread' = [thread EXCEPT ![w] = go]
      /\ UNCHANGED <<alive, buffer, up>>
  BY <1>0 DEF Backend!Send, Backend!Goto, Backend!AfterSend
<1>2. /\ n \in Nat /\ total_sent[w] + n <= Len(buffer[w])
      /\ go = (IF total_sent[w] + n = Len(buffer[w]) THEN "recv" ELSE "send")
  BY Types, SMTT(30) DEF Backend!Portion, Backend!Unsent
<1>3. /\ new \in Seq(Nat)
      /\ Bytes(w) => InStep(response[w], new, buffer[w], total_sent[w] + n, up[w], Base(w), sent[w])
  <2>1. \A i \in total_sent[w] + 1 .. total_sent[w] + n : buffer[w][i] \in Nat
    <3>1. \A i \in 1 .. Len(buffer[w]) : buffer[w][i] \in Nat BY Types, ElementOfSeq
    <3> QED BY <1>2, <3>1, Types
  <2>2. SubSeq(buffer[w], total_sent[w] + 1, total_sent[w] + n) \in Seq(Nat)
    BY <1>2, <2>1, Types, SMTT(30), SubSeqProperties
  <2>3. new \in Seq(Nat) BY <2>2, Types, ConcatProperties
  <2>4. ASSUME Bytes(w)
        PROVE  InStep(response[w], new, buffer[w], total_sent[w] + n, up[w], Base(w), sent[w])
    BY <1>2, <2>4, Types, EchoMove DEF Bytes
  <2> QED BY <2>3, <2>4
<1> HIDE DEF new, go
<1>4. go \in {"recv", "send"} BY <1>2
<1>5. PathTypeOK' BY <1>1, <1>2, <1>3, <1>4, SMTT(30) DEF PInv, PathTypeOK
<1>6. /\ down'[w] = new /\ total_sent'[w] = total_sent[w] + n /\ thread'[w] = go
      /\ \A v \in Workers : v # w => /\ down'[v] = down[v] /\ thread'[v] = thread[v]
                                    /\ total_sent'[v] = total_sent[v]
  BY <1>1 DEF PInv, PathTypeOK
<1>7. Counted(w)'
  <2>1. /\ total_sent'[w] <= Len(buffer'[w])
        /\ thread'[w] = "send" => total_sent'[w] < Len(buffer'[w])
        /\ thread'[w] \in {"none", "recv"} => total_sent'[w] = Len(buffer'[w])
    <3>1. buffer'[w] = buffer[w] BY <1>1
    <3>2. total_sent[w] + n < Len(buffer[w]) \/ total_sent[w] + n = Len(buffer[w])
      <4>1. n \in Nat /\ total_sent[w] + n <= Len(buffer[w]) BY <1>2
      <4>2. total_sent[w] \in Nat /\ Len(buffer[w]) \in Nat BY Types
      <4> QED BY <4>1, <4>2
    <3> QED BY <1>2, <1>6, <3>1, <3>2
  <2>2. Live(w)' => Live(w) BY <1>1 DEF Live, Ended, vars
  <2> QED BY <1>1, <1>3, <1>6, <2>1, <2>2
          DEF PInv, Counted, InRequest, Bytes, Base, Target, vars
<1>8. ASSUME NEW v \in Workers, v # w PROVE Counted(v)'
  BY <1>1, <1>6, <1>8, OthersKeep DEF PInv, OwnState, vars
<1> QED BY <1>5, <1>7, <1>8 DEF Kept

LEMMA BackendKeeps ==
  ASSUME PInv, BackendThrows \/ \E w \in Workers : BackendStep(w)
  PROVE  Kept
<1>1. ASSUME UNCHANGED <<vars, sent, response, cut>>, Backend!Dies PROVE Kept
  <2>1. /\ UNCHANGED <<buffer, total_sent, up, down>>
        /\ alive' = FALSE
        /\ thread' = [v \in Workers |-> IF Backend!Serving(v) THEN "over" ELSE thread[v]]
    BY <1>1 DEF Backend!Dies
  <2>2. thread' \in [Workers -> {"none", "recv", "send", "over"}]
    BY <2>1 DEF PInv, PathTypeOK
  <2>3. \A v \in Workers : thread'[v] \in {thread[v], "over"} BY <2>1
  <2> QED BY <1>1, <2>1, <2>2, <2>3, ThreadsKeep
<1>2. CASE BackendThrows BY <1>1, <1>2 DEF BackendThrows, Backend!AcceptThrows
<1>3. ASSUME NEW w \in Workers, BackendStep(w) PROVE Kept
  <2>1. UNCHANGED <<vars, sent, response, cut>> BY <1>3 DEF BackendStep
  <2>2. CASE Backend!Accept(w) \/ Backend!Leave(w)
    <3>1. /\ UNCHANGED <<alive, buffer, total_sent, up, down>>
          /\ \/ thread' = [thread EXCEPT ![w] = "over"]
             \/ thread[w] = "none" /\ thread' = [thread EXCEPT ![w] = "recv"]
      BY <2>2 DEF Backend!Accept, Backend!Leave, Backend!Goto
    <3> QED BY <2>1, <3>1, ThreadsKeep DEF PInv, PathTypeOK
  <2>3. CASE Backend!Recv(w) BY <2>1, <2>3, TakesKeep
  <2>4. CASE Backend!Send(w) BY <2>1, <2>4, EchoesKeep
  <2>5. CASE Backend!SendFails(w)
    BY <1>1, <2>1, <2>2, <2>5 DEF Backend!SendFails
  <2> QED BY <1>3, <2>2, <2>3, <2>4, <2>5 DEF BackendStep
<1> QED BY <1>2, <1>3

-----------------------------------------------------------------------------

LEMMA PathNextKeeps == PInv /\ [PathNext]_allVars => PInv'
<1> SUFFICES ASSUME PInv, [PathNext]_allVars PROVE PInv'
  OBVIOUS
<1>1. LInv' BY StepsOfSpec, NextKeeps DEF PInv
<1>2. ASSUME NEW w \in Workers, PathWorker(w) PROVE Kept
  BY <1>2, SendSomeKeeps, RecvSomeKeeps, AnsweredKeeps, ThreadMovesKeep DEF PathWorker
<1>3. ASSUME PathMain PROVE Kept BY <1>3, MainKeepsBytes
<1>4. ASSUME NEW w \in Workers, ProxyEnds(w) PROVE Kept BY <1>4, ProxyEndsKeeps
<1>5. ASSUME BackendThrows \/ \E w \in Workers : BackendStep(w) PROVE Kept
  BY <1>5, BackendKeeps
<1>6. ASSUME UNCHANGED allVars PROVE Kept
  <2>1. PathTypeOK' BY <1>6 DEF PInv, PathTypeOK, allVars, pathVars, backendVars
  <2>2. ASSUME NEW v \in Workers PROVE Counted(v)'
    BY <1>6, OthersKeep DEF PInv, OwnState, allVars, vars, pathVars, backendVars
  <2> QED BY <2>1, <2>2 DEF Kept
<1>7. Kept BY <1>2, <1>3, <1>4, <1>5, <1>6 DEF PathNext, PathDone
<1> QED BY <1>1, <1>7 DEF PInv, Kept

\* PInv is an invariant of the request path.
THEOREM PathInvariance == PathSpec => []PInv
BY InitCounts, PathNextKeeps, PTL DEF PathSpec

\* Every step of the request path, of the proxy and of the backend is a step of the load
\* generator with atomic requests, or none of its steps.
THEOREM RequestsAreAtomic == PathSpec => Spec
BY StepsOfSpec, PTL DEF PathSpec, PathInit, Spec

\* The order of the four places says which bytes they hold.
LEMMA InStepIsInFlight ==
  ASSUME PInv, NEW w \in Workers, Bytes(w)
  PROVE  InFlight(w) = [i \in 1 .. sent[w] - Base(w) |-> Base(w) + i]
<1> DEFINE r == response[w]  d == down[w]  u == up[w]  base == Base(w)
           b == SubSeq(buffer[w], total_sent[w] + 1, Len(buffer[w]))
<1>1. /\ b \in Seq(Nat) /\ Len(b) = Len(buffer[w]) - total_sent[w]
      /\ \A i \in 1 .. Len(b) : b[i] = buffer[w][total_sent[w] + i]
  <2>1. total_sent[w] \in 0 .. Len(buffer[w]) BY Types
  <2>2. /\ b \in Seq(Nat) /\ Len(b) = Len(buffer[w]) - total_sent[w]
        /\ \A i \in 1 .. Len(buffer[w]) - total_sent[w] : b[i] = buffer[w][total_sent[w] + i]
    BY <2>1, Types, Pieces
  <2> QED BY <2>2
<1>2. /\ r \in Seq(Nat) /\ d \in Seq(Nat) /\ b \in Seq(Nat) /\ u \in Seq(Nat) /\ base \in Nat
      /\ Len(r) \in Nat /\ Len(d) \in Nat /\ Len(u) \in Nat /\ Len(b) \in Nat
  BY <1>1, Types, SMTT(30)
<1>3. /\ Follows(r, base) /\ Follows(d, base + Len(r))
      /\ Follows(b, base + Len(r) + Len(d))
      /\ Follows(u, base + Len(r) + Len(d) + Len(b))
      /\ sent[w] = base + Len(r) + Len(d) + Len(b) + Len(u)
  BY <1>1 DEF Bytes, InStep, Follows
<1> HIDE DEF r, d, u, b, base
<1>4. r \o d \in Seq(Nat) /\ Len(r \o d) = Len(r) + Len(d) /\ Follows(r \o d, base)
  BY <1>2, <1>3, Join
<1>5. /\ (r \o d) \o b \in Seq(Nat) /\ Len((r \o d) \o b) = Len(r) + Len(d) + Len(b)
      /\ Follows((r \o d) \o b, base)
  <2>1. base + Len(r \o d) = base + Len(r) + Len(d) BY <1>2, <1>4
  <2>2. Follows(b, base + Len(r \o d)) BY <1>3, <2>1
  <2>3. /\ (r \o d) \o b \in Seq(Nat) /\ Len((r \o d) \o b) = Len(r \o d) + Len(b)
        /\ Follows((r \o d) \o b, base)
    BY <1>2, <1>4, <2>2, Join
  <2> QED BY <1>4, <2>3
<1>6. /\ ((r \o d) \o b) \o u \in Seq(Nat)
      /\ Len(((r \o d) \o b) \o u) = Len(r) + Len(d) + Len(b) + Len(u)
      /\ Follows(((r \o d) \o b) \o u, base)
  <2>1. base + Len((r \o d) \o b) = base + Len(r) + Len(d) + Len(b) BY <1>2, <1>5
  <2>2. Follows(u, base + Len((r \o d) \o b)) BY <1>3, <2>1
  <2>3. /\ ((r \o d) \o b) \o u \in Seq(Nat)
        /\ Len(((r \o d) \o b) \o u) = Len((r \o d) \o b) + Len(u)
        /\ Follows(((r \o d) \o b) \o u, base)
    BY <1>2, <1>5, <2>2, Join
  <2> QED BY <1>5, <2>3
<1>7. Len(((r \o d) \o b) \o u) = sent[w] - base BY <1>2, <1>3, <1>6
<1>8. \A s \in Seq(Nat) : s = [i \in 1 .. Len(s) |-> s[i]] OBVIOUS
<1>9. ((r \o d) \o b) \o u = [i \in 1 .. sent[w] - base |-> base + i]
  BY <1>6, <1>7, <1>8 DEF Follows
<1> QED BY <1>9 DEF InFlight, r, d, u, b, base

\* While a request is under way on a connection that stands, its bytes are exactly those in
\* the response, on the way back, in the backend's buffer and on the way there, in order.
THEOREM InStepAlways == PathSpec => []ResponsesInStep
<1>1. PInv => ResponsesInStep
  <2> SUFFICES ASSUME PInv, NEW w \in Workers, InRequest(w), ~Ended(w)
               PROVE  InFlight(w) = [i \in 1 .. sent[w] - Base(w) |-> Base(w) + i]
    BY DEF ResponsesInStep
  <2>1. Bytes(w) BY DEF PInv, Counted, Live, InRequest
  <2> QED BY <2>1, InStepIsInFlight
<1> QED BY <1>1, PathInvariance, PTL

\* A message that fits into both directions and one byte of the backend's buffer never
\* blocks the worker and the backend's thread on each other.
THEOREM NeverStuck == PathSpec => []NobodyStuck
<1>1. PInv => NobodyStuck
  <2> SUFFICES ASSUME PInv, NEW w \in Workers, InRequest(w), ~Ended(w), Backend!Serving(w),
                      ~WorkerCanGo(w), ~BackendCanGo(w)
               PROVE  FALSE
    BY DEF NobodyStuck
  <2>1. /\ Bytes(w) /\ sent[w] <= Target(w)
        /\ thread[w] = "send" => total_sent[w] < Len(buffer[w])
        /\ thread[w] = "recv" => total_sent[w] = Len(buffer[w])
    BY DEF PInv, Counted, Live, InRequest
  <2>2. sent[w] = Base(w) + Len(response[w]) + Len(down[w]) + (Len(buffer[w]) - total_sent[w])
                  + Len(up[w])
    BY <2>1 DEF Bytes, InStep
  <2>3. Target(w) = Base(w) + MessageLength BY DEF Target
  <2>4. /\ thread[w] = "send" => Len(down[w]) >= DownCapacity
        /\ thread[w] # "send" => thread[w] = "recv" /\ Len(up[w]) = 0
    BY Types, EmptySeq, RequestPathAssumption DEF BackendCanGo, Backend!Serving
  <2> DEFINE base == Base(w)  s == sent[w]  r == Len(response[w])  d == Len(down[w])
             b == Len(buffer[w])  t == total_sent[w]  u == Len(up[w])
  <2>5. /\ base \in Nat /\ s \in Nat /\ r \in Nat /\ d \in Nat /\ b \in Nat /\ t \in Nat
        /\ u \in Nat
    BY Types
  <2>6. s = base + r + d + (b - t) + u BY <2>2
  <2>7. CASE sent[w] < Target(w)
    <3>1. Len(up[w]) >= UpCapacity BY <2>7, Types, RequestPathAssumption DEF WorkerCanGo
    <3>2. thread[w] = "send" BY <2>4, <3>1, RequestPathAssumption
    <3>3. u >= UpCapacity /\ d >= DownCapacity /\ t < b /\ s < base + MessageLength
      BY <2>1, <2>3, <2>4, <2>7, <3>1, <3>2
    <3> HIDE DEF base, s, r, d, b, t, u
    <3> QED BY <2>5, <2>6, <3>3, RequestPathAssumption
  <2>8. CASE sent[w] = Target(w)
    <3>1. /\ r # MessageLength /\ d = 0 /\ s = base + MessageLength
          /\ t = b \/ d >= DownCapacity
          /\ t = b => u = 0
      <4>1. r # MessageLength /\ d = 0
        BY <2>8, Types, EmptySeq DEF WorkerCanGo, ResponseComplete
      <4>2. thread[w] = "recv" BY <2>4, <4>1, RequestPathAssumption
      <4> QED BY <2>1, <2>3, <2>4, <2>8, <4>1, <4>2
    <3> HIDE DEF base, s, r, d, b, t, u
    <3> QED BY <2>5, <2>6, <3>1, RequestPathAssumption
  <2> QED BY <2>1, <2>7, <2>8, Types
<1> QED BY <1>1, PathInvariance, PTL
=============================================================================
