------------------------ MODULE DebuggerClientProofs ------------------------
(***************************************************************************)
(* Proofs about DebuggerClient: for any set of addresses, kinds and        *)
(* lengths, any queue and log length and any number of breakpoints.        *)
(*                                                                         *)
(* Between two calls the list and the kernel agree; the proof has to say   *)
(* what holds during a call, when they do not.  A BP_SET or a BP_CLEAR in  *)
(* progress concerns one id that is not in the list, and that id accounts  *)
(* for the whole difference (TrackInv).  An id the log mentions was handed *)
(* out before the call in progress began, so a hit that was logged as      *)
(* "Unknown" is never one that is about to be listed (LogInv).             *)
(***************************************************************************)
EXTENDS DebuggerClient, SequenceTheorems, TLAPS

Specs == {ToSpec(l, a, n) : l \in BpKinds, a \in Addrs, n \in BpLens}
Ids == 0 .. issued - 1
Attaching == {"none", "check_abi", "auth", "close"}
Ioctls == {"set", "clear"}
Labels == {s.label : s \in Specs} \cup {"Unknown", "message"}

DbgTypeOK ==
  /\ open \in BOOLEAN /\ issued \in Nat
  /\ fresh \subseteq Ids /\ armed \subseteq Ids /\ queue \in Seq(Ids)
  /\ call \in [op : Attaching \cup Ioctls \cup {"idle", "wait"}, arg : Int]
  /\ allowed \in BOOLEAN /\ clearFailed \in BOOLEAN
  /\ bps \in Seq([id : Ids, spec : Specs])
  /\ kspec \in [Ids -> Specs]
  /\ log \in Seq([id : Int, label : Labels])

\* One BP_SET at a time is under way, that of the call in progress.
FreshInv ==
  /\ fresh \cap armed = {}
  /\ IF call.op = "set" THEN fresh \subseteq {call.arg} ELSE fresh = {}

\* The list of a session: its ids are distinct, and armed as listed.
ListInv ==
  /\ \A i, j \in 1 .. Len(bps) : bps[i].id = bps[j].id => i = j
  /\ \A i \in 1 .. Len(bps) : bps[i].spec = kspec[bps[i].id]

\* What the kernel has armed and the list does not have is what the call is about.
TrackInv ==
  IF call.op \in Attaching
  THEN /\ bps = <<>> /\ log = <<>>
       /\ call.op # "close" => armed = {}
  ELSE /\ Tracked \subseteq armed
       /\ call.op \in Ioctls => call.arg \in Ids /\ call.arg \notin Tracked
       /\ ~clearFailed => \A i \in armed : i \in Tracked \/ (call.op \in Ioctls /\ i = call.arg)

\* What the log says of a hit.
DecodedRight(e) ==
  e # Message =>
    /\ e.id \in Ids
    /\ e.label = kspec[e.id].label \/ (e.label = "Unknown" /\ e.id \notin Tracked)
    /\ call.op = "set" => e.id # call.arg

LogInv == \A i \in 1 .. Len(log) : DecodedRight(log[i])

IInv == DbgTypeOK /\ FreshInv /\ ListInv /\ TrackInv /\ LogInv

-----------------------------------------------------------------------------
(* Sequences.                                                              *)

LEMMA EmptyFacts ==
  /\ Len(<<>>) = 0 /\ <<>> \in Seq(Ids)
  /\ <<>> \in Seq([id : Ids, spec : Specs]) /\ <<>> \in Seq([id : Int, label : Labels])
BY EmptySeq

LEMMA AppendFacts ==
  ASSUME NEW S, NEW s \in Seq(S), NEW e \in S
  PROVE  /\ Append(s, e) \in Seq(S) /\ Len(Append(s, e)) = Len(s) + 1 /\ Len(s) \in Nat
         /\ \A i \in 1 .. Len(s) + 1 :
              Append(s, e)[i] = IF i = Len(s) + 1 THEN e ELSE s[i]
<1>1. Len(s) \in Nat
  BY LenProperties
<1> QED
  BY <1>1, AppendProperties

LEMMA RemoveFacts ==
  ASSUME NEW S, NEW s \in Seq(S), NEW i \in 1 .. Len(s)
  PROVE  /\ RemoveAt(s, i) \in Seq(S) /\ Len(RemoveAt(s, i)) = Len(s) - 1
         /\ \A j \in 1 .. Len(s) - 1 : RemoveAt(s, i)[j] = IF j < i THEN s[j] ELSE s[j + 1]
<1> DEFINE a == SubSeq(s, 1, i - 1)
           b == SubSeq(s, i + 1, Len(s))
<1>1. Len(s) \in Nat /\ i \in Int /\ \A j \in 1 .. Len(s) : s[j] \in S
  BY LenProperties, ElementOfSeq
<1>2. /\ a \in Seq(S) /\ Len(a) = i - 1
      /\ \A j \in 1 .. i - 1 : a[j] = s[j]
  <2>1. \A j \in 1 .. i - 1 : s[j] \in S
    BY <1>1
  <2> DEFINE n == i - 1
  <2>2. n \in Nat /\ n - 1 + 1 = n /\ \A j \in 1 .. n : 1 + j - 1 = j
    BY <1>1
  <2> HIDE DEF n
  <2>3. /\ SubSeq(s, 1, n) \in Seq(S)
        /\ Len(SubSeq(s, 1, n)) = IF 1 <= n THEN n - 1 + 1 ELSE 0
        /\ \A j \in 1 .. n - 1 + 1 : SubSeq(s, 1, n)[j] = s[1 + j - 1]
    BY <2>1, <2>2, SubSeqProperties DEF n
  <2> QED
    BY <2>2, <2>3 DEF n
<1>3. /\ b \in Seq(S) /\ Len(b) = Len(s) - i
      /\ \A j \in 1 .. Len(s) - i : b[j] = s[i + j]
  <2> DEFINE m == i + 1
             n == Len(s)
  <2>1. /\ m \in Int /\ n \in Int /\ n - m + 1 = Len(s) - i
        /\ (IF m <= n THEN n - m + 1 ELSE 0) = Len(s) - i
        /\ \A j \in m .. n : s[j] \in S
        /\ \A j \in 1 .. Len(s) - i : m + j - 1 = i + j
    BY <1>1
  <2> HIDE DEF m, n
  <2>2. /\ SubSeq(s, m, n) \in Seq(S)
        /\ Len(SubSeq(s, m, n)) = IF m <= n THEN n - m + 1 ELSE 0
        /\ \A j \in 1 .. n - m + 1 : SubSeq(s, m, n)[j] = s[m + j - 1]
    BY <2>1, SubSeqProperties
  <2> QED
    BY <2>1, <2>2 DEF m, n
<1> HIDE DEF a, b
<1>4. /\ a \o b \in Seq(S) /\ Len(a \o b) = Len(a) + Len(b)
      /\ \A j \in 1 .. Len(a) + Len(b) :
           (a \o b)[j] = IF j <= Len(a) THEN a[j] ELSE b[j - Len(a)]
  BY <1>2, <1>3, ConcatProperties
<1>5. RemoveAt(s, i) = a \o b
  BY DEF RemoveAt, a, b
<1>6. ASSUME NEW j \in 1 .. Len(s) - 1
      PROVE  (a \o b)[j] = IF j < i THEN s[j] ELSE s[j + 1]
  <2>1. CASE j < i
    BY <1>1, <1>2, <1>3, <1>4, <2>1
  <2>2. CASE ~(j < i)
    <3>1. (a \o b)[j] = b[j - (i - 1)] /\ j - (i - 1) \in 1 .. Len(s) - i
      BY <1>1, <1>2, <1>3, <1>4, <2>2
    <3>2. i + (j - (i - 1)) = j + 1
      BY <1>1
    <3> QED
      BY <1>3, <2>2, <3>1, <3>2
  <2> QED
    BY <2>1, <2>2
<1> QED
  BY <1>1, <1>2, <1>3, <1>4, <1>5, <1>6

\* Trimming keeps a suffix.
LEMMA TrimmedFacts ==
  ASSUME NEW S, NEW s \in Seq(S)
  PROVE  /\ Trimmed(s) \in Seq(S)
         /\ \A i \in 1 .. Len(Trimmed(s)) : \E j \in 1 .. Len(s) : Trimmed(s)[i] = s[j]
<1>1. Len(s) \in Nat /\ (\A j \in 1 .. Len(s) : s[j] \in S) /\ MaxEvents \in Nat \ {0}
  BY LenProperties, ElementOfSeq, BoundsAssumption
<1>2. CASE Len(s) > MaxEvents
  <2> DEFINE m == Len(s) - MaxEvents + 1
             n == Len(s)
  <2>1. /\ m \in Int /\ n \in Int /\ n - m + 1 = MaxEvents /\ m <= n
        /\ \A j \in m .. n : s[j] \in S
        /\ \A i \in 1 .. MaxEvents : m + i - 1 \in 1 .. n
    BY <1>1, <1>2
  <2>2. Trimmed(s) = SubSeq(s, m, n)
    BY <1>2 DEF Trimmed
  <2> HIDE DEF m, n
  <2>3. /\ SubSeq(s, m, n) \in Seq(S)
        /\ Len(SubSeq(s, m, n)) = IF m <= n THEN n - m + 1 ELSE 0
        /\ \A j \in 1 .. n - m + 1 : SubSeq(s, m, n)[j] = s[m + j - 1]
    BY <2>1, SubSeqProperties
  <2> QED
    BY <2>1, <2>2, <2>3 DEF n
<1>3. CASE ~(Len(s) > MaxEvents)
  BY <1>3 DEF Trimmed
<1> QED
  BY <1>2, <1>3

-----------------------------------------------------------------------------
(* The steps.                                                              *)

\* breakpoint_spec finds the one entry with the id, if there is one.
LEMMA DecodeFacts ==
  ASSUME DbgTypeOK, ListInv, NEW q
  PROVE  /\ q \in Tracked => BreakpointSpecOf(q) = kspec[q]
         /\ q \notin Tracked => BreakpointSpecOf(q) = NoSpec
<1> DEFINE I == {i \in 1 .. Len(bps) : bps[i].id = q}
           at == IF I # {} THEN Min(I) ELSE 0
<1>1. BreakpointSpecOf(q) = IF at = 0 THEN NoSpec ELSE bps[at].spec
  BY DEF BreakpointSpecOf, SelectInSeq
<1>2. ASSUME q \in Tracked PROVE BreakpointSpecOf(q) = kspec[q]
  <2>1. PICK k \in 1 .. Len(bps) : bps[k].id = q
    BY <1>2 DEF Tracked
  <2>2. I = {k} /\ k \in Int
    BY <2>1 DEF ListInv
  <2> HIDE DEF I
  <2>3. Min(I) = k
    BY <2>2 DEF Min
  <2> QED
    BY <1>1, <2>1, <2>2, <2>3 DEF ListInv
<1>3. ASSUME q \notin Tracked PROVE BreakpointSpecOf(q) = NoSpec
  BY <1>1, <1>3 DEF Tracked
<1> QED
  BY <1>2, <1>3

\* A hit that is decoded now is decoded right.
LEMMA DecodesRight ==
  ASSUME DbgTypeOK, ListInv, NEW q \in Ids, call.op # "set"
  PROVE  /\ FromEvent(DecodeEvent(q)) \in [id : Int, label : Labels]
         /\ DecodedRight(FromEvent(DecodeEvent(q)))
<1> DEFINE s == BreakpointSpecOf(q)
<1>1. FromEvent(DecodeEvent(q)) = [id |-> q, label |-> s.label]
  BY DEF FromEvent, DecodeEvent
<1>2. q \in Int
  BY DEF Ids, DbgTypeOK
<1>3. CASE q \in Tracked
  <2>1. s = kspec[q] /\ kspec[q] \in Specs
    BY <1>3, DecodeFacts DEF DbgTypeOK
  <2>2. s.label \in Labels
    BY <2>1 DEF Labels
  <2> HIDE DEF s
  <2> QED
    BY <1>1, <1>2, <2>1, <2>2 DEF DecodedRight
<1>4. CASE q \notin Tracked
  <2>1. s.label = "Unknown"
    BY <1>4, DecodeFacts DEF NoSpec
  <2> HIDE DEF s
  <2> QED
    BY <1>1, <1>2, <1>4, <2>1 DEF DecodedRight, Labels
<1> QED
  BY <1>3, <1>4

\* Logging a hit.
LEMMA LogsRight ==
  ASSUME DbgTypeOK, LogInv, NEW e \in [id : Int, label : Labels], DecodedRight(e)
  PROVE  LET l == Trimmed(Append(log, e))
         IN l \in Seq([id : Int, label : Labels]) /\ \A i \in 1 .. Len(l) : DecodedRight(l[i])
<1> DEFINE S == [id : Int, label : Labels]
           a == Append(log, e)
<1>1. log \in Seq(S) /\ e \in S
  BY DEF DbgTypeOK
<1> HIDE DEF S
<1>2. /\ a \in Seq(S)
      /\ \A i \in 1 .. Len(a) : a[i] = e \/ \E j \in 1 .. Len(log) : a[i] = log[j]
  BY <1>1, AppendFacts
<1> HIDE DEF a
<1>3. /\ Trimmed(a) \in Seq(S)
      /\ \A i \in 1 .. Len(Trimmed(a)) : \E j \in 1 .. Len(a) : Trimmed(a)[i] = a[j]
  BY <1>2, TrimmedFacts
<1>4. \A i \in 1 .. Len(Trimmed(a)) : DecodedRight(Trimmed(a)[i])
  <2> SUFFICES ASSUME NEW i \in 1 .. Len(Trimmed(a)) PROVE DecodedRight(Trimmed(a)[i])
    OBVIOUS
  <2>1. Trimmed(a)[i] = e \/ \E j \in 1 .. Len(log) : Trimmed(a)[i] = log[j]
    BY <1>2, <1>3
  <2> QED
    BY <2>1 DEF LogInv
<1> QED
  BY <1>3, <1>4 DEF S, a

LEMMA ListedIds == DbgTypeOK => \A i \in 1 .. Len(bps) : bps[i].id \in Ids
<1> SUFFICES ASSUME DbgTypeOK, NEW i \in 1 .. Len(bps) PROVE bps[i].id \in Ids
  OBVIOUS
<1> DEFINE S == [id : Ids, spec : Specs]
<1>1. bps \in Seq(S)
  BY DEF DbgTypeOK
<1> HIDE DEF S
<1>2. bps[i] \in S
  BY <1>1, ElementOfSeq
<1> QED
  BY <1>2 DEF S

LEMMA InitInv == DbgInit => IInv
<1> SUFFICES ASSUME DbgInit PROVE IInv
  OBVIOUS
<1>1. issued = 0 /\ Ids = {} /\ bps = <<>> /\ Len(bps) = 0 /\ log = <<>> /\ kspec = <<>>
  BY DEF DbgInit, SessionInit, Ids
<1>2. kspec \in [Ids -> Specs]
  BY <1>1
<1>3. DbgTypeOK
  <2>1. open \in BOOLEAN /\ allowed \in BOOLEAN /\ clearFailed \in BOOLEAN
    BY DEF DbgInit, SessionInit
  <2>2. call \in [op : Attaching \cup Ioctls \cup {"idle", "wait"}, arg : Int]
    BY DEF DbgInit, NoDebugger, Call, Attaching
  <2>3. issued \in Nat /\ fresh \subseteq Ids /\ armed \subseteq Ids /\ queue = <<>>
    BY DEF DbgInit, SessionInit
  <2> QED
    BY <1>1, <1>2, <2>1, <2>2, <2>3, EmptyFacts DEF DbgTypeOK
<1> QED
  BY <1>1, <1>3 DEF DbgInit, SessionInit, IInv, FreshInv, ListInv, TrackInv, LogInv, NoDebugger, Call,
                    Attaching

\* Nothing but the gate and the call changes, and no BP_SET begins.
LEMMA CallStep ==
  ASSUME IInv, call'.op # "set", allowed' \in BOOLEAN, clearFailed' \in BOOLEAN,
         UNCHANGED <<sessionVars, bps, kspec, log>>,
         call' \in [op : Attaching \cup Ioctls \cup {"idle", "wait"}, arg : Int]
  PROVE  DbgTypeOK' /\ ListInv' /\ LogInv'
BY DEF IInv, DbgTypeOK, ListInv, LogInv, DecodedRight, Tracked, Ids, sessionVars

LEMMA AttachSteps ==
  ASSUME IInv, OpenDevice \/ AttachFails \/ CheckAbi \/ Auth \/ OnDetach \/ OnDetachReturns
  PROVE  IInv'
<1> USE DEF Call, Enters, NoDebugger, Idle, Attaching, Ioctls
<1>1. Len(<<>>) = 0 /\ <<>> \in Seq([id : Int, label : Labels])
  BY EmptySeq
<1>2. CASE OpenDevice
  <2>1. bps = <<>> /\ log = <<>> /\ armed = {}
    BY <1>2 DEF OpenDevice, IInv, TrackInv
  <2>2. /\ issued' = 0 /\ fresh' = {} /\ armed' = {} /\ queue' = <<>> /\ kspec' = <<>>
        /\ bps' = <<>> /\ log' = <<>> /\ Ids' = {}
        /\ open' = TRUE /\ clearFailed' = FALSE /\ allowed' = allowed
        /\ call' = [op |-> "check_abi", arg |-> 0]
    BY <1>2, <2>1 DEF OpenDevice, Ids
  <2>3. kspec' \in [Ids' -> Specs]
    BY <2>2
  <2>4. DbgTypeOK'
    <3>1. bps' \in Seq([id : Ids', spec : Specs]) /\ queue' \in Seq(Ids')
      BY <2>2, EmptySeq
    <3>2. open' \in BOOLEAN /\ clearFailed' \in BOOLEAN /\ allowed' \in BOOLEAN
      BY <2>2 DEF IInv, DbgTypeOK
    <3>3. call' \in [op : Attaching \cup Ioctls \cup {"idle", "wait"}, arg : Int]
      BY <2>2
    <3>4. issued' \in Nat /\ fresh' \subseteq Ids' /\ armed' \subseteq Ids'
      BY <2>2
    <3>5. log' \in Seq([id : Int, label : Labels])
      BY <1>1, <2>2
    <3> QED
      BY <2>3, <3>1, <3>2, <3>3, <3>4, <3>5 DEF DbgTypeOK
  <2> QED
    BY <1>1, <2>2, <2>4 DEF IInv, FreshInv, ListInv, TrackInv, LogInv
<1>3. CASE AttachFails \/ OnDetachReturns
  <2>1. /\ fresh = {} /\ armed = {} /\ queue' = <<>> /\ open' = FALSE
        /\ UNCHANGED <<issued, fresh, armed, allowed, bps, kspec, log, clearFailed>>
        /\ call' = [op |-> "none", arg |-> 0] /\ call.op \in Attaching
    BY <1>3 DEF AttachFails, OnDetachReturns, Close
  <2>2. DbgTypeOK'
    <3>1. Ids' = Ids /\ queue' \in Seq(Ids)
      BY <2>1, EmptyFacts DEF Ids
    <3>2. open' \in BOOLEAN
      BY <2>1
    <3>3. call' \in [op : Attaching \cup Ioctls \cup {"idle", "wait"}, arg : Int]
      BY <2>1
    <3> QED
      BY <2>1, <3>1, <3>2, <3>3 DEF IInv, DbgTypeOK
  <2> QED
    BY <1>1, <2>1, <2>2 DEF IInv, FreshInv, ListInv, TrackInv, LogInv
<1>4. CASE CheckAbi
  <2>1. /\ UNCHANGED <<sessionVars, allowed, bps, kspec, log, clearFailed>>
        /\ call' = [op |-> "auth", arg |-> 0] /\ call.op = "check_abi"
    BY <1>4 DEF CheckAbi
  <2>2. DbgTypeOK' /\ ListInv' /\ LogInv'
    BY <2>1, CallStep DEF IInv, DbgTypeOK
  <2> QED
    BY <2>1, <2>2 DEF IInv, FreshInv, TrackInv, sessionVars
<1>5. CASE Auth \/ OnDetach
  <2>1. /\ UNCHANGED <<sessionVars, allowed, kspec, clearFailed>> /\ bps' = <<>> /\ log' = <<>>
        /\ \/ call.op = "auth" /\ call' = [op |-> "idle", arg |-> 0]
           \/ call.op = "idle" /\ call' = [op |-> "close", arg |-> 0]
    BY <1>5 DEF Auth, OnDetach
  <2>2. DbgTypeOK'
    BY <2>1 DEF IInv, DbgTypeOK, Ids, sessionVars
  <2>3. Tracked' = {}
    BY <1>1, <2>1 DEF Tracked
  <2> QED
    BY <1>1, <2>1, <2>2, <2>3 DEF IInv, FreshInv, ListInv, TrackInv, LogInv, sessionVars
<1> QED
  BY <1>2, <1>3, <1>4, <1>5

LEMMA SetStep ==
  ASSUME IInv, NEW spec \in Specs, SetBreakpoint(spec)
  PROVE  IInv'
<1> USE DEF Call, Enters, Idle, Attaching, Ioctls
<1>1. /\ call = [op |-> "idle", arg |-> 0] /\ call' = [op |-> "set", arg |-> issued]
      /\ issued' = issued + 1 /\ fresh' = fresh \cup {issued}
      /\ UNCHANGED <<open, armed, queue, allowed, bps, log, clearFailed>>
      /\ kspec' = [i \in DOMAIN kspec \cup {issued} |-> IF i = issued THEN spec ELSE kspec[i]]
  BY DEF SetBreakpoint, BpSetIoctl, Issue, NewId
<1>2. issued \in Nat /\ Ids \subseteq Ids' /\ issued \in Ids' /\ issued \notin Ids
      /\ \A i \in Ids' : i \in Ids \/ i = issued
  BY <1>1 DEF IInv, DbgTypeOK, Ids
<1>3. /\ kspec' \in [Ids' -> Specs]
      /\ \A i \in Ids : kspec'[i] = kspec[i]
  <2>1. kspec \in [Ids -> Specs]
    BY DEF IInv, DbgTypeOK
  <2> QED
    BY <1>1, <1>2, <2>1
<1>4. queue' \in Seq(Ids') /\ bps' \in Seq([id : Ids', spec : Specs])
  <2>1. [id : Ids, spec : Specs] \subseteq [id : Ids', spec : Specs]
    BY <1>2
  <2> DEFINE S == [id : Ids, spec : Specs]
             R == [id : Ids', spec : Specs]
  <2>2. bps \in Seq(S) /\ queue \in Seq(Ids)
    BY DEF IInv, DbgTypeOK
  <2> HIDE DEF S, R
  <2>3. bps \in Seq(R)
    BY <2>1, <2>2, SeqMonotonic DEF S, R
  <2>4. queue \in Seq(Ids')
    BY <1>2, <2>2, SeqMonotonic
  <2> QED
    BY <1>1, <2>3, <2>4 DEF R
<1>5. DbgTypeOK'
  BY <1>1, <1>2, <1>3, <1>4 DEF IInv, DbgTypeOK
<1>6. Tracked' = Tracked /\ Tracked \subseteq Ids
  BY <1>1 DEF Tracked, IInv, DbgTypeOK, TrackInv
<1>7. FreshInv'
  BY <1>1, <1>2 DEF IInv, FreshInv, DbgTypeOK
<1>8. ListInv'
  <2>1. \A i \in 1 .. Len(bps) : bps[i].id \in Ids
    BY ListedIds DEF IInv
  <2> QED
    BY <1>1, <1>3, <2>1 DEF IInv, ListInv
<1>9. TrackInv'
  BY <1>1, <1>2, <1>6 DEF IInv, TrackInv
<1>10. LogInv'
  BY <1>1, <1>2, <1>3, <1>6 DEF IInv, LogInv, DecodedRight
<1> QED
  BY <1>5, <1>7, <1>8, <1>9, <1>10 DEF IInv

LEMMA SetReturnsStep == ASSUME IInv, SetReturns PROVE IInv'
<1> USE DEF Call, Enters, Idle, Attaching, Ioctls
<1>1. /\ call.op = "set" /\ call.arg \notin fresh /\ call' = [op |-> "idle", arg |-> 0]
      /\ bps' = IF call.arg \in armed
                  THEN Append(bps, [id |-> call.arg, spec |-> kspec[call.arg]]) ELSE bps
      /\ UNCHANGED <<sessionVars, allowed, kspec, log, clearFailed>>
  BY DEF SetReturns
<1>2. FreshInv'
  BY <1>1 DEF IInv, FreshInv, sessionVars
<1>3. CASE call.arg \notin armed
  <2>1. DbgTypeOK' /\ ListInv' /\ LogInv'
    BY <1>1, <1>3, CallStep DEF IInv, DbgTypeOK
  <2> QED
    BY <1>1, <1>2, <1>3, <2>1 DEF IInv, TrackInv, Tracked, sessionVars
<1>4. CASE call.arg \in armed
  <2> DEFINE S == [id : Ids, spec : Specs]
             b == [id |-> call.arg, spec |-> kspec[call.arg]]
  <2>1. bps \in Seq(S) /\ b \in S
    BY <1>4 DEF IInv, DbgTypeOK
  <2> HIDE DEF S
  <2>2. b.id = call.arg /\ b.spec = kspec[call.arg]
    OBVIOUS
  <2> HIDE DEF b
  <2>3. /\ bps' \in Seq(S) /\ Len(bps') = Len(bps) + 1 /\ Len(bps) \in Nat
        /\ \A i \in 1 .. Len(bps) + 1 : bps'[i] = IF i = Len(bps) + 1 THEN b ELSE bps[i]
    BY <1>1, <1>4, <2>1, AppendFacts DEF b
  <2>4. /\ \A i \in 1 .. Len(bps) : i \in 1 .. Len(bps') /\ bps'[i] = bps[i]
        /\ Len(bps) + 1 \in 1 .. Len(bps') /\ bps'[Len(bps) + 1] = b
        /\ \A i \in 1 .. Len(bps') : i \in 1 .. Len(bps) \/ i = Len(bps) + 1
    BY <2>3
  <2>5. Tracked' = Tracked \cup {call.arg}
    BY <2>2, <2>4 DEF Tracked
  <2>6. call.arg \notin Tracked /\ \A i \in 1 .. Len(bps) : bps[i].id # call.arg
    BY <1>1 DEF IInv, TrackInv, Tracked
  <2>7. DbgTypeOK'
    BY <1>1, <2>3 DEF IInv, DbgTypeOK, Ids, S, sessionVars
  <2>8. ListInv'
    BY <1>1, <2>2, <2>4, <2>6 DEF IInv, ListInv
  <2>9. TrackInv'
    BY <1>1, <1>4, <2>5 DEF IInv, TrackInv, sessionVars
  <2>10. LogInv'
    BY <1>1, <2>5 DEF IInv, LogInv, DecodedRight, Ids, sessionVars
  <2> QED
    BY <1>2, <2>7, <2>8, <2>9, <2>10 DEF IInv
<1> QED
  BY <1>3, <1>4

LEMMA ClearStep ==
  ASSUME IInv, NEW k \in 1 .. Len(bps), ClearBreakpoint(k)
  PROVE  IInv'
<1> USE DEF Call, Enters, Idle, Attaching, Ioctls
<1> DEFINE S == [id : Ids, spec : Specs]
           gone == bps[k].id
<1>1. /\ call = [op |-> "idle", arg |-> 0] /\ bps' = RemoveAt(bps, k)
      /\ \/ call' = [op |-> "clear", arg |-> gone] /\ clearFailed' = clearFailed
         \/ call' = call /\ clearFailed' = TRUE
      /\ UNCHANGED <<sessionVars, allowed, kspec, log>>
  BY DEF ClearBreakpoint, WithoutIndex, BpClearIoctl
<1>2. bps \in Seq(S) /\ gone \in Ids /\ gone \in Int /\ gone \in Tracked
  <2>1. bps \in Seq(S) /\ gone \in Tracked
    BY DEF IInv, DbgTypeOK, Tracked
  <2>2. gone \in Ids
    BY ListedIds DEF IInv
  <2> QED
    BY <2>1, <2>2 DEF Ids, IInv, DbgTypeOK
<1> HIDE DEF S
<1>3. /\ bps' \in Seq(S) /\ Len(bps') = Len(bps) - 1 /\ Len(bps) \in Nat
      /\ \A j \in 1 .. Len(bps) - 1 : bps'[j] = IF j < k THEN bps[j] ELSE bps[j + 1]
  BY <1>1, <1>2, RemoveFacts, LenProperties
<1>4. \A j \in 1 .. Len(bps') : \E i \in (1 .. Len(bps)) \ {k} : bps'[j] = bps[i]
  BY <1>3
<1>5. \A i \in (1 .. Len(bps)) \ {k} : \E j \in 1 .. Len(bps') : bps'[j] = bps[i]
  <2> SUFFICES ASSUME NEW i \in (1 .. Len(bps)) \ {k}
               PROVE  \E j \in 1 .. Len(bps') : bps'[j] = bps[i]
    OBVIOUS
  <2>1. CASE i < k
    BY <1>3, <2>1
  <2>2. CASE i > k
    <3>1. i - 1 \in 1 .. Len(bps') /\ ~(i - 1 < k) /\ (i - 1) + 1 = i
      BY <1>3, <2>2
    <3> QED
      BY <1>3, <3>1
  <2> QED
    BY <1>3, <2>1, <2>2
<1>6. \A i \in (1 .. Len(bps)) \ {k} : bps[i].id # gone
  BY DEF IInv, ListInv
<1>7. Tracked' = Tracked \ {gone}
  <2>1. ASSUME NEW x \in Tracked' PROVE x \in Tracked /\ x # gone
    <3>1. PICK j \in 1 .. Len(bps') : x = bps'[j].id
      BY <2>1 DEF Tracked
    <3>2. PICK i \in (1 .. Len(bps)) \ {k} : bps'[j] = bps[i]
      BY <1>4
    <3> QED
      BY <1>6, <3>1, <3>2 DEF Tracked
  <2>2. ASSUME NEW x \in Tracked, x # gone PROVE x \in Tracked'
    <3>1. PICK i \in 1 .. Len(bps) : x = bps[i].id
      BY <2>2 DEF Tracked
    <3>2. i # k
      BY <2>2, <3>1
    <3>3. PICK j \in 1 .. Len(bps') : bps'[j] = bps[i]
      BY <1>5, <3>2
    <3> QED
      BY <3>1, <3>3 DEF Tracked
  <2> QED
    BY <2>1, <2>2
<1>8. DbgTypeOK'
  <2>1. Ids' = Ids /\ clearFailed' \in BOOLEAN
    BY <1>1 DEF Ids, sessionVars, IInv, DbgTypeOK
  <2>2. call' \in [op : Attaching \cup Ioctls \cup {"idle", "wait"}, arg : Int]
    BY <1>1, <1>2
  <2> HIDE DEF gone
  <2> QED
    BY <1>1, <1>3, <2>1, <2>2 DEF IInv, DbgTypeOK, S, sessionVars
<1>9. FreshInv'
  BY <1>1 DEF IInv, FreshInv, sessionVars
<1>10. ListInv'
  <2>1. ASSUME NEW i \in 1 .. Len(bps'), NEW j \in 1 .. Len(bps'), bps'[i].id = bps'[j].id
        PROVE  i = j
    <3> DEFINE o(x) == IF x < k THEN x ELSE x + 1
    <3>1. /\ o(i) \in 1 .. Len(bps) /\ bps'[i] = bps[o(i)]
          /\ o(j) \in 1 .. Len(bps) /\ bps'[j] = bps[o(j)]
      BY <1>3
    <3>2. o(i) = o(j)
      BY <2>1, <3>1 DEF IInv, ListInv
    <3> QED
      BY <1>3, <3>2
  <2>2. \A j \in 1 .. Len(bps') : bps'[j].spec = kspec'[bps'[j].id]
    BY <1>1, <1>4 DEF IInv, ListInv
  <2> QED
    BY <2>1, <2>2 DEF ListInv
<1>11. TrackInv'
  BY <1>1, <1>2, <1>7 DEF IInv, TrackInv, Ids, sessionVars
<1>12. LogInv'
  BY <1>1, <1>7 DEF IInv, LogInv, DecodedRight, Ids, sessionVars
<1> QED
  BY <1>8, <1>9, <1>10, <1>11, <1>12 DEF IInv

LEMMA EventSteps ==
  ASSUME IInv, \/ TickEvents \/ TickEventsFails \/ ClearLog
               \/ WaitEvent \/ WaitReturns \/ WaitTimesOut
  PROVE  IInv'
<1> USE DEF Call, Enters, Idle, Attaching, Ioctls
<1>1. CASE TickEvents \/ WaitReturns
  <2> DEFINE e == FromEvent(DecodeEvent(Head(queue)))
  <2>1. /\ call.op \in {"idle", "wait"} /\ call' = [op |-> "idle", arg |-> 0]
        /\ queue # <<>> /\ queue' = Tail(queue) /\ log' = Trimmed(Append(log, e))
        /\ UNCHANGED <<open, issued, fresh, armed, allowed, bps, kspec, clearFailed>>
    BY <1>1 DEF TickEvents, WaitReturns, Take
  <2>2. Head(queue) \in Ids /\ Tail(queue) \in Seq(Ids)
    BY <2>1, HeadTailProperties DEF IInv, DbgTypeOK
  <2>3. e \in [id : Int, label : Labels] /\ DecodedRight(e)
    BY <2>1, <2>2, DecodesRight DEF IInv
  <2> HIDE DEF e
  <2>4. /\ log' \in Seq([id : Int, label : Labels])
        /\ \A i \in 1 .. Len(log') : DecodedRight(log'[i])
    BY <2>1, <2>3, LogsRight DEF IInv
  <2>5. DbgTypeOK'
    BY <2>1, <2>2, <2>4 DEF IInv, DbgTypeOK, Ids
  <2>6. LogInv'
    BY <2>1, <2>4 DEF LogInv, DecodedRight, Ids, Tracked
  <2> QED
    BY <2>1, <2>5, <2>6 DEF IInv, FreshInv, ListInv, TrackInv, Tracked
<1>2. CASE TickEventsFails
  <2> DEFINE S == [id : Int, label : Labels]
  <2>1. /\ call.op = "idle" /\ log' = Append(log, Message)
        /\ UNCHANGED <<sessionVars, call, allowed, bps, kspec, clearFailed>>
    BY <1>2 DEF TickEventsFails
  <2>2. Message \in S /\ log \in Seq(S)
    BY DEF IInv, DbgTypeOK, Message, Labels
  <2> HIDE DEF S
  <2>3. /\ log' \in Seq(S) /\ Len(log') = Len(log) + 1 /\ Len(log) \in Nat
        /\ \A i \in 1 .. Len(log) + 1 : log'[i] = IF i = Len(log) + 1 THEN Message ELSE log[i]
    BY <2>1, <2>2, AppendFacts
  <2>4. \A i \in 1 .. Len(log') : log'[i] = Message \/ \E j \in 1 .. Len(log) : log'[i] = log[j]
    BY <2>3
  <2>5. DbgTypeOK'
    BY <2>1, <2>3 DEF IInv, DbgTypeOK, Ids, S, sessionVars
  <2>6. LogInv'
    BY <2>1, <2>4 DEF IInv, LogInv, DecodedRight, Ids, Tracked, sessionVars
  <2> QED
    BY <2>1, <2>5, <2>6 DEF IInv, FreshInv, ListInv, TrackInv, Tracked, Ids, sessionVars
<1>3. CASE ClearLog
  <2>1. log' = <<>> /\ UNCHANGED <<sessionVars, call, allowed, bps, kspec, clearFailed>>
    BY <1>3 DEF ClearLog
  <2>2. DbgTypeOK'
    BY <2>1 DEF IInv, DbgTypeOK, Ids, sessionVars
  <2> QED
    BY <2>1, <2>2 DEF IInv, FreshInv, ListInv, TrackInv, LogInv, Tracked, Ids, sessionVars
<1>4. CASE WaitEvent \/ WaitTimesOut
  <2>1. /\ call.op \in {"idle", "wait"} /\ call'.op \in {"idle", "wait"}
        /\ call' \in [op : {"idle", "wait"}, arg : Int]
        /\ UNCHANGED <<sessionVars, allowed, bps, kspec, log, clearFailed>>
    BY <1>4, BoundsAssumption
    DEF WaitEvent, WaitEventIoctl, WaitTimesOut, Forever, Durations, TimeoutMs
  <2>2. DbgTypeOK' /\ ListInv' /\ LogInv'
    BY <2>1, CallStep DEF IInv, DbgTypeOK
  <2> QED
    BY <2>1, <2>2 DEF IInv, FreshInv, TrackInv, Tracked, sessionVars
<1> QED
  BY <1>1, <1>2, <1>3, <1>4

LEMMA KernelStepsInv ==
  ASSUME IInv, KernelArms \/ KernelHits \/ KernelDisarms
  PROVE  IInv'
<1> USE DEF Call, Attaching, Ioctls
<1>1. UNCHANGED <<open, issued, clientVars>>
  BY DEF KernelArms, KernelHits, KernelDisarms, KernelSteps, Arm, Refuse, Hit, Disarm
<1>2. ListInv' /\ LogInv'
  BY <1>1 DEF IInv, ListInv, LogInv, DecodedRight, Tracked, Ids, clientVars
<1>3. CASE KernelArms
  <2>1. PICK i \in fresh : /\ fresh' = fresh \ {i} /\ queue' = queue
                           /\ armed' = armed \/ armed' = armed \cup {i}
    BY <1>3 DEF KernelArms, Arm, Refuse
  <2>2. call.op = "set" /\ i = call.arg
    BY DEF IInv, FreshInv
  <2>3. DbgTypeOK'
    BY <1>1, <2>1 DEF IInv, DbgTypeOK, Ids, clientVars
  <2>4. FreshInv' /\ TrackInv'
    BY <1>1, <2>1, <2>2 DEF IInv, FreshInv, TrackInv, Tracked, Ids, clientVars
  <2> QED
    BY <1>2, <2>3, <2>4 DEF IInv
<1>4. CASE KernelHits
  <2>1. PICK i \in armed : queue' = Append(queue, i) /\ UNCHANGED <<fresh, armed>>
    BY <1>4 DEF KernelHits, Hit
  <2>2. queue' \in Seq(Ids)
    BY <2>1, AppendFacts DEF IInv, DbgTypeOK
  <2>3. DbgTypeOK'
    BY <1>1, <2>1, <2>2 DEF IInv, DbgTypeOK, Ids, clientVars
  <2> QED
    BY <1>1, <1>2, <2>1, <2>3 DEF IInv, FreshInv, TrackInv, Tracked, Ids, clientVars
<1>5. CASE KernelDisarms
  <2>1. PICK i \in armed : /\ call = [op |-> "clear", arg |-> i] \/ call.op = "close"
                           /\ armed' = armed \ {i} /\ UNCHANGED <<fresh, queue>>
    BY <1>5 DEF KernelDisarms, Disarm
  <2>2. DbgTypeOK'
    BY <1>1, <2>1 DEF IInv, DbgTypeOK, Ids, clientVars
  <2>3. FreshInv' /\ TrackInv'
    BY <1>1, <2>1 DEF IInv, FreshInv, TrackInv, Tracked, Ids, clientVars
  <2> QED
    BY <1>2, <2>2, <2>3 DEF IInv
<1> QED
  BY <1>3, <1>4, <1>5

LEMMA StepInv == IInv /\ [DbgNext]_dbgVars => IInv'
<1> SUFFICES ASSUME IInv, [DbgNext]_dbgVars PROVE IInv'
  OBVIOUS
<1>1. ASSUME NEW l \in BpKinds, NEW a \in Addrs, NEW n \in BpLens, DoSetBreakpoint(l, a, n)
      PROVE  IInv'
  BY <1>1, SetStep DEF DoSetBreakpoint, Specs
<1>2. CASE ShowBpControls
  BY <1>2, ClearStep DEF ShowBpControls
<1>3. CASE ClearReturns
  <2>1. /\ call.op = "clear" /\ call.arg \notin armed /\ call' = Idle
        /\ UNCHANGED <<sessionVars, allowed, bps, kspec, log, clearFailed>>
    BY <1>3 DEF ClearReturns
  <2>2. DbgTypeOK' /\ ListInv' /\ LogInv'
    BY <2>1, CallStep DEF IInv, DbgTypeOK, Idle, Call
  <2> QED
    BY <2>1, <2>2 DEF IInv, FreshInv, TrackInv, Tracked, Attaching, Ioctls, Idle, Call, sessionVars
<1>4. CASE UNCHANGED dbgVars \/ GateChanges
  <2>1. UNCHANGED <<sessionVars, call, bps, kspec, log, clearFailed>> /\ allowed' \in BOOLEAN
    BY <1>4 DEF dbgVars, clientVars, GateChanges, IInv, DbgTypeOK
  <2>2. DbgTypeOK'
    BY <2>1 DEF IInv, DbgTypeOK, Ids, sessionVars
  <2> QED
    BY <2>1, <2>2
    DEF IInv, FreshInv, ListInv, TrackInv, LogInv, DecodedRight, Tracked, Ids, sessionVars
<1> QED
  BY <1>1, <1>2, <1>3, <1>4, AttachSteps, SetReturnsStep, EventSteps, KernelStepsInv
  DEF DbgNext, UserSteps

\* In every reachable state of the debugger and its panel the inductive invariant holds.
THEOREM AlwaysIInv == DbgSpec => []IInv
BY InitInv, StepInv, PTL DEF DbgSpec

\* For every number of breakpoints, detaches and refused ioctls: between two calls the
\* Debugger lists what the kernel has armed (set_breakpoint, clear_breakpoint).
THEOREM ListTracks == DbgSpec => []ListTracksSession
<1>1. IInv => ListTracksSession
  <2> SUFFICES ASSUME IInv, call = Idle PROVE
        /\ \A i \in 1 .. Len(bps) : bps[i].id \in armed /\ bps[i].spec = kspec[bps[i].id]
        /\ ~clearFailed => Tracked = armed
    BY DEF ListTracksSession
  <2>1. Tracked \subseteq armed /\ (~clearFailed => armed \subseteq Tracked)
    BY DEF IInv, TrackInv, Idle, Call, Attaching, Ioctls
  <2> QED
    BY <2>1 DEF IInv, ListInv, Tracked
<1> QED
  BY <1>1, AlwaysIInv, PTL

\* For every queue length and however long a hit waited in it, across any number of
\* sessions: a hit in the log has the kind of the breakpoint that fired (decode_event).
THEOREM HitsDecode == DbgSpec => []HitsDecodeRight
<1>1. IInv => HitsDecodeRight
  BY DEF IInv, LogInv, DecodedRight, HitsDecodeRight
<1> QED
  BY <1>1, AlwaysIInv, PTL
=============================================================================
