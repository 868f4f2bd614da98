--------------------------- MODULE MmcRequestProofs ---------------------------
(***************************************************************************)
(* The safety properties of MmcRequest, for any number of retries, polls   *)
(* and tuning blocks and any set of top-level calls.                       *)
(***************************************************************************)
EXTENDS MmcRequest, Integers, FunctionTheorems, FiniteSetTheorems,
        SequenceTheorems, TLAPS

(* What a stack says.  Acts: the activations on it.                        *)
Acts(s) == {s[i] : i \in 1 .. Len(s)}

(* The activation f may wait for a call of g: who calls whom, and where in *)
(* its code the caller stands meanwhile.                                   *)
Calls(f, g) ==
  \/ f.fn \in Requests /\ f.at = "tuned" /\ g = "mmc_retune"
  \/ f.fn = "sanitize" /\ f.at = "hpi" /\ g = "hpi"
  \/ f.fn \in Switches /\ f.at = "cmd" /\ g \in {"cmd6", "sanitize"}
  \/ f.fn \in Switches /\ f.at \in {"poll", "status"} /\ g = "status"
  \/ f.fn = "mmc_retune" /\ f.step = 1 /\ g = "hs400_to_hs200"
  \/ f.fn = "mmc_retune" /\ f.step = 2 /\ g = "execute_tuning"
  \/ f.fn = "mmc_retune" /\ f.step = 3 /\ g = "hs200_to_hs400"
  \/ f.fn = "execute_tuning" /\ g = "tuning"
  \/ f.fn \in {"hpi", "sleep"} /\ g \in {"cmd3", "cmd0", "status"}
  \/ f.fn = "detect" /\ g = "status"
  \/ f.fn = "hs" /\ g = "switchHs"
  \/ f.fn = "hs200" /\ g \in {"switchBus", "status", "execute_tuning",
                              "hs200_to_hs400"}
  \/ f.fn = "hs200_to_hs400" /\ f.step # 5 /\ g \in {"switchBus", "status", "switch"}
  \/ f.fn = "hs200_to_hs400" /\ f.step = 5 /\ g = "status"
  \/ f.fn = "hs400_to_hs200" /\ g \in {"switchBus", "status"}
  \/ f.fn = "start_bkops" /\ g \in {"data", "switch", "switchBkops"}
  \/ f.fn = "stop_bkops" /\ g = "hpi"

Linked(s) == \A i \in 1 .. Len(s) - 1 : Calls(s[i + 1], s[i].fn)

(* A re-tune may run above f.                                              *)
Lets(f) ==
  /\ f.fn \in Switches => f.at = "cmd"
  /\ f.fn = "sleep" => f.step = 1
  /\ f.fn # "mmc_retune"
Guarded(s) ==
  \A i, j \in 1 .. Len(s) : s[i].fn = "mmc_retune" /\ i < j => Lets(s[j])

(* f holds re-tuning: while it waits for a callee, and while it is on top  *)
(* of the stack with e returned to it.                                     *)
Started(f) == f.fn \in Requests \cup Switches /\ f.at # "start"
Held(f) ==
  \/ Started(f)
  \/ f.fn = "sleep"
  \/ f.fn = "start_bkops" /\ f.step \in {2, 3}
HeldTop(f, e) ==
  \/ Started(f)
  \/ f.fn = "sleep" /\ (f.step = 2 \/ e # "none")
  \/ f.fn = "start_bkops" /\ (f.step = 3 \/ (f.step = 2 /\ e # "none"))

One(b) == IF b THEN 1 ELSE 0
Count(s) == Cardinality({i \in 1 .. Len(s) : Held(s[i])})
TopCount(s, e) ==
  IF s = <<>> THEN 0 ELSE One(HeldTop(Head(s), e)) + Count(Tail(s))

-----------------------------------------------------------------------------
(* Where an activation stands in its code.                                 *)
Standing(f) ==
  /\ f.fn \in Requests =>
       f.at \in {"start", "retune", "tuned", "issue", "host", "wait", "hpi"}
  /\ f.fn \in Switches => f.at \in {"start", "cmd", "poll", "status"}
  /\ f.fn \in Scripts \cup Others => f.at = "run"
  /\ f.fn \in Scripts => f.step <= Len(Script(f.fn))
  /\ f.fn \in {"mmc_retune", "start_bkops"} => f.step <= 3

StackInv ==
  /\ stack = <<>> => ret = "none"
  /\ \A f \in Acts(stack) : Standing(f)
  /\ Linked(stack)
  /\ Guarded(stack)
  /\ Fn({"start_bkops"}) /\ Top.step = 3 => Back
  /\ stack # <<>> => \A f \in Acts(Below) : f.at \notin {"start", "host"}
  /\ stack # <<>> /\ Top.at = "host" => Ready

RetuneInv ==
  /\ doing <=> \E f \in Acts(stack) : f.fn = "mmc_retune"
  /\ doing => ~bkops /\ ~InFlight

HoldInv == hold = TopCount(stack, ret) + One(parked # Idle) + One(bkops)

(* f is past the first command of what it does: a re-tune that was due is  *)
(* done, and no other begins before f gives back its hold.                 *)
Firm(f) ==
  \/ f.fn \in Requests /\ f.at \in {"tuned", "issue", "host", "hpi"}
  \/ f.fn \in Requests /\ f.at = "wait" /\ f.err \notin {"other", "inval"}
  \/ f.fn \in Switches /\ f.at \in {"poll", "status"}
  \/ f.fn = "sleep" /\ f.step = 2

NowInv ==
  now => /\ \A f \in Acts(stack) : ~Firm(f)
         /\ parked # Idle => ~Firm(parked)
         /\ ~bkops
         /\ ret \in {"none", "other", "inval"}

FlightInv ==
  /\ parked # Idle => parked.at \in {"host", "wait"}
  /\ \A f \in Acts(stack) : f.fn = "tfr" => parked = Idle
  /\ InFlight => \A f \in Acts(stack) : f.fn \in Requests => f.at = "start"

BkopsInv ==
  /\ \A f \in Acts(stack) :
       /\ f.fn = "stop_bkops" => bkops
       /\ f.fn = "start_bkops" /\ f.step # 1 => ~bkops
  /\ stack # <<>> => \A f \in Acts(Below) : f.fn = "start_bkops" => ~bkops
  /\ Fn({"start_bkops"}) /\ Back => ~bkops

(* The timing during a re-tune.  Step 1 lets go of HS400, nothing changes  *)
(* the timing in step 2, and step 3 ends in HS400.                         *)
Restoring(f) ==
  f.fn = "mmc_retune" =>
    /\ f.step = 2 =>
         /\ f.old # "HS400" => timing = f.old
         /\ Top.fn \in {"mmc_retune", "execute_tuning", "tuning"}
    /\ f.step = 3 => f.old = "HS400"

TimingInv ==
  /\ \A f \in Acts(stack) : Restoring(f)
  /\ stack # <<>> =>
       \A f \in Acts(Below) : f.fn = "mmc_retune" /\ f.step = 1 => f.old = "HS400"
  /\ Fn({"mmc_retune"}) /\ Top.step = 1 =>
       Top.old = IF Ready THEN timing ELSE "HS400"
  /\ Fn({"mmc_retune"}) /\ Top.step = 3 /\ ret = "ok" => timing = "HS400"
  /\ doing /\ Fn({"hs200_to_hs400"}) /\ Top.step = 5 => timing = "HS400"
  /\ /\ doing /\ stack # <<>> /\ Below # <<>> /\ Top.fn # "mmc_retune"
     /\ Head(Below).fn = "hs200_to_hs400" /\ Head(Below).step = 5
     => timing = "HS400"

IInv ==
  /\ TypeOK /\ StackInv /\ RetuneInv /\ HoldInv /\ NowInv /\ FlightInv
  /\ BkopsInv /\ TimingInv

-----------------------------------------------------------------------------
(* The call stack: what a new activation on top of a stack changes.        *)

(* Indices of <<f>> \o B: the new top, then those of B moved by one.       *)
LEMMA ConsIndex ==
  ASSUME NEW B \in Seq(Frames), NEW f \in Frames
  PROVE  LET s == <<f>> \o B IN
         /\ s \in Seq(Frames) /\ s # <<>> /\ Len(s) = Len(B) + 1
         /\ Head(s) = f /\ Tail(s) = B /\ s[1] = f
         /\ \A i \in 1 .. Len(B) : s[i + 1] = B[i]
<1> DEFINE s == <<f>> \o B
<1>1. <<f>> \in Seq(Frames) /\ Len(<<f>>) = 1 /\ <<f>>[1] = f
  OBVIOUS
<1>2. /\ s \in Seq(Frames) /\ Len(s) = 1 + Len(B)
      /\ \A i \in 1 .. 1 + Len(B) : s[i] = IF i <= 1 THEN <<f>>[i] ELSE B[i - 1]
  BY <1>1, ConcatProperties
<1>3. Len(B) \in Nat
  BY LenProperties
<1>4. s # <<>> /\ s[1] = f
  BY <1>1, <1>2, <1>3
<1>5. Head(s) = f
  BY <1>2, <1>4
<1>6. \A i \in 1 .. Len(B) : s[i + 1] = B[i]
  BY <1>2, <1>3
<1>7. /\ Tail(s) \in Seq(Frames) /\ Len(Tail(s)) = Len(s) - 1
      /\ \A i \in 1 .. Len(Tail(s)) : Tail(s)[i] = s[i + 1]
  BY <1>2, <1>4, HeadTailProperties
<1>8. Len(Tail(s)) = Len(B) /\ \A i \in 1 .. Len(B) : Tail(s)[i] = B[i]
  BY <1>2, <1>3, <1>6, <1>7
<1>9. Tail(s) = B
  BY <1>7, <1>8, SeqEqual
<1> QED
  BY <1>2, <1>3, <1>4, <1>5, <1>6, <1>9

(* A stack is its top and the rest.                                        *)
LEMMA Uncons ==
  ASSUME NEW s \in Seq(Frames), s # <<>>
  PROVE  /\ Head(s) \in Frames /\ Tail(s) \in Seq(Frames)
         /\ s = <<Head(s)>> \o Tail(s)
<1> DEFINE t == <<Head(s)>> \o Tail(s)
<1>1. /\ Head(s) \in Frames /\ Tail(s) \in Seq(Frames)
      /\ Len(Tail(s)) = Len(s) - 1
      /\ \A i \in 1 .. Len(Tail(s)) : Tail(s)[i] = s[i + 1]
  BY HeadTailProperties
<1>2. /\ t \in Seq(Frames) /\ Len(t) = Len(Tail(s)) + 1 /\ t[1] = Head(s)
      /\ \A i \in 1 .. Len(Tail(s)) : t[i + 1] = Tail(s)[i]
  BY <1>1, ConsIndex
<1>3. Len(s) \in Nat /\ Len(s) # 0 /\ Head(s) = s[1]
  BY LenProperties, EmptySeq
<1>4. ASSUME NEW i \in 1 .. Len(s) PROVE t[i] = s[i]
  <2>1. CASE i = 1
    BY <2>1, <1>2, <1>3
  <2>2. CASE i # 1
    <3>1. i - 1 \in 1 .. Len(Tail(s)) /\ (i - 1) + 1 = i
      BY <2>2, <1>1, <1>3
    <3> QED BY <3>1, <1>1, <1>2
  <2> QED BY <2>1, <2>2
<1> QED
  BY <1>1, <1>2, <1>3, <1>4, SeqEqual

(* The callers and callees of <<f>> \o B.                                  *)
LEMMA ConsChain ==
  ASSUME NEW B \in Seq(Frames), NEW f \in Frames
  PROVE  LET s == <<f>> \o B IN
         /\ Acts(s) = {f} \cup Acts(B)
         /\ Linked(s) <=> Linked(B) /\ (B # <<>> => Calls(Head(B), f.fn))
         /\ Guarded(s) <=>
               Guarded(B) /\ (f.fn = "mmc_retune" => \A b \in Acts(B) : Lets(b))
<1> DEFINE s == <<f>> \o B
<1>1. /\ Len(s) = Len(B) + 1 /\ s[1] = f
      /\ \A i \in 1 .. Len(B) : s[i + 1] = B[i]
  BY ConsIndex
<1>2. Len(B) \in Nat
  BY LenProperties
<1> HIDE DEF s
<1>3. \A i \in 1 .. Len(s) : i = 1 \/ (i - 1 \in 1 .. Len(B) /\ s[i] = B[i - 1])
  <2> SUFFICES ASSUME NEW i \in 1 .. Len(s), i # 1
               PROVE  i - 1 \in 1 .. Len(B) /\ s[i] = B[i - 1]
    OBVIOUS
  <2>1. i - 1 \in 1 .. Len(B) /\ (i - 1) + 1 = i
    BY <1>1, <1>2
  <2> QED BY <2>1, <1>1
<1>4. Acts(s) = {f} \cup Acts(B)
  <2>1. ASSUME NEW a \in Acts(s) PROVE a \in {f} \cup Acts(B)
    BY <1>1, <1>3 DEF Acts
  <2>2. f \in Acts(s)
    BY <1>1, <1>2 DEF Acts
  <2>3. ASSUME NEW b \in Acts(B) PROVE b \in Acts(s)
    <3>1. PICK i \in 1 .. Len(B) : b = B[i]
      BY DEF Acts
    <3>2. i + 1 \in 1 .. Len(s) /\ s[i + 1] = b
      BY <3>1, <1>1, <1>2
    <3> QED BY <3>2 DEF Acts
  <2> QED BY <2>1, <2>2, <2>3
<1>5. Linked(s) <=> Linked(B) /\ (B # <<>> => Calls(Head(B), f.fn))
  <2>1. ASSUME Linked(s) PROVE Linked(B)
    <3> SUFFICES ASSUME NEW i \in 1 .. Len(B) - 1 PROVE Calls(B[i + 1], B[i].fn)
      BY DEF Linked
    <3>1. /\ i + 1 \in 1 .. Len(s) - 1 /\ i \in 1 .. Len(B) /\ i + 1 \in 1 .. Len(B)
      BY <1>1, <1>2
    <3>2. Calls(s[(i + 1) + 1], s[i + 1].fn)
      BY <2>1, <3>1 DEF Linked
    <3> QED BY <3>1, <3>2, <1>1
  <2>2. ASSUME Linked(s), B # <<>> PROVE Calls(Head(B), f.fn)
    <3>1. Len(B) # 0 /\ Head(B) = B[1]
      BY <2>2, EmptySeq
    <3>2. 1 \in 1 .. Len(s) - 1 /\ 1 \in 1 .. Len(B)
      BY <3>1, <1>1, <1>2
    <3>3. Calls(s[1 + 1], s[1].fn)
      BY <3>2, <2>2 DEF Linked
    <3> QED BY <3>1, <3>2, <3>3, <1>1
  <2>3. ASSUME Linked(B), B # <<>> => Calls(Head(B), f.fn) PROVE Linked(s)
    <3> SUFFICES ASSUME NEW i \in 1 .. Len(s) - 1 PROVE Calls(s[i + 1], s[i].fn)
      BY DEF Linked
    <3>1. i \in 1 .. Len(B) /\ s[i + 1] = B[i] /\ B # <<>>
      BY <1>1, <1>2
    <3>2. CASE i = 1
      BY <3>1, <3>2, <2>3, <1>1
    <3>3. CASE i # 1
      <4>1. i - 1 \in 1 .. Len(B) - 1 /\ (i - 1) + 1 = i /\ i \in 1 .. Len(s)
        BY <3>1, <3>3, <1>1, <1>2
      <4>2. s[i] = B[i - 1]
        BY <4>1, <1>3, <3>3
      <4>3. Calls(B[(i - 1) + 1], B[i - 1].fn)
        BY <4>1, <2>3 DEF Linked
      <4> QED BY <3>1, <4>1, <4>2, <4>3
    <3> QED BY <3>2, <3>3
  <2> QED BY <2>1, <2>2, <2>3
<1>6. Guarded(s) <=>
        Guarded(B) /\ (f.fn = "mmc_retune" => \A b \in Acts(B) : Lets(b))
  <2>1. ASSUME Guarded(s) PROVE Guarded(B)
    <3> SUFFICES ASSUME NEW i \in 1 .. Len(B), NEW j \in 1 .. Len(B),
                        B[i].fn = "mmc_retune", i < j
                 PROVE  Lets(B[j])
      BY DEF Guarded
    <3>1. i + 1 \in 1 .. Len(s) /\ j + 1 \in 1 .. Len(s) /\ i + 1 < j + 1
      BY <1>1, <1>2
    <3>2. s[i + 1] = B[i] /\ s[j + 1] = B[j]
      BY <1>1
    <3> QED BY <3>1, <3>2, <2>1 DEF Guarded
  <2>2. ASSUME Guarded(s), f.fn = "mmc_retune", NEW b \in Acts(B) PROVE Lets(b)
    <3>1. PICK j \in 1 .. Len(B) : b = B[j]
      BY DEF Acts
    <3>2. 1 \in 1 .. Len(s) /\ j + 1 \in 1 .. Len(s) /\ 1 < j + 1
      BY <1>1, <1>2
    <3>3. s[1] = f /\ s[j + 1] = b
      BY <3>1, <1>1
    <3> QED BY <3>2, <3>3, <2>2 DEF Guarded
  <2>3. ASSUME Guarded(B), f.fn = "mmc_retune" => \A b \in Acts(B) : Lets(b)
        PROVE  Guarded(s)
    <3> SUFFICES ASSUME NEW i \in 1 .. Len(s), NEW j \in 1 .. Len(s),
                        s[i].fn = "mmc_retune", i < j
                 PROVE  Lets(s[j])
      BY DEF Guarded
    <3>1. j - 1 \in 1 .. Len(B) /\ s[j] = B[j - 1]
      BY <1>1, <1>2, <1>3
    <3>2. CASE i = 1
      BY <3>1, <3>2, <2>3, <1>1 DEF Acts
    <3>3. CASE i # 1
      <4>1. i - 1 \in 1 .. Len(B) /\ s[i] = B[i - 1] /\ i - 1 < j - 1
        BY <3>3, <1>2, <1>3
      <4> QED BY <4>1, <3>1, <2>3 DEF Guarded
    <3> QED BY <3>2, <3>3
  <2> QED BY <2>1, <2>2, <2>3
<1> QED
  BY <1>4, <1>5, <1>6 DEF s

(* The empty stack.                                                        *)
LEMMA EmptyChain ==
  /\ <<>> \in Seq(Frames) /\ Acts(<<>>) = {} /\ Linked(<<>>) /\ Guarded(<<>>)
  /\ Count(<<>>) = 0
<1>1. <<>> \in Seq(Frames) /\ Len(<<>>) = 0 /\ 1 .. 0 = {}
  OBVIOUS
<1>2. {i \in 1 .. Len(<<>>) : Held(<<>>[i])} = {}
  BY <1>1
<1>3. Count(<<>>) = 0
  BY <1>2, FS_EmptySet DEF Count
<1> QED
  BY <1>1, <1>3 DEF Acts, Linked, Guarded

(* The activations beneath the top that satisfy a condition, counted by    *)
(* their places in the stack or in the rest of it.                         *)
LEMMA ShiftCount ==
  ASSUME NEW n \in Nat, NEW S \in SUBSET (1 .. n)
  PROVE  /\ IsFiniteSet({i + 1 : i \in S})
         /\ Cardinality({i + 1 : i \in S}) = Cardinality(S)
<1> DEFINE T == {i + 1 : i \in S}
           h == [i \in S |-> i + 1]
<1>1. IsFiniteSet(S)
  <2>1. IsFiniteSet(1 .. n)
    BY FS_Interval, 1 \in Int, n \in Int
  <2> QED BY <2>1, FS_Subset
<1>2. h \in Bijection(S, T)
  <2>1. h \in [S -> T]
    OBVIOUS
  <2>2. \A a, b \in S : h[a] = h[b] => a = b
    OBVIOUS
  <2>3. \A t \in T : \E a \in S : h[a] = t
    OBVIOUS
  <2> QED BY <2>1, <2>2, <2>3, Fun_IsBij
<1> QED
  BY <1>1, <1>2, FS_Bijection DEF ExistsBijection

(* So a count over a stack is the count beneath its top, and the top's.    *)
LEMMA CountTop ==
  ASSUME NEW n \in Nat, NEW T \in SUBSET (1 .. n), NEW U \in SUBSET (1 .. n + 1),
         \A i \in 1 .. n : i + 1 \in U <=> i \in T
  PROVE  Cardinality(U) = Cardinality(T) + One(1 \in U) /\ Cardinality(T) \in Nat
<1> DEFINE V == {i + 1 : i \in T}
<1>1. IsFiniteSet(V) /\ Cardinality(V) = Cardinality(T)
  BY ShiftCount
<1>2. Cardinality(V) \in Nat
  BY <1>1, FS_CardinalityType
<1>3. 1 \notin V
  OBVIOUS
<1>4. ASSUME NEW i, i # 1 PROVE i \in U <=> i \in V
  <2>1. ASSUME i \in U PROVE i \in V
    <3>1. i - 1 \in 1 .. n /\ (i - 1) + 1 = i
      BY <1>4, <2>1
    <3>2. i - 1 \in T
      BY <2>1, <3>1
    <3> QED BY <3>1, <3>2
  <2> QED BY <2>1
<1> HIDE DEF V
<1>5. CASE 1 \in U
  <2>1. U = V \cup {1}
    BY <1>4, <1>5
  <2> QED BY <1>1, <1>2, <1>3, <1>5, <2>1, FS_AddElement DEF One
<1>6. CASE 1 \notin U
  <2>1. U = V
    BY <1>3, <1>4, <1>6
  <2> QED BY <1>1, <1>2, <1>6, <2>1 DEF One
<1> QED
  BY <1>5, <1>6

(* A new top counts if it holds re-tuning.                                 *)
LEMMA ConsCount ==
  ASSUME NEW B \in Seq(Frames), NEW f \in Frames
  PROVE  /\ Count(B) \in Nat
         /\ Count(<<f>> \o B) = Count(B) + One(Held(f))
<1> DEFINE s == <<f>> \o B
           T == {i \in 1 .. Len(B) : Held(B[i])}
           U == {i \in 1 .. Len(s) : Held(s[i])}
<1>1. /\ Len(s) = Len(B) + 1 /\ s[1] = f /\ Len(B) \in Nat
      /\ \A i \in 1 .. Len(B) : s[i + 1] = B[i]
  BY ConsIndex, LenProperties
<1> HIDE DEF s
<1>2. /\ T \in SUBSET (1 .. Len(B)) /\ U \in SUBSET (1 .. Len(B) + 1)
      /\ \A i \in 1 .. Len(B) : i + 1 \in U <=> i \in T
  BY <1>1
<1>3. 1 \in U <=> Held(f)
  BY <1>1
<1>4. Count(s) = Cardinality(U) /\ Count(B) = Cardinality(T)
  BY DEF Count
<1> HIDE DEF T, U
<1>5. Cardinality(U) = Cardinality(T) + One(1 \in U) /\ Cardinality(T) \in Nat
  BY <1>1, <1>2, CountTop
<1> QED
  BY <1>3, <1>4, <1>5 DEF s, One

-----------------------------------------------------------------------------
(* The three ways in which the owner of the host moves on its stack.       *)

LEMMA ActsFrames ==
  ASSUME NEW s \in Seq(Frames), NEW a \in Acts(s)
  PROVE  a \in Frames
  BY ElementOfSeq DEF Acts

(* What a stack with f on top of B is.                                     *)
OnTop(s, f, B) ==
  /\ s \in Seq(Frames) /\ s # <<>> /\ Head(s) = f /\ Tail(s) = B
  /\ Acts(s) = {f} \cup Acts(B)
  /\ Linked(s) <=> Linked(B) /\ (B # <<>> => Calls(Head(B), f.fn))
  /\ Guarded(s) <=>
        Guarded(B) /\ (f.fn = "mmc_retune" => \A b \in Acts(B) : Lets(b))
  /\ Count(s) = Count(B) + One(Held(f))
  /\ Count(B) \in Nat /\ s # B

LEMMA ConsOnTop ==
  ASSUME NEW B \in Seq(Frames), NEW f \in Frames
  PROVE  OnTop(<<f>> \o B, f, B)
<1>1. Len(B) \in Nat /\ Len(<<f>> \o B) = Len(B) + 1
  BY ConsIndex, LenProperties
<1>2. <<f>> \o B # B
  BY <1>1
<1> QED
  BY <1>2, ConsIndex, ConsChain, ConsCount DEF OnTop

LEMMA TopOnTop ==
  ASSUME NEW s \in Seq(Frames), s # <<>>
  PROVE  OnTop(s, Head(s), Tail(s)) /\ Head(s) \in Frames /\ Tail(s) \in Seq(Frames)
  BY Uncons, ConsOnTop

LEMMA TwoOnTop ==
  ASSUME NEW B \in Seq(Frames), NEW f \in Frames, NEW g \in Frames
  PROVE  <<g, f>> \o B = <<g>> \o (<<f>> \o B)
<1>1. /\ <<g>> \in Seq(Frames) /\ <<f>> \in Seq(Frames) /\ <<g, f>> \in Seq(Frames)
      /\ Len(<<g>>) = 1 /\ Len(<<f>>) = 1 /\ Len(<<g, f>>) = 2
  OBVIOUS
<1>2. <<g>> \o <<f>> = <<g, f>>
  <2> DEFINE h == <<g>> \o <<f>>
             k == <<g, f>>
  <2>1. h \in Seq(Frames) /\ Len(h) = 2 /\ h[1] = g /\ h[2] = f
    BY <1>1, ConcatProperties
  <2>2. k \in Seq(Frames) /\ Len(k) = 2 /\ k[1] = g /\ k[2] = f
    BY <1>1
  <2> HIDE DEF h, k
  <2>3. \A i \in 1 .. Len(h) : h[i] = k[i]
    BY <2>1, <2>2
  <2>4. h = k
    BY <2>1, <2>2, <2>3, SeqEqual
  <2> QED BY <2>4 DEF h, k
<1> QED
  BY <1>1, <1>2, ConcatAssociative

(* The activation g begins.                                                *)
Functions == Requests \cup Switches \cup Scripts \cup Others
Fresh(h, g) ==
  /\ h \in Frames /\ h.fn = g /\ h.step = 1 /\ h.err = "ok" /\ h.old = timing
  /\ h.at = IF g \in Requests \cup Switches THEN "start" ELSE "run"
  /\ Standing(h) /\ ~Firm(h) /\ ~HeldTop(h, "none")

LEMMA FrameFresh ==
  ASSUME TypeOK, NEW g \in Functions
  PROVE  Fresh(Frame(g), g)
<1>1. Frame(g) \in Frames
  <2>1. RetriesOf(g) \in 0 .. CmdRetries + MaxPolls + MaxTuning
    BY RequestAssumption DEF RetriesOf
  <2>2. /\ MaxPolls \in 0 .. CmdRetries + MaxPolls + MaxTuning
        /\ MaxTuning \in 0 .. CmdRetries + MaxPolls + MaxTuning
    BY RequestAssumption
  <2> QED BY <2>1, <2>2 DEF Frame, Frames, Functions, Results, TypeOK
<1>2. g \in Scripts => 1 <= Len(Script(g))
  BY DEF Scripts, Script, SleepScript, AliveScript, HsScript, Hs200Script,
         Hs200ToHs400Script, Hs400ToHs200Script
<1> QED
  BY <1>1, <1>2 DEF Fresh, Frame, Functions, Requests, Switches, Scripts, Others,
                    Standing, Firm, HeldTop, Started

(* The stack as it is: its top, and the caller that waits beneath it.      *)
Bottoms == {"tfr", "sleep", "detect", "hs", "hs200", "start_bkops", "stop_bkops",
            "sdio", "switchSanitize"}
Current ==
  /\ Top \in Frames /\ Below \in Seq(Frames) /\ Standing(Top)
  /\ Acts(stack) = {Top} \cup Acts(Below) /\ Top \in Acts(stack)
  /\ Below # <<>> =>
       /\ Calls(Head(Below), Top.fn) /\ Standing(Head(Below))
       /\ Head(Below) \in Frames
       /\ Acts(Below) = {Head(Below)} \cup Acts(Tail(Below))
       /\ Head(Below) \in Acts(Below)
  /\ Below # <<>> /\ Tail(Below) # <<>> => Calls(Head(Tail(Below)), Head(Below).fn)
  /\ Below # <<>> /\ Tail(Below) = <<>> => Acts(Tail(Below)) = {}
  /\ Below = <<>> => Acts(Below) = {}
  /\ Top.fn \in Bottoms => Below = <<>>
  /\ Top.fn = "mmc_retune" => \A b \in Acts(Below) : Lets(b)
  /\ TopCount(stack, ret) = One(HeldTop(Top, ret)) + Count(Below)
  /\ Count(Below) \in Nat
  /\ \A b \in Acts(Below) : b.at \notin {"start", "host"}

LEMMA CurrentTop ==
  ASSUME TypeOK, StackInv, stack # <<>>
  PROVE  Current
<1>1. stack \in Seq(Frames)
  BY DEF TypeOK
<1>2. OnTop(stack, Top, Below) /\ Top \in Frames /\ Below \in Seq(Frames)
  BY <1>1, TopOnTop DEF Top, Below
<1>3. Below # <<>> => OnTop(Below, Head(Below), Tail(Below)) /\ Head(Below) \in Frames
  BY <1>2, TopOnTop
<1>4. Standing(Top) /\ (Below # <<>> => Standing(Head(Below)))
  BY <1>2, <1>3 DEF StackInv, OnTop
<1>5. Below # <<>> => Calls(Head(Below), Top.fn)
  BY <1>2 DEF StackInv, OnTop
<1>6. Top.fn \in Bottoms => Below = <<>>
  BY <1>5 DEF Calls, Bottoms
<1>7. /\ Below = <<>> => Acts(Below) = {}
      /\ Tail(Below) = <<>> => Acts(Tail(Below)) = {}
  BY EmptyChain
<1>8. Top.fn = "mmc_retune" => \A b \in Acts(Below) : Lets(b)
  BY <1>2 DEF StackInv, OnTop
<1>9. TopCount(stack, ret) = One(HeldTop(Top, ret)) + Count(Below)
  BY DEF TopCount, Top, Below
<1>10. Below # <<>> /\ Tail(Below) # <<>> => Calls(Head(Tail(Below)), Head(Below).fn)
  BY <1>2, <1>3 DEF StackInv, OnTop
<1> QED
  BY <1>2, <1>3, <1>4, <1>5, <1>6, <1>7, <1>8, <1>9, <1>10
     DEF Current, OnTop, StackInv

(* Nobody but the running function holds re-tuning, and so nobody beneath  *)
(* it is firm.                                                             *)
OthersClear == parked = Idle /\ ~bkops /\ \A b \in Acts(Below) : ~Firm(b)

LEMMA NothingHeld ==
  ASSUME TypeOK, StackInv, HoldInv, stack # <<>>, hold <= One(HeldTop(Top, ret))
  PROVE  OthersClear
<1>1. /\ TopCount(stack, ret) = One(HeldTop(Top, ret)) + Count(Below)
      /\ Count(Below) \in Nat /\ Below \in Seq(Frames)
  BY CurrentTop DEF Current
<1>2. /\ Count(Below) = 0 /\ parked = Idle /\ ~bkops
  BY <1>1 DEF HoldInv, One, TypeOK
<1>3. ASSUME NEW b \in Acts(Below) PROVE ~Held(b)
  <2>1. PICK i \in 1 .. Len(Below) : b = Below[i]
    BY <1>3 DEF Acts
  <2>2. IsFiniteSet(1 .. Len(Below))
    BY <1>1, LenProperties, FS_Interval, 1 \in Int, Len(Below) \in Int
  <2>3. IsFiniteSet({k \in 1 .. Len(Below) : Held(Below[k])})
    BY <2>2, FS_Subset
  <2>4. {k \in 1 .. Len(Below) : Held(Below[k])} = {}
    BY <1>2, <2>3, FS_EmptySet DEF Count
  <2> QED BY <2>1, <2>4
<1>4. ASSUME NEW b PROVE Firm(b) => Held(b)
  BY DEF Firm, Held, Started
<1> QED
  BY <1>2, <1>3, <1>4 DEF OthersClear

(* The bounded counter of an activation.                                   *)
LEMMA LeftLess ==
  ASSUME NEW f \in Frames
  PROVE  /\ f.left \in Nat
         /\ f.left # 0 =>
              f.left > 0 /\ f.left - 1 \in 0 .. CmdRetries + MaxPolls + MaxTuning
<1>1. f.left \in 0 .. CmdRetries + MaxPolls + MaxTuning
  BY DEF Frames
<1>2. CmdRetries + MaxPolls + MaxTuning \in Nat
  BY RequestAssumption
<1> QED
  BY <1>1, <1>2

(* The running function goes on as f.                                      *)
Moved(f) ==
  /\ stack' \in Seq(Frames) /\ stack' # <<>> /\ ret' = "none"
  /\ Top' = f /\ Below' = Below
  /\ Acts(stack') = {f} \cup Acts(Below)
  /\ TopCount(stack', ret') = One(HeldTop(f, "none")) + Count(Below)

LEMMA GotoMove ==
  ASSUME TypeOK, StackInv, stack # <<>>, NEW f \in Frames, f.fn = Top.fn, Standing(f),
         f.fn = "start_bkops" => f.step # 3, Goto(f)
  PROVE  Moved(f) /\ StackInv'
<1>1. stack \in Seq(Frames) /\ Below \in Seq(Frames)
  BY TopOnTop DEF TypeOK, Below
<1>2. OnTop(stack, Top, Below) /\ OnTop(stack', f, Below)
  BY <1>1, TopOnTop, ConsOnTop DEF Goto, Top, Below
<1>3. Moved(f)
  BY <1>2 DEF Moved, OnTop, Top, Below, TopCount, Goto
<1>4. \A a \in Acts(stack') : Standing(a)
  BY <1>2 DEF StackInv, OnTop
<1>5. Linked(stack') /\ Guarded(stack')
  BY <1>2 DEF StackInv, OnTop
<1>6. \A b \in Acts(Below') : b.at \notin {"start", "host"}
  BY <1>3 DEF StackInv, Moved
<1> QED
  BY <1>3, <1>4, <1>5, <1>6 DEF StackInv, Moved, Fn, Top, Ready

(* The running function, as f, calls g.                                    *)
Called(f, g) ==
  /\ stack' \in Seq(Frames) /\ stack' # <<>> /\ ret' = "none"
  /\ Fresh(Top', g) /\ Below' # <<>> /\ Head(Below') = f /\ Tail(Below') = Below
  /\ Acts(stack') = {Top', f} \cup Acts(Below) /\ Acts(Below') = {f} \cup Acts(Below)
  /\ TopCount(stack', ret') = One(Held(f)) + Count(Below)

LEMMA CallMove ==
  ASSUME TypeOK, StackInv, stack # <<>>, NEW f \in Frames, f.fn = Top.fn, Standing(f),
         NEW fn, NEW g \in Functions, g = IF fn = "lax" THEN "status" ELSE fn,
         Calls(f, g), CallFrom(f, fn),
         g = "mmc_retune" => Lets(f) /\ \A b \in Acts(Below) : Lets(b)
  PROVE  Called(f, g) /\ StackInv'
<1>1. stack \in Seq(Frames) /\ Below \in Seq(Frames) /\ OnTop(stack, Top, Below)
  BY TopOnTop DEF TypeOK, Top, Below
<1>2. Fresh(Frame(g), g) /\ Frame(g) \in Frames
  BY FrameFresh DEF Fresh
<1>3. OnTop(<<f>> \o Below, f, Below)
  BY <1>1, ConsOnTop
<1>4. stack' = <<Frame(g)>> \o (<<f>> \o Below) /\ ret' = "none"
  BY <1>1, <1>2, TwoOnTop DEF CallFrom
<1>5. OnTop(stack', Frame(g), <<f>> \o Below)
  BY <1>2, <1>3, <1>4, ConsOnTop DEF OnTop
<1>6. Top' = Frame(g) /\ Below' = <<f>> \o Below
  BY <1>5 DEF OnTop, Top, Below
<1>7. TopCount(stack', ret') = One(Held(f)) + Count(Below)
  <2>1. TopCount(stack', ret') = One(HeldTop(Frame(g), "none")) + Count(<<f>> \o Below)
    BY <1>4, <1>5 DEF TopCount, OnTop
  <2>2. One(HeldTop(Frame(g), "none")) = 0
    BY <1>2 DEF Fresh, One
  <2>3. Count(<<f>> \o Below) = Count(Below) + One(Held(f)) /\ Count(Below) \in Nat
    BY <1>3 DEF OnTop
  <2> QED BY <2>1, <2>2, <2>3 DEF One
<1>8. Called(f, g)
  BY <1>2, <1>3, <1>4, <1>5, <1>6, <1>7 DEF Called, OnTop
<1>9. \A a \in Acts(stack') : Standing(a)
  BY <1>1, <1>2, <1>3, <1>5 DEF StackInv, OnTop, Fresh
<1>10. Linked(stack') /\ Guarded(stack')
  BY <1>1, <1>2, <1>3, <1>5 DEF StackInv, OnTop, Fresh
<1>11. ~(Fn({"start_bkops"}) /\ Top.step = 3)'
  BY <1>2, <1>6 DEF Fn, Fresh
<1>12. \A b \in Acts(Below') : b.at \notin {"start", "host"}
  <2>1. f.at \notin {"start", "host"}
    BY DEF Calls, Standing, Requests, Switches, Scripts, Others
  <2> QED BY <1>8, <2>1 DEF StackInv, Called
<1> QED
  BY <1>8, <1>9, <1>10, <1>11, <1>12 DEF StackInv, Called, Ready

(* The running function returns e.                                         *)
Returned(e) ==
  /\ stack' = Below /\ stack' \in Seq(Frames)
  /\ ret' = IF Below = <<>> THEN "none" ELSE e
  /\ TopCount(stack', ret') = Count(Below)
  /\ Below # <<>> => Top' = Head(Below) /\ Below' = Tail(Below)

LEMMA ReturnMove ==
  ASSUME TypeOK, StackInv, stack # <<>>, NEW e \in Results, Return(e)
  PROVE  Returned(e) /\ StackInv'
<1>1. stack \in Seq(Frames) /\ Below \in Seq(Frames) /\ OnTop(stack, Top, Below)
  BY TopOnTop DEF TypeOK, Top, Below
<1>2. Below # <<>> => OnTop(Below, Head(Below), Tail(Below))
  BY <1>1, TopOnTop
<1>3. e # "none"
  BY DEF Results, Errors
<1>4. ASSUME NEW h PROVE HeldTop(h, e) <=> Held(h)
  BY <1>3 DEF HeldTop, Held
<1>5. TopCount(stack', ret') = Count(Below)
  <2>1. CASE Below = <<>>
    BY <2>1, EmptyChain DEF Return, TopCount
  <2>2. CASE Below # <<>>
    <3>1. TopCount(stack', ret') = One(HeldTop(Head(Below), e)) + Count(Tail(Below))
      BY <2>2 DEF Return, TopCount
    <3>2. One(HeldTop(Head(Below), e)) = One(Held(Head(Below)))
      BY <1>4 DEF One
    <3> QED BY <1>2, <2>2, <3>1, <3>2 DEF OnTop, One
  <2> QED BY <2>1, <2>2
<1>6. Returned(e)
  BY <1>1, <1>5 DEF Returned, Return, Top, Below
<1>7. Linked(stack') /\ Guarded(stack') /\ \A a \in Acts(stack') : Standing(a)
  BY <1>1, <1>6 DEF StackInv, OnTop, Returned
<1>8. (stack = <<>> => ret = "none")' /\ (Fn({"start_bkops"}) /\ Top.step = 3 => Back)'
  BY <1>3, <1>6 DEF Returned, Fn, Back
<1>9. stack' # <<>> => \A b \in Acts(Below') : b.at \notin {"start", "host"}
  BY <1>2, <1>6 DEF StackInv, OnTop, Returned
<1>10. stack' # <<>> => Top'.at # "host"
  BY <1>2, <1>6 DEF StackInv, OnTop, Returned
<1> QED
  BY <1>6, <1>7, <1>8, <1>9, <1>10 DEF StackInv

-----------------------------------------------------------------------------
(* One lemma per action: IInv is inductive.                                *)

LEMMA HoldCount ==
  ASSUME IInv, stack # <<>>
  PROVE  /\ hold = One(HeldTop(Top, ret)) + Count(Below) + One(parked # Idle)
                   + One(bkops)
         /\ Count(Below) \in Nat
  BY CurrentTop DEF IInv, HoldInv, Current

(* A return other than that of a re-tune leaves what a re-tune knows about *)
(* the timing.                                                             *)
LEMMA TimingReturn ==
  ASSUME IInv, Current, stack # <<>>, NEW e \in Results, Returned(e), doing' = doing,
         Top.fn # "mmc_retune",
         timing' = timing \/ Top.fn \in {"switchHs", "hs", "hs200"},
         Top.fn = "hs200_to_hs400" /\ e = "ok" => Top.step = 5
  PROVE  TimingInv'
<1>1. CASE Below = <<>>
  BY <1>1, EmptyChain DEF TimingInv, Returned, Fn
<1>2. CASE Below # <<>>
  <2> DEFINE h == Head(Below)
  <2>1. /\ stack' = Below /\ ret' = e /\ Top' = h /\ Below' = Tail(Below)
        /\ e # "none" /\ Calls(h, Top.fn)
        /\ h \in Acts(Below) /\ Acts(Below) = {h} \cup Acts(Tail(Below))
        /\ Tail(Below) # <<>> => Calls(Head(Tail(Below)), h.fn)
        /\ Tail(Below) = <<>> => Acts(Below) = {h}
    BY <1>2 DEF Returned, Current, Results, Errors
  <2>2. h.fn \in Requests => Top.fn \in {"mmc_retune", "hpi"}
    BY <2>1 DEF Calls, Requests, Switches
  <2>3. h.fn = "mmc_retune" => \/ h.step = 1
                               \/ h.step = 2 /\ Top.fn = "execute_tuning"
                               \/ h.step = 3 /\ Top.fn = "hs200_to_hs400"
    BY <2>1 DEF Calls, Requests, Switches
  <2>4. Top.fn = "tuning" => h.fn = "execute_tuning"
    BY <2>1 DEF Calls
  <2>5. Top.fn = "execute_tuning" =>
          h.fn = "mmc_retune" \/ (h.fn = "hs200" /\ Tail(Below) = <<>>)
    BY <2>1 DEF Calls
  <2>6. Tail(Below) # <<>> /\ Head(Tail(Below)).fn = "hs200_to_hs400"
          /\ Head(Tail(Below)).step = 5 => h.fn = "status"
    BY <2>1 DEF Calls, Requests, Switches
  <2>7. timing' = timing \/ ~doing
    <3>1. Top.fn \in {"switchHs", "hs", "hs200"} =>
            h.fn = "hs" /\ Top.fn = "switchHs" /\ Tail(Below) = <<>>
      BY <2>1 DEF Calls
    <3>2. Top.fn \in {"switchHs", "hs", "hs200"} => Acts(stack) = {Top, h}
      BY <2>1, <3>1 DEF Current
    <3> QED BY <3>1, <3>2 DEF IInv, RetuneInv
  <2> HIDE DEF h
  <2>8. doing <=> \E f \in Acts(stack) : f.fn = "mmc_retune"
    BY DEF IInv, RetuneInv
  <2>9. \A f \in Acts(stack) : Restoring(f)
    BY DEF IInv, TimingInv
  <2>10. \A f \in Acts(stack') : Restoring(f)'
    <3> SUFFICES ASSUME NEW f \in Acts(Below), f.fn = "mmc_retune"
                 PROVE  Restoring(f)'
      BY <2>1 DEF Restoring
    <3>1. Restoring(f) /\ doing
      BY <2>8, <2>9 DEF Current
    <3>2. f.step = 2 => h.fn \in {"mmc_retune", "execute_tuning", "tuning"}
      BY <3>1, <2>1, <2>4, <2>5 DEF Restoring
    <3> QED BY <3>1, <3>2, <2>1, <2>7 DEF Restoring, Top
  <2>11. \A f \in Acts(Below') : f.fn = "mmc_retune" /\ f.step = 1 => f.old = "HS400"
    BY <2>1 DEF IInv, TimingInv
  <2>12. h.fn = "mmc_retune" /\ h.step = 1 => h.old = "HS400"
    BY <2>1 DEF IInv, TimingInv
  <2>13. h.fn = "mmc_retune" /\ h.step = 3 /\ ret' = "ok" => timing' = "HS400"
    <3> SUFFICES ASSUME h.fn = "mmc_retune", h.step = 3, e = "ok"
                 PROVE  timing' = "HS400"
      BY <2>1
    <3>1. doing
      BY <2>1, <2>8 DEF Current
    <3> QED BY <2>3, <2>7, <3>1 DEF IInv, TimingInv, Fn
  <2>14. doing /\ h.fn = "hs200_to_hs400" /\ h.step = 5 => timing' = "HS400"
    BY <1>2, <2>7 DEF IInv, TimingInv, h
  <2>15. ~(/\ Tail(Below) # <<>> /\ Head(Tail(Below)).fn = "hs200_to_hs400"
           /\ Head(Tail(Below)).step = 5 /\ doing)
    <3> SUFFICES ASSUME h.fn = "status", doing PROVE FALSE
      BY <2>6
    <3>1. Top.fn = "hpi"
      BY <2>2 DEF Requests
    <3> QED BY <2>1, <3>1 DEF Calls, Requests, Switches
  <2> QED
    BY <2>1, <2>10, <2>11, <2>12, <2>13, <2>14, <2>15 DEF TimingInv, Fn, Ready
<1> QED
  BY <1>1, <1>2

LEMMA TimingGoto ==
  ASSUME IInv, Current, stack # <<>>, NEW f \in Frames, Moved(f), f.fn = Top.fn,
         doing' = doing, timing' = timing,
         Top.fn \in {"mmc_retune", "hs200_to_hs400"} => f = Top /\ Ready
  PROVE  TimingInv'
  BY DEF IInv, TimingInv, Current, Moved, Fn, Restoring, Below, Top, Ready

LEMMA TimingCall ==
  ASSUME IInv, Current, stack # <<>>, NEW f \in Frames, NEW g, Called(f, g),
         f.fn = Top.fn, f.step = Top.step, g # "mmc_retune",
         Top.fn # "mmc_retune", Top.fn # "tuning",
         Top.fn = "execute_tuning" => g = "tuning",
         doing' = doing, timing' = timing
  PROVE  TimingInv'
<1>1. TimingInv
  BY DEF IInv
<1>2. \A a \in Acts(stack') : Restoring(a)'
  BY <1>1 DEF TimingInv, Current, Called, Fresh, Restoring
<1>3. \A a \in Acts(Below') : a.fn = "mmc_retune" /\ a.step = 1 => a.old = "HS400"
  BY <1>1 DEF TimingInv, Called
<1>4. doing /\ f.fn = "hs200_to_hs400" /\ f.step = 5 => timing = "HS400"
  BY <1>1 DEF TimingInv, Fn
<1> QED
  BY <1>2, <1>3, <1>4 DEF TimingInv, Called, Fresh, Fn

LEMMA BkopsReturn ==
  ASSUME IInv, Current, stack # <<>>, NEW e \in Results, Returned(e), bkops' = bkops
  PROVE  BkopsInv'
<1>1. BkopsInv
  BY DEF IInv
<1>2. CASE Below = <<>>
  BY <1>2, EmptyChain DEF BkopsInv, Returned, Fn
<1>3. CASE Below # <<>>
  BY <1>1, <1>3 DEF BkopsInv, Returned, Current, Fn
<1> QED
  BY <1>2, <1>3

LEMMA StepStart ==
  ASSUME IInv, mmc_start_request
  PROVE  IInv'
<1>1. TypeOK /\ StackInv /\ stack # <<>> /\ Top.fn \in Requests /\ Top.at = "start"
  BY DEF IInv, mmc_start_request, Fn, At
<1>2. Current
  BY <1>1, CurrentTop
<1>3. PICK f \in Frames : /\ Goto(f) /\ f.fn = Top.fn
                          /\ \/ f.at = "retune"
                             \/ f.at = "wait" /\ f.err \in {"other", "inval"}
  <2>1. PICK f : /\ Goto(f)
                 /\ \/ f = [Top EXCEPT !.at = "retune"]
                    \/ f = [Top EXCEPT !.at = "wait", !.err = "other"]
                    \/ f = [Top EXCEPT !.at = "wait", !.err = "inval"]
    BY DEF mmc_start_request, GotoAt
  <2>2. Top \in Frames
    BY <1>2 DEF Current
  <2>3. "other" \in Results /\ "inval" \in Results
    BY DEF Results, Errors
  <2> DEFINE a == [Top EXCEPT !.at = "retune"]
             b == [Top EXCEPT !.at = "wait", !.err = "other"]
             c == [Top EXCEPT !.at = "wait", !.err = "inval"]
  <2>4. a \in Frames /\ a.fn = Top.fn /\ a.at = "retune"
    BY <2>2 DEF Frames
  <2>5. b \in Frames /\ b.fn = Top.fn /\ b.at = "wait" /\ b.err = "other"
    BY <2>2, <2>3 DEF Frames
  <2>6. c \in Frames /\ c.fn = Top.fn /\ c.at = "wait" /\ c.err = "inval"
    BY <2>2, <2>3 DEF Frames
  <2>7. f \in {a, b, c}
    BY <2>1
  <2> HIDE DEF a, b, c
  <2> QED BY <2>1, <2>4, <2>5, <2>6, <2>7
<1>4. Standing(f)
  BY <1>1, <1>3 DEF Standing, Requests, Switches, Scripts, Others
<1>5. Moved(f) /\ StackInv'
  BY <1>1, <1>3, <1>4, GotoMove DEF Requests
<1>6. /\ hold' = hold + 1 /\ now' = (hold = 0 \/ now) /\ ~InFlight
      /\ UNCHANGED <<need, doing, can, timing, env>>
  BY DEF mmc_start_request, mmc_retune_hold, mmc_wait_ongoing_tfr_cmd
<1>7. hold = 0 => OthersClear
  BY <1>1, NothingHeld DEF IInv, One
<1>8. TypeOK'
  BY <1>1, <1>2, <1>3, <1>5, <1>6, <1>7 DEF TypeOK, env, Moved
<1>9. RetuneInv'
  BY <1>1, <1>2, <1>3, <1>5, <1>6, <1>7 DEF IInv, RetuneInv, Current, env, InFlight,
     Requests, Switches, Moved
<1>10. HoldInv'
  BY <1>1, <1>2, <1>3, <1>5, <1>6, <1>7, HoldCount DEF HoldInv, env, Held, HeldTop,
     Started, One, Requests, Switches, Moved
<1>11. NowInv'
  BY <1>1, <1>2, <1>3, <1>5, <1>6, <1>7 DEF IInv, NowInv, Current, env, Requests,
     Switches, Firm, Moved, OthersClear
<1>12. FlightInv'
  BY <1>1, <1>2, <1>3, <1>5, <1>6, <1>7 DEF IInv, FlightInv, Current, env, InFlight,
     Requests, Switches, Moved
<1>13. BkopsInv'
  BY <1>1, <1>2, <1>3, <1>5, <1>6, <1>7 DEF IInv, BkopsInv, Current, env, Requests,
     Switches, Fn, Moved
<1>14. TimingInv'
  BY <1>1, <1>2, <1>3, <1>5, <1>6, <1>7, TimingGoto DEF env, Requests, Switches
<1> QED
  BY <1>5, <1>8, <1>9, <1>10, <1>11, <1>12, <1>13, <1>14 DEF IInv

LEMMA StepRetune ==
  ASSUME IInv, mmc_retune
  PROVE  IInv'
<1>1. TypeOK /\ StackInv /\ stack # <<>> /\ Top.fn \in Requests /\ Top.at = "retune"
  BY DEF IInv, mmc_retune, Fn, At
<1>2. Current /\ ret = "none"
  BY <1>1, CurrentTop DEF mmc_retune, Ready
<1>3. now' = FALSE /\ UNCHANGED <<hold, can, timing, env>>
  BY DEF mmc_retune
<1>4. CASE now /\ need /\ ~doing /\ card # "none"
  <2> DEFINE f == [Top EXCEPT !.at = "tuned"]
  <2>1. /\ CallFrom(f, "mmc_retune") /\ doing' = TRUE /\ need' = FALSE
    BY <1>4 DEF mmc_retune
  <2>2. f \in Frames /\ f.fn = Top.fn /\ f.at = "tuned"
    BY <1>2 DEF Current, Frames
  <2> HIDE DEF f
  <2>3. Standing(f) /\ Calls(f, "mmc_retune") /\ Lets(f)
    BY <1>1, <2>2 DEF Standing, Calls, Lets, Requests, Switches, Scripts, Others
  <2>4. ASSUME NEW b \in Acts(Below) PROVE Lets(b)
    <3>1. /\ ~Firm(b) /\ Standing(b) /\ b.at # "start" /\ b.fn # "mmc_retune"
      BY <1>2, <1>4 DEF IInv, NowInv, Current, StackInv, RetuneInv
    <3>2. b.fn = "sleep" => b.step <= 2 /\ b.step \in 1 .. 6
      <4>1. b \in Frames
        BY <1>1, <1>2, ActsFrames DEF Current
      <4> QED BY <3>1, <4>1 DEF Frames, Standing, Scripts, Script, SleepScript
    <3> QED BY <3>1, <3>2 DEF Firm, Lets, Standing
  <2>5. Called(f, "mmc_retune") /\ StackInv'
    BY <1>1, <2>1, <2>2, <2>3, <2>4, CallMove DEF Functions, Others
  <2>6. TypeOK'
    BY <1>1, <1>2, <1>3, <1>4, <2>1, <2>2, <2>5 DEF TypeOK, env, Called, Fresh
  <2>7. RetuneInv'
    BY <1>1, <1>2, <1>3, <1>4, <2>1, <2>2, <2>5 DEF IInv, RetuneInv, Current, env,
       InFlight, Requests, Switches, Called, Fresh, NowInv, Firm, FlightInv,
       Frames
  <2>8. HoldInv'
    BY <1>1, <1>2, <1>3, <1>4, <2>1, <2>2, <2>5, HoldCount DEF HoldInv, env, Held,
       HeldTop, Started, One, Requests, Switches, Called, Fresh
  <2>9. NowInv'
    BY <1>1, <1>2, <1>3, <1>4, <2>1, <2>2, <2>5 DEF IInv, NowInv, Current, env,
       Requests, Switches, Firm, Called, Fresh
  <2>10. FlightInv'
    BY <1>1, <1>2, <1>3, <1>4, <2>1, <2>2, <2>5 DEF IInv, FlightInv, Current, env,
       InFlight, Requests, Switches, Called, Fresh
  <2>11. BkopsInv'
    BY <1>1, <1>2, <1>3, <1>4, <2>1, <2>2, <2>5 DEF IInv, BkopsInv, Current, env,
       Requests, Switches, Fn, Called, Fresh
  <2>12. TimingInv'
    <3>1. \A a \in Acts(Below) : a.fn # "mmc_retune"
      BY <1>2, <1>4 DEF IInv, RetuneInv, Current
    <3>2. /\ Top'.fn = "mmc_retune" /\ Top'.step = 1 /\ Top'.old = timing
          /\ f.fn # "mmc_retune" /\ ret' = "none" /\ timing' = timing
          /\ Acts(stack') = {Top', f} \cup Acts(Below)
          /\ Acts(Below') = {f} \cup Acts(Below)
      BY <1>1, <1>3, <2>2, <2>5 DEF Called, Fresh, Requests
    <3>3. \A a \in Acts(stack') : Restoring(a)'
      BY <3>1, <3>2 DEF Restoring
    <3> QED BY <3>1, <3>2, <3>3 DEF TimingInv, Fn, Ready
  <2> QED
    BY <2>5, <2>6, <2>7, <2>8, <2>9, <2>10, <2>11, <2>12 DEF IInv
<1>5. CASE ~(now /\ need /\ ~doing /\ card # "none")
  <2> DEFINE f == [Top EXCEPT !.at = "issue"]
  <2>1. Goto(f) /\ UNCHANGED <<need, doing>>
    BY <1>5 DEF mmc_retune, GotoAt
  <2>2. f \in Frames /\ f.fn = Top.fn /\ f.at = "issue"
    BY <1>2 DEF Current, Frames
  <2> HIDE DEF f
  <2>3. Standing(f)
    BY <1>1, <2>2 DEF Standing, Requests, Switches, Scripts, Others
  <2>4. Moved(f) /\ StackInv'
    BY <1>1, <2>1, <2>2, <2>3, GotoMove DEF Requests
  <2>5. TypeOK'
    BY <1>1, <1>2, <1>3, <2>1, <2>2, <2>4 DEF TypeOK, env, Moved
  <2>6. RetuneInv'
    BY <1>1, <1>2, <1>3, <2>1, <2>2, <2>4 DEF IInv, RetuneInv, Current, env,
       InFlight, Requests, Switches, Moved
  <2>7. HoldInv'
    BY <1>1, <1>2, <1>3, <2>1, <2>2, <2>4, HoldCount DEF HoldInv, env, Held,
       HeldTop, Started, One, Requests, Switches, Moved
  <2>8. NowInv'
    BY <1>1, <1>2, <1>3, <2>1, <2>2, <2>4 DEF IInv, NowInv, Current, env,
       Requests, Switches, Firm, Moved
  <2>9. FlightInv'
    BY <1>1, <1>2, <1>3, <2>1, <2>2, <2>4 DEF IInv, FlightInv, Current, env,
       InFlight, Requests, Switches, Moved
  <2>10. BkopsInv'
    BY <1>1, <1>2, <1>3, <2>1, <2>2, <2>4 DEF IInv, BkopsInv, Current, env,
       Requests, Switches, Fn, Moved
  <2>11. TimingInv'
    BY <1>1, <1>2, <1>3, <2>1, <2>2, <2>4, TimingGoto DEF env, Requests, Switches
  <2> QED
    BY <2>4, <2>5, <2>6, <2>7, <2>8, <2>9, <2>10, <2>11 DEF IInv
<1> QED BY <1>4, <1>5

(* A request past its start keeps the transfer out of the controller, and  *)
(* no re-tune is due unless it failed before it was issued.                *)
LEMMA StartedFacts ==
  ASSUME IInv, stack # <<>>, Top.fn \in Requests, Top.at # "start"
  PROVE  /\ TypeOK /\ StackInv /\ Current
         /\ ~InFlight
         /\ HeldTop(Top, ret) /\ hold \in Nat /\ hold > 0
         /\ Top.at \in {"tuned", "issue", "host", "hpi"} => ~now
         /\ Top.at = "wait" /\ now => Top.err \in {"other", "inval"}
<1>1. TypeOK /\ StackInv /\ Current
  BY CurrentTop DEF IInv
<1>2. ~InFlight
  BY <1>1 DEF IInv, FlightInv, Current
<1>3. HeldTop(Top, ret) /\ hold \in Nat /\ hold > 0
  <2>1. HeldTop(Top, ret)
    BY DEF HeldTop, Started
  <2> QED BY <1>1, <2>1 DEF IInv, HoldInv, Current, One, TypeOK
<1>4. ~Firm(Top) \/ ~now
  BY <1>1 DEF IInv, NowInv, Current
<1> QED
  BY <1>1, <1>2, <1>3, <1>4 DEF Firm

LEMMA StepRetuneReturned ==
  ASSUME IInv, RetuneReturned
  PROVE  IInv'
<1>1. stack # <<>> /\ Top.fn \in Requests /\ Top.at = "tuned" /\ ret # "none"
  BY DEF RetuneReturned, Fn, At, Back
<1>2. TypeOK /\ StackInv /\ Current /\ ~InFlight /\ HeldTop(Top, ret) /\ ~now
  BY <1>1, StartedFacts
<1>3. UNCHANGED <<hold, now, doing, can, timing, env>>
  BY DEF RetuneReturned
<1>4. need' \in BOOLEAN
  BY <1>2 DEF RetuneReturned, TypeOK, mmc_request_done, mmc_retune_needed
<1>5. PICK f \in Frames : Goto(f) /\ f.fn = Top.fn /\ f.at \in {"issue", "wait"}
  <2>1. PICK f : /\ Goto(f)
                 /\ \/ f = [Top EXCEPT !.at = "issue"]
                    \/ f = [Top EXCEPT !.at = "wait", !.err = ret]
    BY DEF RetuneReturned, GotoAt
  <2>2. ret \in Results /\ Top \in Frames
    BY <1>1, <1>2 DEF TypeOK, Current
  <2>3. f \in Frames /\ f.fn = Top.fn /\ f.at \in {"issue", "wait"}
    BY <2>1, <2>2 DEF Frames
  <2> QED BY <2>1, <2>3
<1>6. Standing(f)
  BY <1>1, <1>5 DEF Standing, Requests, Switches, Scripts, Others
<1>7. Moved(f) /\ StackInv'
  BY <1>1, <1>2, <1>5, <1>6, GotoMove DEF Requests
<1>8. TypeOK'
  BY <1>1, <1>2, <1>3, <1>4, <1>5, <1>7 DEF TypeOK, env, Moved
<1>9. RetuneInv'
  BY <1>1, <1>2, <1>3, <1>4, <1>5, <1>7 DEF IInv, RetuneInv, Current, env, InFlight,
     Requests, Switches, Moved
<1>10. HoldInv'
  BY <1>1, <1>2, <1>3, <1>4, <1>5, <1>7, HoldCount DEF HoldInv, env, Held, HeldTop,
     Started, One, Requests, Switches, Moved
<1>11. NowInv'
  BY <1>1, <1>2, <1>3, <1>4, <1>5, <1>7 DEF IInv, NowInv, Current, env, Requests,
     Switches, Firm, Moved
<1>12. FlightInv'
  BY <1>1, <1>2, <1>3, <1>4, <1>5, <1>7 DEF IInv, FlightInv, Current, env, InFlight,
     Requests, Switches, Moved
<1>13. BkopsInv'
  BY <1>1, <1>2, <1>3, <1>4, <1>5, <1>7 DEF IInv, BkopsInv, Current, env, Requests,
     Switches, Fn, Moved
<1>14. TimingInv'
  BY <1>1, <1>2, <1>3, <1>4, <1>5, <1>7, TimingGoto DEF env, Requests, Switches
<1> QED
  BY <1>7, <1>8, <1>9, <1>10, <1>11, <1>12, <1>13, <1>14 DEF IInv

LEMMA StepIssue ==
  ASSUME IInv, __mmc_start_request
  PROVE  IInv'
<1>1. stack # <<>> /\ Top.fn \in Requests /\ Top.at = "issue" /\ ret = "none"
  BY DEF __mmc_start_request, Fn, At, Ready
<1>2. TypeOK /\ StackInv /\ Current /\ ~InFlight /\ HeldTop(Top, ret) /\ ~now
  BY <1>1, StartedFacts
<1>3. UNCHANGED <<hold, now, need, doing, can, timing, card, bkops, cardBusy>>
  BY DEF __mmc_start_request, tune
<1>4. cqe' \in BOOLEAN
  BY <1>2 DEF __mmc_start_request, TypeOK
<1>5. \/ Top.fn = "tfr" /\ parked' = [Top EXCEPT !.at = "host"] /\ Return("ok")
      \/ /\ parked' = parked
         /\ \E f \in Frames : Goto(f) /\ f.fn = Top.fn /\ f.at \in {"wait", "host"}
  <2>1. /\ [Top EXCEPT !.at = "host"] \in Frames
        /\ [Top EXCEPT !.at = "wait", !.err = "other"] \in Frames
    BY <1>2 DEF Current, Frames, Results, Errors
  <2>2. /\ [Top EXCEPT !.at = "host"].fn = Top.fn
        /\ [Top EXCEPT !.at = "wait", !.err = "other"].fn = Top.fn
        /\ [Top EXCEPT !.at = "host"].at = "host"
        /\ [Top EXCEPT !.at = "wait", !.err = "other"].at = "wait"
    BY <1>2 DEF Current, Frames
  <2> QED BY <2>1, <2>2 DEF __mmc_start_request, GotoAt
<1>6. CASE Top.fn = "tfr" /\ parked' = [Top EXCEPT !.at = "host"] /\ Return("ok")
  <2>1. Below = <<>> /\ Acts(Below) = {} /\ parked = Idle
    BY <1>2, <1>6 DEF Current, Bottoms, IInv, FlightInv
  <2>2. Returned("ok") /\ StackInv'
    BY <1>1, <1>2, <1>6, ReturnMove DEF Results
  <2>3. parked' \in Frames /\ parked'.fn = "tfr" /\ parked'.at = "host"
    BY <1>2, <1>6 DEF Current, Frames
  <2>4. parked' # Idle /\ ~doing /\ ~doing'
    BY <1>2, <1>3, <1>6, <2>1, <2>3 DEF IInv, RetuneInv, Current, Idle
  <2>5. TypeOK'
    BY <1>1, <1>2, <1>3, <1>4, <1>6, <2>1, <2>2, <2>3, <2>4 DEF TypeOK, env, Returned
  <2>6. RetuneInv'
    BY <1>1, <1>2, <1>3, <1>4, <1>6, <2>1, <2>2, <2>3, <2>4 DEF IInv, RetuneInv,
       Current, env, InFlight, Requests, Switches, Returned
  <2>7. HoldInv'
    BY <1>1, <1>2, <1>3, <1>4, <1>6, <2>1, <2>2, <2>3, <2>4, HoldCount DEF
       HoldInv, env, Held, HeldTop, Started, One, Requests, Switches, Returned
  <2>8. NowInv'
    BY <1>1, <1>2, <1>3, <1>4, <1>6, <2>1, <2>2, <2>3, <2>4 DEF IInv, NowInv,
       Current, env, Requests, Switches, Firm, Returned
  <2>9. FlightInv'
    BY <1>1, <1>2, <1>3, <1>4, <1>6, <2>1, <2>2, <2>3, <2>4 DEF IInv, FlightInv,
       Current, env, InFlight, Requests, Switches, Returned
  <2>10. BkopsInv'
    BY <1>1, <1>2, <1>3, <1>4, <1>6, <2>1, <2>2, <2>3, <2>4, BkopsReturn DEF env,
       Results
  <2>11. TimingInv'
    BY <1>1, <1>2, <1>3, <1>4, <1>6, <2>1, <2>2, <2>3, <2>4, TimingReturn DEF env,
       Requests, Results
  <2> QED
    BY <2>2, <2>5, <2>6, <2>7, <2>8, <2>9, <2>10, <2>11 DEF IInv
<1>7. CASE /\ parked' = parked
           /\ \E f \in Frames : Goto(f) /\ f.fn = Top.fn /\ f.at \in {"wait", "host"}
  <2>1. PICK f \in Frames : Goto(f) /\ f.fn = Top.fn /\ f.at \in {"wait", "host"}
    BY <1>7
  <2>2. Standing(f)
    BY <1>1, <2>1 DEF Standing, Requests, Switches, Scripts, Others
  <2>3. Moved(f) /\ StackInv'
    BY <1>1, <1>2, <2>1, <2>2, GotoMove DEF Requests
  <2>4. TypeOK'
    BY <1>1, <1>2, <1>3, <1>4, <1>7, <2>1, <2>3 DEF TypeOK, env, Moved
  <2>5. RetuneInv'
    BY <1>1, <1>2, <1>3, <1>4, <1>7, <2>1, <2>3 DEF IInv, RetuneInv, Current, env,
       InFlight, Requests, Switches, Moved
  <2>6. HoldInv'
    BY <1>1, <1>2, <1>3, <1>4, <1>7, <2>1, <2>3, HoldCount DEF HoldInv, env, Held,
       HeldTop, Started, One, Requests, Switches, Moved
  <2>7. NowInv'
    BY <1>1, <1>2, <1>3, <1>4, <1>7, <2>1, <2>3 DEF IInv, NowInv, Current, env,
       Requests, Switches, Firm, Moved
  <2>8. FlightInv'
    BY <1>1, <1>2, <1>3, <1>4, <1>7, <2>1, <2>3 DEF IInv, FlightInv, Current, env,
       InFlight, Requests, Switches, Moved
  <2>9. BkopsInv'
    BY <1>1, <1>2, <1>3, <1>4, <1>7, <2>1, <2>3 DEF IInv, BkopsInv, Current, env,
       Requests, Switches, Fn, Moved
  <2>10. TimingInv'
    BY <1>1, <1>2, <1>3, <1>4, <1>7, <2>1, <2>3, TimingGoto DEF env, Requests,
       Switches
  <2> QED
    BY <2>3, <2>4, <2>5, <2>6, <2>7, <2>8, <2>9, <2>10 DEF IInv
<1> QED BY <1>5, <1>6, <1>7

LEMMA StepHostDone ==
  ASSUME IInv, HostDone
  PROVE  IInv'
<1>1. UNCHANGED <<ret, hold, now, doing, can, timing, card, bkops, cqe, cardBusy>>
  BY DEF HostDone
<1>2. TypeOK /\ need' \in BOOLEAN
  BY DEF IInv, TypeOK, HostDone, mmc_request_done, mmc_retune_needed
<1>3. PICK e \in {"ok", "crc", "timeout"} :
        \/ /\ stack # <<>> /\ Top.at = "host" /\ parked' = parked
           /\ stack' = <<[Top EXCEPT !.at = "wait", !.err = e]>> \o Below
        \/ /\ InFlight /\ stack' = stack
           /\ parked' = [parked EXCEPT !.at = "wait", !.err = e]
  BY DEF HostDone
<1>4. CASE /\ stack # <<>> /\ Top.at = "host" /\ parked' = parked
           /\ stack' = <<[Top EXCEPT !.at = "wait", !.err = e]>> \o Below
  <2> DEFINE f == [Top EXCEPT !.at = "wait", !.err = e]
  <2>1. Current /\ StackInv /\ ret = "none"
    BY <1>2, <1>4, CurrentTop DEF IInv, StackInv, Ready
  <2>2. f \in Frames /\ f.fn = Top.fn /\ f.at = "wait" /\ Goto(f)
    BY <1>1, <1>3, <1>4, <2>1 DEF Current, Frames, Goto, Results, Errors
  <2> HIDE DEF f
  <2>3. Top.fn \in Requests
    BY <1>4, <2>1 DEF Current, Standing, Frames
  <2>4. ~InFlight /\ HeldTop(Top, ret) /\ ~now
    BY <1>4, <2>3, StartedFacts
  <2>5. Standing(f)
    BY <2>2, <2>3 DEF Standing, Requests, Switches, Scripts, Others
  <2>6. Moved(f) /\ StackInv'
    BY <1>2, <1>4, <2>1, <2>2, <2>3, <2>5, GotoMove DEF Requests
  <2>7. TypeOK'
    BY <1>1, <1>2, <1>4, <2>1, <2>2, <2>3, <2>4, <2>6 DEF TypeOK, env, Moved
  <2>8. RetuneInv'
    BY <1>1, <1>2, <1>4, <2>1, <2>2, <2>3, <2>4, <2>6 DEF IInv, RetuneInv,
       Current, env, InFlight, Requests, Switches, Moved
  <2>9. HoldInv'
    BY <1>1, <1>2, <1>4, <2>1, <2>2, <2>3, <2>4, <2>6, HoldCount DEF HoldInv, env,
       Held, HeldTop, Started, One, Requests, Switches, Moved
  <2>10. NowInv'
    BY <1>1, <1>2, <1>4, <2>1, <2>2, <2>3, <2>4, <2>6 DEF IInv, NowInv, Current,
       env, Requests, Switches, Firm, Moved
  <2>11. FlightInv'
    BY <1>1, <1>2, <1>4, <2>1, <2>2, <2>3, <2>4, <2>6 DEF IInv, FlightInv,
       Current, env, InFlight, Requests, Switches, Moved
  <2>12. BkopsInv'
    BY <1>1, <1>2, <1>4, <2>1, <2>2, <2>3, <2>4, <2>6 DEF IInv, BkopsInv, Current,
       env, Requests, Switches, Fn, Moved
  <2>13. TimingInv'
    BY <1>1, <1>2, <1>4, <2>1, <2>2, <2>3, <2>4, <2>6, TimingGoto DEF env,
       Requests, Switches
  <2> QED
    BY <2>6, <2>7, <2>8, <2>9, <2>10, <2>11, <2>12, <2>13 DEF IInv
<1>5. CASE /\ InFlight /\ stack' = stack
           /\ parked' = [parked EXCEPT !.at = "wait", !.err = e]
  <2>1. parked \in Frames /\ parked.fn = "tfr" /\ parked # Idle /\ ~now
    BY <1>2, <1>5 DEF TypeOK, InFlight, IInv, NowInv, Firm, Idle, Requests
  <2>2. /\ parked' \in Frames /\ parked'.fn = "tfr" /\ parked'.at = "wait"
        /\ parked' # Idle
    BY <1>3, <1>5, <2>1 DEF Frames, Idle, Results, Errors
  <2>3. StackInv'
    BY <1>1, <1>5 DEF IInv, StackInv, Top, Below, Fn, Ready, Back
  <2>4. TypeOK'
    BY <1>1, <1>2, <1>5, <2>1, <2>2 DEF TypeOK, env, Top, Below, Fn, Ready, Back
  <2>5. RetuneInv'
    BY <1>1, <1>2, <1>5, <2>1, <2>2 DEF IInv, RetuneInv, Current, env, InFlight,
       Requests, Switches, Top, Below, Fn, Ready, Back
  <2>6. HoldInv'
    BY <1>1, <1>2, <1>5, <2>1, <2>2 DEF HoldInv, env, Held, HeldTop, Started, One,
       Requests, Switches, Top, Below, Fn, Ready, Back, IInv
  <2>7. NowInv'
    BY <1>1, <1>2, <1>5, <2>1, <2>2 DEF IInv, NowInv, Current, env, Requests,
       Switches, Firm, Top, Below, Fn, Ready, Back
  <2>8. FlightInv'
    BY <1>1, <1>2, <1>5, <2>1, <2>2 DEF IInv, FlightInv, Current, env, InFlight,
       Requests, Switches, Top, Below, Fn, Ready, Back
  <2>9. BkopsInv'
    BY <1>1, <1>2, <1>5, <2>1, <2>2 DEF IInv, BkopsInv, Current, env, Requests,
       Switches, Fn, Top, Below, Ready, Back
  <2>10. TimingInv'
    BY <1>1, <1>2, <1>5, <2>1, <2>2 DEF IInv, TimingInv, Current, env, Requests,
       Fn, Restoring, Below, Top, Ready, Back
  <2> QED
    BY <2>3, <2>4, <2>5, <2>6, <2>7, <2>8, <2>9, <2>10 DEF IInv
<1> QED BY <1>3, <1>4, <1>5

LEMMA StepCommandAnswered ==
  ASSUME IInv, CommandAnswered
  PROVE  IInv'
<1>1. /\ UNCHANGED <<stack, ret, hold, now, need, doing, can, timing, card, bkops, cqe,
                     cardBusy>>
      /\ InFlight /\ parked' = [parked EXCEPT !.step = 3] /\ TypeOK
  BY DEF CommandAnswered, tune, IInv
<1>2. parked \in Frames /\ parked.fn = "tfr" /\ parked # Idle
  BY <1>1 DEF TypeOK, InFlight, Idle
<1>3. /\ parked' \in Frames /\ parked'.fn = "tfr" /\ parked'.at = parked.at
      /\ parked'.err = parked.err /\ parked' # Idle
  BY <1>1, <1>2 DEF Frames, Idle
<1>4. StackInv'
  BY <1>1 DEF IInv, StackInv, Top, Below, Fn, Ready, Back
<1>5. TypeOK'
  BY <1>1, <1>3 DEF TypeOK
<1>6. InFlight' /\ (Firm(parked)' <=> Firm(parked)) /\ Idle' = Idle
  BY <1>1, <1>2, <1>3 DEF InFlight, Firm, Idle, Requests, Switches
<1>7. RetuneInv' /\ HoldInv'
  BY <1>1, <1>2, <1>3, <1>6 DEF IInv, RetuneInv, HoldInv
<1>8. NowInv' /\ FlightInv' /\ BkopsInv'
  BY <1>1, <1>2, <1>3, <1>6
  DEF IInv, NowInv, FlightInv, BkopsInv, Top, Below, Fn, Ready, Back
<1>9. TimingInv'
  BY <1>1 DEF IInv, TimingInv, Restoring, Top, Below, Fn, Ready
<1> QED
  BY <1>4, <1>5, <1>7, <1>8, <1>9 DEF IInv

LEMMA StepParkFailed ==
  ASSUME IInv, ParkFailedTransfer
  PROVE  IInv'
<1>1. /\ stack # <<>> /\ Top.fn = "tfr" /\ Top.fn \in Requests /\ Top.at = "wait"
      /\ ret = "none"
  BY DEF ParkFailedTransfer, Fn, At, Ready, Requests
<1>2. TypeOK /\ StackInv /\ Current /\ ~InFlight /\ HeldTop(Top, ret)
  BY <1>1, StartedFacts
<1>3. /\ UNCHANGED <<hold, now, need, doing, can, timing, card, bkops, cqe, cardBusy>>
      /\ parked' = Top /\ Return("ok")
  BY DEF ParkFailedTransfer, tune
<1>4. Below = <<>> /\ Acts(Below) = {} /\ parked = Idle
  BY <1>1, <1>2 DEF Current, Bottoms, IInv, FlightInv
<1>5. Returned("ok") /\ StackInv'
  BY <1>1, <1>2, <1>3, ReturnMove DEF Results
<1>6. parked' # Idle /\ ~doing /\ parked' \in Frames
  BY <1>1, <1>2, <1>3, <1>4 DEF IInv, RetuneInv, Current, Idle
<1>7. TypeOK'
  BY <1>1, <1>2, <1>3, <1>4, <1>5, <1>6 DEF TypeOK, env, Returned
<1>8. RetuneInv'
  BY <1>1, <1>2, <1>3, <1>4, <1>5, <1>6 DEF IInv, RetuneInv, Current, env, InFlight,
     Requests, Switches, Returned
<1>9. HoldInv'
  BY <1>1, <1>2, <1>3, <1>4, <1>5, <1>6, HoldCount DEF HoldInv, env, Held, HeldTop,
     Started, One, Requests, Switches, Returned
<1>10. NowInv'
  BY <1>1, <1>2, <1>3, <1>4, <1>5, <1>6 DEF IInv, NowInv, Current, env, Requests,
     Switches, Firm, Returned
<1>11. FlightInv'
  BY <1>1, <1>2, <1>3, <1>4, <1>5, <1>6 DEF IInv, FlightInv, Current, env, InFlight,
     Requests, Switches, Returned
<1>12. BkopsInv'
  BY <1>1, <1>2, <1>3, <1>4, <1>5, <1>6, BkopsReturn DEF env, Results
<1>13. TimingInv'
  BY <1>1, <1>2, <1>3, <1>4, <1>5, <1>6, TimingReturn DEF env, Requests, Results
<1> QED
  BY <1>5, <1>7, <1>8, <1>9, <1>10, <1>11, <1>12, <1>13 DEF IInv

(* The end of mmc_wait_for_req_done: the hold goes back once, or stays for *)
(* another attempt.                                                        *)
LEMMA StepRetryOrReturn ==
  ASSUME IInv, stack # <<>>, Top.fn \in Requests, Top.at \in {"wait", "hpi"},
         now => Top.err \in {"other", "inval"},
         RetryOrReturn(Top) \/ (mmc_retune_release /\ Return("ok") /\ ~now),
         UNCHANGED <<need, doing, can, timing, env>>
  PROVE  IInv'
<1>1. /\ TypeOK /\ StackInv /\ Current /\ ~InFlight /\ HeldTop(Top, ret)
      /\ hold \in Nat /\ hold > 0
  BY StartedFacts
<1>2. CASE \E e \in Results : mmc_retune_release /\ Return(e)
                              /\ (now => e \in {"other", "inval"})
  <2>1. PICK e \in Results : mmc_retune_release /\ Return(e)
                             /\ (now => e \in {"other", "inval"})
    BY <1>2
  <2>2. Returned(e) /\ StackInv' /\ hold' = hold - 1 /\ now' = now
    BY <1>1, <2>1, ReturnMove DEF mmc_retune_release
  <2>3. TypeOK'
    BY <1>1, <2>1, <2>2 DEF TypeOK, env, Returned
  <2>4. RetuneInv'
    BY <1>1, <2>1, <2>2 DEF IInv, RetuneInv, Current, env, InFlight, Requests,
       Switches, Returned
  <2>5. HoldInv'
    BY <1>1, <2>1, <2>2, HoldCount DEF HoldInv, env, Held, HeldTop, Started, One,
       Requests, Switches, Returned
  <2>6. NowInv'
    BY <1>1, <2>1, <2>2 DEF IInv, NowInv, Current, env, Requests, Switches, Firm,
       Returned
  <2>7. FlightInv'
    BY <1>1, <2>1, <2>2 DEF IInv, FlightInv, Current, env, InFlight, Requests,
       Switches, Returned
  <2>8. BkopsInv'
    BY <1>1, <2>1, <2>2, BkopsReturn DEF env, Results
  <2>9. TimingInv'
    BY <1>1, <2>1, <2>2, TimingReturn DEF env, Requests, Results
  <2> QED
    BY <2>2, <2>3, <2>4, <2>5, <2>6, <2>7, <2>8, <2>9 DEF IInv
<1>3. CASE /\ mmc_retune_recheck /\ hold' = hold /\ Top.left # 0
           /\ Goto([Top EXCEPT !.at = "retune", !.left = @ - 1, !.err = "ok"])
  <2> DEFINE f == [Top EXCEPT !.at = "retune", !.left = @ - 1, !.err = "ok"]
  <2>1. f \in Frames /\ f.fn = Top.fn /\ f.at = "retune"
    BY <1>1, <1>3, LeftLess DEF Current, Frames, Results
  <2> HIDE DEF f
  <2>2. Standing(f)
    BY <2>1 DEF Standing, Requests, Switches, Scripts, Others
  <2>3. Moved(f) /\ StackInv'
    BY <1>1, <1>3, <2>1, <2>2, GotoMove DEF f, Requests
  <2>4. hold <= 1 => OthersClear
    BY <1>1, NothingHeld DEF IInv, One
  <2>5. now' = (now \/ hold <= 1)
    BY <1>3 DEF mmc_retune_recheck
  <2>6. TypeOK'
    BY <1>1, <1>3, <2>1, <2>3, <2>4, <2>5 DEF TypeOK, env, Moved
  <2>7. RetuneInv'
    BY <1>1, <1>3, <2>1, <2>3, <2>4, <2>5 DEF IInv, RetuneInv, Current, env,
       InFlight, Requests, Switches, Moved
  <2>8. HoldInv'
    BY <1>1, <1>3, <2>1, <2>3, <2>4, <2>5, HoldCount DEF HoldInv, env, Held,
       HeldTop, Started, One, Requests, Switches, Moved
  <2>9. NowInv'
    BY <1>1, <1>3, <2>1, <2>3, <2>4, <2>5 DEF IInv, NowInv, Current, env,
       Requests, Switches, Firm, Moved, OthersClear
  <2>10. FlightInv'
    BY <1>1, <1>3, <2>1, <2>3, <2>4, <2>5 DEF IInv, FlightInv, Current, env,
       InFlight, Requests, Switches, Moved
  <2>11. BkopsInv'
    BY <1>1, <1>3, <2>1, <2>3, <2>4, <2>5 DEF IInv, BkopsInv, Current, env,
       Requests, Switches, Fn, Moved
  <2>12. TimingInv'
    BY <1>1, <1>3, <2>1, <2>3, <2>4, <2>5, TimingGoto DEF env, Requests, Switches
  <2> QED
    BY <2>3, <2>6, <2>7, <2>8, <2>9, <2>10, <2>11, <2>12 DEF IInv
<1> QED
  <2>1. Top.err \in Results
    BY <1>1 DEF Current, Frames
  <2> QED BY <1>2, <1>3, <2>1 DEF RetryOrReturn, Results

LEMMA StepWaitDone ==
  ASSUME IInv, mmc_wait_for_req_done
  PROVE  IInv'
<1>1. /\ stack # <<>> /\ Top.fn \in Requests /\ Top.at = "wait" /\ ret = "none"
      /\ UNCHANGED <<need, doing, can, timing, env>>
  BY DEF mmc_wait_for_req_done, Fn, At, Ready
<1>2. /\ TypeOK /\ StackInv /\ Current /\ ~InFlight /\ HeldTop(Top, ret)
      /\ now => Top.err \in {"other", "inval"}
  BY <1>1, StartedFacts
<1>3. CASE Top.fn = "sanitize" /\ Top.err = "timeout"
  <2> DEFINE f == [Top EXCEPT !.at = "hpi"]
  <2>1. CallFrom(f, "hpi") /\ UNCHANGED <<hold, now>> /\ ~now
    BY <1>2, <1>3 DEF mmc_wait_for_req_done
  <2>2. f \in Frames /\ f.fn = Top.fn /\ f.at = "hpi" /\ f.step = Top.step
    BY <1>2 DEF Current, Frames
  <2> HIDE DEF f
  <2>3. Standing(f) /\ Calls(f, "hpi")
    BY <1>1, <1>3, <2>2 DEF Standing, Calls, Requests, Switches, Scripts, Others
  <2>4. Called(f, "hpi") /\ StackInv'
    BY <1>1, <1>2, <2>1, <2>2, <2>3, CallMove DEF Functions, Others
  <2>5. TypeOK'
    BY <1>1, <1>2, <1>3, <2>1, <2>2, <2>4 DEF TypeOK, env, Called, Fresh
  <2>6. RetuneInv'
    BY <1>1, <1>2, <1>3, <2>1, <2>2, <2>4 DEF IInv, RetuneInv, Current, env,
       InFlight, Requests, Switches, Called, Fresh
  <2>7. HoldInv'
    BY <1>1, <1>2, <1>3, <2>1, <2>2, <2>4, HoldCount DEF HoldInv, env, Held,
       HeldTop, Started, One, Requests, Switches, Called, Fresh
  <2>8. NowInv'
    BY <1>1, <1>2, <1>3, <2>1, <2>2, <2>4 DEF IInv, NowInv, Current, env,
       Requests, Switches, Firm, Called, Fresh
  <2>9. FlightInv'
    BY <1>1, <1>2, <1>3, <2>1, <2>2, <2>4 DEF IInv, FlightInv, Current, env,
       InFlight, Requests, Switches, Called, Fresh
  <2>10. BkopsInv'
    BY <1>1, <1>2, <1>3, <2>1, <2>2, <2>4 DEF IInv, BkopsInv, Current, env,
       Requests, Switches, Fn, Called, Fresh
  <2>11. TimingInv'
    BY <1>1, <1>2, <1>3, <2>1, <2>2, <2>4, TimingCall DEF env, Requests, Switches
  <2> QED
    BY <2>4, <2>5, <2>6, <2>7, <2>8, <2>9, <2>10, <2>11 DEF IInv
<1>4. CASE ~(Top.fn = "sanitize" /\ Top.err = "timeout")
  BY <1>1, <1>2, <1>4, StepRetryOrReturn DEF mmc_wait_for_req_done
<1> QED BY <1>3, <1>4

LEMMA StepSanitize ==
  ASSUME IInv, SanitizeInterrupted
  PROVE  IInv'
<1>1. /\ stack # <<>> /\ Top.fn \in Requests /\ Top.at = "hpi"
      /\ UNCHANGED <<need, doing, can, timing, env>>
  BY DEF SanitizeInterrupted, Fn, At, Requests
<1>2. ~now
  BY <1>1, StartedFacts
<1> QED
  BY <1>1, <1>2, StepRetryOrReturn DEF SanitizeInterrupted

(* A switch past its start holds re-tuning, and is firm once its command   *)
(* is through; the activations that set the timing run outside a re-tune.  *)
LEMMA SwitchFacts ==
  ASSUME IInv, stack # <<>>, Top.fn \in Switches
  PROVE  /\ TypeOK /\ StackInv /\ Current
         /\ Top.at # "start" => HeldTop(Top, ret) /\ hold > 0
         /\ hold \in Nat
         /\ Top.at \in {"poll", "status"} => ~now
<1>1. TypeOK /\ StackInv /\ Current
  BY CurrentTop DEF IInv
<1>2. Top.at # "start" => HeldTop(Top, ret)
  BY DEF HeldTop, Started
<1>3. hold \in Nat /\ (HeldTop(Top, ret) => hold > 0)
  BY HoldCount DEF One, IInv, TypeOK
<1>4. ~Firm(Top) \/ ~now
  BY <1>1 DEF IInv, NowInv, Current
<1> QED
  BY <1>1, <1>2, <1>3, <1>4 DEF Firm

LEMMA Calm ==
  ASSUME IInv, stack # <<>>, Top.fn \in Bottoms \cup {"switchHs"}
  PROVE  ~doing
<1>1. Current
  BY CurrentTop DEF IInv
<1>2. CASE Below = <<>>
  <2>1. Acts(stack) = {Top}
    BY <1>1, <1>2 DEF Current
  <2> QED BY <2>1 DEF IInv, RetuneInv, Bottoms
<1>3. CASE Below # <<>>
  <2>1. Calls(Head(Below), Top.fn) /\ Top.fn = "switchHs"
    BY <1>1, <1>3 DEF Current
  <2>2. Head(Below).fn = "hs"
    BY <2>1 DEF Calls
  <2>3. Tail(Below) = <<>>
    BY <1>1, <1>3, <2>2 DEF Current, Calls
  <2>4. Acts(stack) = {Top, Head(Below)}
    BY <1>1, <1>3, <2>3 DEF Current
  <2> QED BY <2>1, <2>2, <2>4 DEF IInv, RetuneInv
<1> QED
  BY <1>2, <1>3

(* How a switch ends.                                                      *)
LEMMA StepSwitchReturn ==
  ASSUME IInv, stack # <<>>, Top.fn \in Switches, Top.at # "start",
         NEW e \in Results, SwitchReturn(e), now => e \in {"other", "inval"},
         timing' \in Timings, timing' = timing \/ Top.fn = "switchHs",
         UNCHANGED <<need, doing, can, env>>
  PROVE  IInv'
<1>1. TypeOK /\ StackInv /\ Current /\ HeldTop(Top, ret) /\ hold \in Nat /\ hold > 0
  BY SwitchFacts
<1>2. /\ Returned(e) /\ StackInv' /\ hold' = hold - 1 /\ now' = now
      /\ UNCHANGED <<need, doing, can, env>>
  BY <1>1, ReturnMove DEF SwitchReturn, mmc_retune_release
<1>3. TypeOK'
  BY <1>1, <1>2 DEF TypeOK, env, Returned
<1>4. RetuneInv'
  BY <1>1, <1>2 DEF IInv, RetuneInv, Current, env, InFlight, Requests, Switches,
     Returned
<1>5. HoldInv'
  BY <1>1, <1>2, HoldCount DEF HoldInv, env, Held, HeldTop, Started, One, Requests,
     Switches, Returned
<1>6. NowInv'
  BY <1>1, <1>2 DEF IInv, NowInv, Current, env, Requests, Switches, Firm, Returned
<1>7. FlightInv'
  BY <1>1, <1>2 DEF IInv, FlightInv, Current, env, InFlight, Requests, Switches,
     Returned
<1>8. BkopsInv'
  BY <1>1, <1>2, BkopsReturn DEF env, Results
<1>9. TimingInv'
  BY <1>1, <1>2, TimingReturn DEF env, Requests, Results, Switches
<1> QED
  BY <1>2, <1>3, <1>4, <1>5, <1>6, <1>7, <1>8, <1>9 DEF IInv

(* A switch asks for the status of the card.                               *)
LEMMA StepSwitchCall ==
  ASSUME IInv, stack # <<>>, Top.fn \in Switches, Top.at \in {"cmd", "poll"}, ~now,
         NEW f \in Frames, f.fn = Top.fn, f.at \in {"poll", "status"},
         CallFrom(f, "status"), timing' \in Timings,
         timing' = timing \/ Top.fn = "switchHs",
         UNCHANGED <<hold, now, need, doing, can, env>>
  PROVE  IInv'
<1>1. TypeOK /\ StackInv /\ Current /\ HeldTop(Top, ret) /\ hold \in Nat
  BY SwitchFacts
<1>2. Standing(f) /\ Calls(f, "status")
  BY DEF Standing, Calls, Requests, Switches, Scripts, Others
<1>3. Called(f, "status") /\ StackInv'
  BY <1>1, <1>2, CallMove DEF Functions, Requests
<1>4. Top.fn = "switchHs" => ~doing
  BY Calm
<1>5. UNCHANGED <<hold, now, need, doing, can, env>>
  OBVIOUS
<1>6. TypeOK'
  BY <1>1, <1>3, <1>4, <1>5 DEF TypeOK, env, Called, Fresh
<1>7. RetuneInv'
  BY <1>1, <1>3, <1>4, <1>5 DEF IInv, RetuneInv, Current, env, InFlight, Requests,
     Switches, Called, Fresh
<1>8. HoldInv'
  BY <1>1, <1>3, <1>4, <1>5, HoldCount DEF HoldInv, env, Held, HeldTop, Started,
     One, Requests, Switches, Called, Fresh
<1>9. NowInv'
  BY <1>1, <1>3, <1>4, <1>5 DEF IInv, NowInv, Current, env, Requests, Switches,
     Firm, Called, Fresh
<1>10. FlightInv'
  BY <1>1, <1>3, <1>4, <1>5 DEF IInv, FlightInv, Current, env, InFlight, Requests,
     Switches, Called, Fresh
<1>11. BkopsInv'
  <2>1. Top'.fn \notin {"start_bkops", "stop_bkops"}
        /\ f.fn \notin {"start_bkops", "stop_bkops"}
    BY <1>3 DEF Called, Fresh, Switches
  <2>2. /\ Acts(stack') = {Top', f} \cup Acts(Below)
        /\ Acts(Below') = {f} \cup Acts(Below)
    BY <1>3 DEF Called
  <2>3. Acts(Below) \subseteq Acts(stack) /\ bkops' = bkops
    BY <1>1, <1>5 DEF Current, env
  <2> QED BY <2>1, <2>2, <2>3 DEF IInv, BkopsInv, Fn
<1>12. TimingInv'
  <2>1. CASE ~doing
    <3>1. \A a \in Acts(stack') : a.fn # "mmc_retune"
      BY <1>1, <1>3, <2>1 DEF IInv, RetuneInv, Called, Fresh, Current, Switches
    <3> QED
      BY <1>3, <1>5, <2>1, <3>1 DEF TimingInv, Called, Fn, Restoring
  <2>2. CASE timing' = timing
    BY <1>1, <1>3, <1>5, <2>2 DEF IInv, TimingInv, Current, Switches, Fn, Restoring,
       Below, Top, Called, Fresh
  <2> QED BY <1>4, <2>1, <2>2
<1> QED
  BY <1>3, <1>6, <1>7, <1>8, <1>9, <1>10, <1>11, <1>12 DEF IInv

(* A switch goes on to poll.                                               *)
LEMMA StepSwitchPoll ==
  ASSUME IInv, stack # <<>>, Top.fn \in Switches, Top.at \in {"cmd", "poll"}, ~now,
         NEW f \in Frames, f.fn = Top.fn, f.at = "poll", Goto(f),
         UNCHANGED <<hold, now, need, doing, can, timing, env>>
  PROVE  IInv'
<1>1. TypeOK /\ StackInv /\ Current /\ HeldTop(Top, ret) /\ hold \in Nat
  BY SwitchFacts
<1>2. Standing(f)
  BY DEF Standing, Requests, Switches, Scripts, Others
<1>3. Moved(f) /\ StackInv'
  BY <1>1, <1>2, GotoMove DEF Switches
<1>4. UNCHANGED <<hold, now, need, doing, can, timing, env>>
  OBVIOUS
<1>5. TypeOK'
  BY <1>1, <1>3, <1>4 DEF TypeOK, env, Moved
<1>6. RetuneInv'
  BY <1>1, <1>3, <1>4 DEF IInv, RetuneInv, Current, env, InFlight, Requests,
     Switches, Moved
<1>7. HoldInv'
  BY <1>1, <1>3, <1>4, HoldCount DEF HoldInv, env, Held, HeldTop, Started, One,
     Requests, Switches, Moved
<1>8. NowInv'
  BY <1>1, <1>3, <1>4 DEF IInv, NowInv, Current, env, Requests, Switches, Firm, Moved
<1>9. FlightInv'
  BY <1>1, <1>3, <1>4 DEF IInv, FlightInv, Current, env, InFlight, Requests,
     Switches, Moved
<1>10. BkopsInv'
  BY <1>1, <1>3, <1>4 DEF IInv, BkopsInv, Current, env, Requests, Switches, Fn, Moved
<1>11. TimingInv'
  BY <1>1, <1>3, <1>4, TimingGoto DEF env, Requests, Switches
<1> QED
  BY <1>3, <1>5, <1>6, <1>7, <1>8, <1>9, <1>10, <1>11 DEF IInv

LEMMA StepSwitchStart ==
  ASSUME IInv, SwitchStart
  PROVE  IInv'
<1>1. stack # <<>> /\ Top.fn \in Switches /\ Top.at = "start"
  BY DEF SwitchStart, Fn, At
<1>2. TypeOK /\ StackInv /\ Current /\ hold \in Nat /\ ~HeldTop(Top, ret)
  BY <1>1, SwitchFacts DEF HeldTop, Started, Switches
<1>3. /\ hold' = hold + 1 /\ now' = (hold = 0 \/ now)
      /\ UNCHANGED <<need, doing, can, timing, env>>
  BY DEF SwitchStart, mmc_retune_hold
<1> DEFINE f == [Top EXCEPT !.at = "cmd"]
           g == IF Top.fn = "switchSanitize" THEN "sanitize" ELSE "cmd6"
<1>4. CallFrom(f, g)
  BY DEF SwitchStart
<1>5. f \in Frames /\ f.fn = Top.fn /\ f.at = "cmd" /\ f.step = Top.step
  BY <1>2 DEF Current, Frames
<1>6. g \in {"sanitize", "cmd6"}
  OBVIOUS
<1> HIDE DEF f, g
<1>7. Standing(f) /\ Calls(f, g)
  BY <1>1, <1>5, <1>6 DEF Standing, Calls, Requests, Switches, Scripts, Others
<1>8. Called(f, g) /\ StackInv'
  BY <1>1, <1>2, <1>4, <1>5, <1>6, <1>7, CallMove DEF Functions, Requests
<1>9. hold = 0 => OthersClear
  BY <1>1, <1>2, NothingHeld DEF IInv, One
<1>10. TypeOK'
  BY <1>1, <1>2, <1>3, <1>5, <1>6, <1>8, <1>9 DEF TypeOK, env, Called, Fresh
<1>11. RetuneInv'
  BY <1>1, <1>2, <1>3, <1>5, <1>6, <1>8, <1>9 DEF IInv, RetuneInv, Current, env,
     InFlight, Requests, Switches, Called, Fresh
<1>12. HoldInv'
  <2>1. Held(f) /\ ~HeldTop(Top, ret)
    BY <1>1, <1>2, <1>5 DEF Held, Started
  <2>2. hold = Count(Below) + One(parked # Idle) + One(bkops) /\ Count(Below) \in Nat
    BY <1>1, <2>1, HoldCount DEF One
  <2>3. TopCount(stack', ret') = 1 + Count(Below)
    BY <1>8, <2>1 DEF Called, One
  <2> QED BY <1>3, <2>2, <2>3 DEF HoldInv, One, env
<1>13. NowInv'
  <2>1. now' => /\ parked # Idle => ~Firm(parked)
                /\ ~bkops /\ \A b \in Acts(Below) : ~Firm(b)
    BY <1>2, <1>3, <1>9 DEF IInv, NowInv, OthersClear, Current
  <2>2. ~Firm(f)
    BY <1>1, <1>5 DEF Firm, Requests, Switches
  <2>3. \A a \in Acts(stack') : a = f \/ ~Firm(a) \/ a \in Acts(Below)
    BY <1>8 DEF Called, Fresh
  <2> QED BY <1>3, <1>8, <2>1, <2>2, <2>3 DEF NowInv, Called, env, Firm
<1>14. FlightInv'
  BY <1>1, <1>2, <1>3, <1>5, <1>6, <1>8, <1>9 DEF IInv, FlightInv, Current, env,
     InFlight, Requests, Switches, Called, Fresh
<1>15. BkopsInv'
  BY <1>1, <1>2, <1>3, <1>5, <1>6, <1>8, <1>9 DEF IInv, BkopsInv, Current, env,
     Requests, Switches, Fn, Called, Fresh
<1>16. TimingInv'
  BY <1>1, <1>2, <1>3, <1>5, <1>6, <1>8, <1>9, TimingCall DEF env, Requests, Switches
<1> QED
  BY <1>8, <1>10, <1>11, <1>12, <1>13, <1>14, <1>15, <1>16 DEF IInv

LEMMA StepSwitchStatus ==
  ASSUME IInv, stack # <<>>, Top.fn \in Switches, Top.at \in {"cmd", "poll"}, ~now,
         SwitchStatus, UNCHANGED <<need, doing, can, env>>
  PROVE  IInv'
<1>1. TypeOK /\ Current
  BY SwitchFacts
<1>2. timing' \in Timings /\ (timing' = timing \/ Top.fn = "switchHs")
  BY <1>1 DEF SwitchStatus, TypeOK, Timings
<1>3. CASE SendStatus(Top.fn)
  <2> DEFINE f == [Top EXCEPT !.at = "status"]
  <2>1. f \in Frames /\ f.fn = Top.fn /\ f.at = "status"
    BY <1>1 DEF Current, Frames
  <2>2. CallFrom(f, "status") /\ UNCHANGED <<hold, now>>
    BY <1>3 DEF SwitchStatus
  <2> HIDE DEF f
  <2> QED BY <1>2, <2>1, <2>2, StepSwitchCall
<1>4. CASE ~SendStatus(Top.fn)
  BY <1>2, <1>4, StepSwitchReturn DEF SwitchStatus, Results
<1> QED BY <1>3, <1>4

LEMMA StepSwitchSent ==
  ASSUME IInv, SwitchSent
  PROVE  IInv'
<1>1. /\ stack # <<>> /\ Top.fn \in Switches /\ Top.at = "cmd" /\ ret # "none"
      /\ UNCHANGED <<need, doing, can, env>>
  BY DEF SwitchSent, Fn, At, Back
<1>2. TypeOK /\ Current /\ ret \in Results
  BY <1>1, SwitchFacts DEF TypeOK
<1>3. now => ret \in {"other", "inval"}
  BY <1>1 DEF IInv, NowInv
<1>4. CASE SwitchReturn(ret) /\ timing' = timing
  BY <1>1, <1>2, <1>3, <1>4, StepSwitchReturn DEF TypeOK
<1>5. CASE ret = "ok" /\ SwitchStatus
  BY <1>1, <1>3, <1>5, StepSwitchStatus
<1>6. CASE ret = "ok" /\ GotoAt("poll") /\ UNCHANGED <<hold, now, timing>>
  <2> DEFINE f == [Top EXCEPT !.at = "poll"]
  <2>1. f \in Frames /\ f.fn = Top.fn /\ f.at = "poll"
    BY <1>2 DEF Current, Frames
  <2>2. Goto(f)
    BY <1>6 DEF GotoAt
  <2> HIDE DEF f
  <2> QED BY <1>1, <1>3, <1>6, <2>1, <2>2, StepSwitchPoll
<1> QED
  BY <1>4, <1>5, <1>6 DEF SwitchSent

LEMMA StepPollForBusy ==
  ASSUME IInv, mmc_poll_for_busy
  PROVE  IInv'
<1>1. /\ stack # <<>> /\ Top.fn \in Switches /\ Top.at = "poll" /\ ret = "none"
      /\ UNCHANGED <<need, doing, can, env>>
  BY DEF mmc_poll_for_busy, Fn, At, Ready
<1>2. TypeOK /\ Current /\ ~now
  BY <1>1, SwitchFacts
<1>3. CASE SwitchStatus
  BY <1>1, <1>2, <1>3, StepSwitchStatus
<1>4. CASE SwitchReturn("timeout") /\ timing' = timing
  BY <1>1, <1>2, <1>4, StepSwitchReturn DEF TypeOK, Results, Errors
<1>5. CASE CallFrom(Top, "status") /\ UNCHANGED <<hold, now, timing>>
  <2>1. Top \in Frames /\ timing \in Timings
    BY <1>2 DEF Current, TypeOK
  <2> QED BY <1>1, <1>2, <1>5, <2>1, StepSwitchCall
<1> QED
  BY <1>3, <1>4, <1>5 DEF mmc_poll_for_busy

LEMMA StepPolled ==
  ASSUME IInv, Polled
  PROVE  IInv'
<1>1. /\ stack # <<>> /\ Top.fn \in Switches /\ Top.at = "poll" /\ ret # "none"
      /\ UNCHANGED <<need, doing, can, env>>
  BY DEF Polled, Fn, At, Back
<1>2. TypeOK /\ Current /\ ~now /\ ret \in Results
  BY <1>1, SwitchFacts DEF TypeOK
<1>3. CASE SwitchStatus
  BY <1>1, <1>2, <1>3, StepSwitchStatus
<1>4. CASE \E e \in {ret, "timeout", "badmsg"} : SwitchReturn(e) /\ timing' = timing
  BY <1>1, <1>2, <1>4, StepSwitchReturn DEF TypeOK, Results, Errors
<1>5. CASE /\ Top.left > 0 /\ Goto([Top EXCEPT !.left = @ - 1])
           /\ UNCHANGED <<hold, now, timing>>
  <2> DEFINE f == [Top EXCEPT !.left = @ - 1]
  <2>1. f \in Frames /\ f.fn = Top.fn /\ f.at = "poll"
    <3>1. Top \in Frames /\ Top.left # 0
      BY <1>2, <1>5 DEF Current
    <3>2. Top.left - 1 \in 0 .. CmdRetries + MaxPolls + MaxTuning
      BY <3>1, LeftLess
    <3> QED BY <1>1, <3>1, <3>2 DEF Frames
  <2> HIDE DEF f
  <2>2. Goto(f)
    BY <1>5 DEF f
  <2> QED BY <1>1, <1>2, <1>5, <2>1, <2>2, StepSwitchPoll
<1> QED
  BY <1>3, <1>4, <1>5 DEF Polled

LEMMA StepSwitchChecked ==
  ASSUME IInv, SwitchChecked
  PROVE  IInv'
<1>1. /\ stack # <<>> /\ Top.fn \in Switches /\ Top.at = "status" /\ ret # "none"
      /\ UNCHANGED <<need, doing, can, env>>
  BY DEF SwitchChecked, Fn, At, Back
<1>2. TypeOK /\ ~now /\ ret \in Results /\ Top.old \in Timings
  BY <1>1, SwitchFacts DEF TypeOK, Current, Frames
<1>3. PICK e \in Results :
        /\ SwitchReturn(e)
        /\ timing' = IF e # "ok" /\ Top.fn = "switchHs" THEN Top.old ELSE timing
  BY <1>2 DEF SwitchChecked, Results, Errors
<1> QED
  BY <1>1, <1>2, <1>3, StepSwitchReturn DEF TypeOK

(* What a script calls where it stands, and the timing it sets.            *)
Callee(s) == IF s.call = "lax" THEN "status" ELSE s.call
ScriptFacts(f, s, n) ==
  /\ f.step \in 1 .. n /\ n <= 6
  /\ Callee(s) \in Functions /\ Calls(f, Callee(s))
  /\ s.then \in Timings \cup {"keep"}
  /\ f.step = n => s.then = "keep"
  /\ f.fn = "hs200" /\ f.step = 3 => s.then = "keep"
  /\ f.fn = "hs200_to_hs400" => n = 5 /\ (f.step = 4 => s.then = "HS400")
  /\ f.fn = "sleep" => n = 2

LEMMA ScriptCalls ==
  ASSUME NEW f \in Frames, f.fn \in Scripts, Standing(f)
  PROVE  ScriptFacts(f, Script(f.fn)[f.step], Len(Script(f.fn)))
<1> DEFINE s == Script(f.fn)[f.step]
           n == Len(Script(f.fn))
<1>1. f.step \in 1 .. 6 /\ f.step <= n
  BY DEF Frames, Standing
<1>2. CASE f.fn = "sleep"
  <2>1. Script(f.fn) = SleepScript /\ Len(SleepScript) = 2
    BY <1>2 DEF Script, SleepScript
  <2>2. n = 2 /\ f.step \in 1 .. 2
    BY <1>1, <2>1
  <2>3. \/ f.step = 1 /\ s = Call("cmd3")
        \/ f.step = 2 /\ s = Call("cmd0")
    BY <2>1, <2>2 DEF SleepScript
  <2> HIDE DEF s, n
  <2>4. Callee(s) # "lax" /\ Calls(f, Callee(s)) /\ Callee(s) \in Functions
    BY <1>2, <2>3 DEF Call, CallSet, Callee, Calls, Functions, Requests, Switches,
       Scripts, Others
  <2>5. s.then \in Timings \cup {"keep"} /\ (f.step = n => s.then = "keep")
    BY <2>2, <2>3 DEF Call, CallSet, Timings
  <2>6. ScriptFacts(f, s, n)
    BY <1>2, <2>2, <2>3, <2>4, <2>5 DEF ScriptFacts, Call, CallSet
  <2> QED BY <2>6 DEF s, n
<1>3. CASE f.fn = "detect"
  <2>1. Script(f.fn) = AliveScript /\ Len(AliveScript) = 1
    BY <1>3 DEF Script, AliveScript
  <2>2. n = 1 /\ f.step \in 1 .. 1
    BY <1>1, <2>1
  <2>3. f.step = 1 /\ s = Call("status")
    BY <2>1, <2>2 DEF AliveScript
  <2> HIDE DEF s, n
  <2>4. Callee(s) # "lax" /\ Calls(f, Callee(s)) /\ Callee(s) \in Functions
    BY <1>3, <2>3 DEF Call, CallSet, Callee, Calls, Functions, Requests, Switches,
       Scripts, Others
  <2>5. s.then \in Timings \cup {"keep"} /\ (f.step = n => s.then = "keep")
    BY <2>2, <2>3 DEF Call, CallSet, Timings
  <2>6. ScriptFacts(f, s, n)
    BY <1>3, <2>2, <2>3, <2>4, <2>5 DEF ScriptFacts, Call, CallSet
  <2> QED BY <2>6 DEF s, n
<1>4. CASE f.fn = "hs"
  <2>1. Script(f.fn) = HsScript /\ Len(HsScript) = 1
    BY <1>4 DEF Script, HsScript
  <2>2. n = 1 /\ f.step \in 1 .. 1
    BY <1>1, <2>1
  <2>3. f.step = 1 /\ s = Call("switchHs")
    BY <2>1, <2>2 DEF HsScript
  <2> HIDE DEF s, n
  <2>4. Callee(s) # "lax" /\ Calls(f, Callee(s)) /\ Callee(s) \in Functions
    BY <1>4, <2>3 DEF Call, CallSet, Callee, Calls, Functions, Requests, Switches,
       Scripts, Others
  <2>5. s.then \in Timings \cup {"keep"} /\ (f.step = n => s.then = "keep")
    BY <2>2, <2>3 DEF Call, CallSet, Timings
  <2>6. ScriptFacts(f, s, n)
    BY <1>4, <2>2, <2>3, <2>4, <2>5 DEF ScriptFacts, Call, CallSet
  <2> QED BY <2>6 DEF s, n
<1>5. CASE f.fn = "hs200"
  <2>1. Script(f.fn) = Hs200Script /\ Len(Hs200Script) = 4
    BY <1>5 DEF Script, Hs200Script
  <2>2. n = 4 /\ f.step \in 1 .. 4
    BY <1>1, <2>1
  <2>3. \/ f.step = 1 /\ s = CallSet("switchBus", "HS200")
        \/ f.step = 2 /\ s = Call("lax")
        \/ f.step = 3 /\ s = Call("execute_tuning")
        \/ f.step = 4 /\ s = Call("hs200_to_hs400")
    BY <2>1, <2>2 DEF Hs200Script
  <2> HIDE DEF s, n
  <2>4. Callee(s) # "lax" /\ Calls(f, Callee(s)) /\ Callee(s) \in Functions
    BY <1>5, <2>3 DEF Call, CallSet, Callee, Calls, Functions, Requests, Switches,
       Scripts, Others
  <2>5. s.then \in Timings \cup {"keep"} /\ (f.step = n => s.then = "keep")
    BY <2>2, <2>3 DEF Call, CallSet, Timings
  <2>6. ScriptFacts(f, s, n)
    BY <1>5, <2>2, <2>3, <2>4, <2>5 DEF ScriptFacts, Call, CallSet
  <2> QED BY <2>6 DEF s, n
<1>6. CASE f.fn = "hs200_to_hs400"
  <2>1. Script(f.fn) = Hs200ToHs400Script /\ Len(Hs200ToHs400Script) = 5
    BY <1>6 DEF Script, Hs200ToHs400Script
  <2>2. n = 5 /\ f.step \in 1 .. 5
    BY <1>1, <2>1
  <2>3. \/ f.step = 1 /\ s = CallSet("switchBus", "HS")
        \/ f.step = 2 /\ s = Call("status")
        \/ f.step = 3 /\ s = Call("switch")
        \/ f.step = 4 /\ s = CallSet("switchBus", "HS400")
        \/ f.step = 5 /\ s = Call("status")
    BY <2>1, <2>2 DEF Hs200ToHs400Script
  <2> HIDE DEF s, n
  <2>4. Callee(s) # "lax" /\ Calls(f, Callee(s)) /\ Callee(s) \in Functions
    BY <1>6, <2>3 DEF Call, CallSet, Callee, Calls, Functions, Requests, Switches,
       Scripts, Others
  <2>5. s.then \in Timings \cup {"keep"} /\ (f.step = n => s.then = "keep")
    BY <2>2, <2>3 DEF Call, CallSet, Timings
  <2>6. ScriptFacts(f, s, n)
    BY <1>6, <2>2, <2>3, <2>4, <2>5 DEF ScriptFacts, Call, CallSet
  <2> QED BY <2>6 DEF s, n
<1>7. CASE f.fn = "hs400_to_hs200"
  <2>1. Script(f.fn) = Hs400ToHs200Script /\ Len(Hs400ToHs200Script) = 6
    BY <1>7 DEF Script, Hs400ToHs200Script
  <2>2. n = 6 /\ f.step \in 1 .. 6
    BY <1>1, <2>1
  <2>3. \/ f.step = 1 /\ s = CallSet("switchBus", "DDR52")
        \/ f.step = 2 /\ s = Call("status")
        \/ f.step = 3 /\ s = CallSet("switchBus", "HS")
        \/ f.step = 4 /\ s = Call("status")
        \/ f.step = 5 /\ s = CallSet("switchBus", "HS200")
        \/ f.step = 6 /\ s = Call("lax")
    BY <2>1, <2>2 DEF Hs400ToHs200Script
  <2> HIDE DEF s, n
  <2>4. Callee(s) # "lax" /\ Calls(f, Callee(s)) /\ Callee(s) \in Functions
    BY <1>7, <2>3 DEF Call, CallSet, Callee, Calls, Functions, Requests, Switches,
       Scripts, Others
  <2>5. s.then \in Timings \cup {"keep"} /\ (f.step = n => s.then = "keep")
    BY <2>2, <2>3 DEF Call, CallSet, Timings
  <2>6. ScriptFacts(f, s, n)
    BY <1>7, <2>2, <2>3, <2>4, <2>5 DEF ScriptFacts, Call, CallSet
  <2> QED BY <2>6 DEF s, n
<1> QED
  BY <1>2, <1>3, <1>4, <1>5, <1>6, <1>7 DEF Scripts

LEMMA StepScriptStep ==
  ASSUME IInv, ScriptStep
  PROVE  IInv'
<1>1. /\ stack # <<>> /\ Top.fn \in Scripts /\ ret = "none"
      /\ UNCHANGED <<need, doing, can, timing, env>>
  BY DEF ScriptStep, Fn, Ready
<1>2. TypeOK /\ StackInv /\ Current /\ hold \in Nat /\ Top \in Frames /\ Standing(Top)
  BY <1>1, CurrentTop DEF IInv, TypeOK, Current
<1> DEFINE c == Script(Top.fn)[Top.step].call
           g == IF c = "lax" THEN "status" ELSE c
<1>3. CallFrom(Top, c)
  BY DEF ScriptStep
<1>4. g \in Functions /\ Calls(Top, g)
  BY <1>1, <1>2, ScriptCalls DEF ScriptFacts, Callee
<1>5. /\ Top.fn = "sleep" => Top.step \in {1, 2}
      /\ g # "mmc_retune"
  <2>1. Top.fn = "sleep" => Top.step \in 1 .. 2
    BY <1>1, <1>2, ScriptCalls DEF ScriptFacts
  <2> QED BY <1>1, <1>4, <2>1 DEF Calls, Scripts, Requests
<1>6. IF Top.fn = "sleep" /\ Top.step = 1
      THEN hold' = hold + 1 /\ now' = (hold = 0 \/ now)
      ELSE hold' = hold /\ now' = now
  BY DEF ScriptStep, mmc_retune_hold
<1> HIDE DEF c
<1>7. Called(Top, g) /\ StackInv'
  BY <1>1, <1>2, <1>3, <1>4, <1>5, CallMove DEF Current
<1> HIDE DEF g
<1>8. g \notin Bottoms
  BY <1>4 DEF Calls, Bottoms
<1>9. hold' \in Nat /\ now' \in BOOLEAN
  <2>2. (hold = 0 \/ now) \in BOOLEAN /\ hold + 1 \in Nat
    BY <1>2
  <2>3. now \in BOOLEAN
    BY <1>2 DEF TypeOK
  <2> QED BY <1>2, <1>6, <2>2, <2>3
<1>10. now' => ~Firm(Top) /\ (now \/ OthersClear)
  <2>1. ~Firm(Top) \/ ~now
    BY <1>2 DEF IInv, NowInv, Current
  <2>2. Top.step = 1 => ~Firm(Top)
    BY <1>1 DEF Firm, Scripts, Requests, Switches
  <2>3. hold = 0 => OthersClear
    BY <1>1, <1>2, NothingHeld DEF IInv, One
  <2> QED BY <1>6, <2>1, <2>2, <2>3
<1>11. TypeOK'
  BY <1>1, <1>2, <1>4, <1>5, <1>6, <1>7, <1>8, <1>9, <1>10 DEF TypeOK, env, Called,
     Fresh
<1>12. RetuneInv'
  BY <1>1, <1>2, <1>4, <1>5, <1>6, <1>7, <1>8, <1>9, <1>10 DEF IInv, RetuneInv,
     Current, env, InFlight, Requests, Switches, Called, Fresh, Scripts
<1>13. HoldInv'
  BY <1>1, <1>2, <1>4, <1>5, <1>6, <1>7, <1>8, <1>9, <1>10, HoldCount DEF HoldInv,
     env, Held, HeldTop, Started, One, Requests, Switches, Called, Fresh, Scripts
<1>14. NowInv'
  BY <1>1, <1>2, <1>4, <1>5, <1>6, <1>7, <1>8, <1>9, <1>10 DEF IInv, NowInv,
     Current, env, Requests, Switches, Firm, Called, Fresh, OthersClear
<1>15. FlightInv'
  BY <1>1, <1>2, <1>4, <1>5, <1>6, <1>7, <1>8, <1>9, <1>10 DEF IInv, FlightInv,
     Current, env, InFlight, Requests, Switches, Called, Fresh, Scripts, Bottoms
<1>16. BkopsInv'
  BY <1>1, <1>2, <1>4, <1>5, <1>6, <1>7, <1>8, <1>9, <1>10 DEF IInv, BkopsInv,
     Current, env, Requests, Switches, Fn, Called, Fresh, Scripts, Bottoms
<1>17. TimingInv'
  BY <1>1, <1>2, <1>4, <1>5, <1>6, <1>7, <1>8, <1>9, <1>10, TimingCall DEF env,
     Requests, Switches, Scripts
<1> QED
  BY <1>7, <1>11, <1>12, <1>13, <1>14, <1>15, <1>16, <1>17 DEF IInv

LEMMA StepScriptNext ==
  ASSUME IInv, ScriptNext
  PROVE  IInv'
<1>1. /\ stack # <<>> /\ Top.fn \in Scripts /\ ret # "none"
      /\ UNCHANGED <<need, doing, can, parked, bkops, cqe, cardBusy>>
  BY DEF ScriptNext, Fn, Back
<1>2. TypeOK /\ StackInv /\ Current /\ hold \in Nat /\ Top \in Frames /\ Standing(Top)
  BY <1>1, CurrentTop DEF IInv, TypeOK, Current
<1>3. ret \in Results /\ (now => ret \in {"other", "inval"})
  BY <1>1, <1>2 DEF TypeOK, IInv, NowInv
<1> DEFINE s == Script(Top.fn)[Top.step]
           n == Len(Script(Top.fn))
<1>4. /\ Top.step \in 1 .. n /\ n <= 6 /\ s.then \in Timings \cup {"keep"}
      /\ Top.step = n => s.then = "keep"
      /\ Top.fn = "hs200" /\ Top.step = 3 => s.then = "keep"
      /\ Top.fn = "hs200_to_hs400" => n = 5
      /\ Top.fn = "hs200_to_hs400" /\ Top.step = 4 => s.then = "HS400"
      /\ Top.fn = "sleep" => n = 2
  BY <1>1, <1>2, ScriptCalls DEF ScriptFacts
<1>5. PICK e \in Results :
        /\ now => e \in {"other", "inval"}
        /\ timing' = IF e = "ok" /\ s.then # "keep" THEN s.then
                     ELSE IF Top.fn = "hs200" /\ Top.step = 2 /\ e = "badmsg"
                     THEN Top.old ELSE timing
        /\ \/ /\ e = "ok" /\ Top.step < n
              /\ Goto([Top EXCEPT !.step = @ + 1]) /\ UNCHANGED <<hold, now, card>>
           \/ e = "ok" /\ Top.fn = "hs200" /\ Top.step = 3 /\ ScriptReturn(Top.fn, e)
           \/ /\ e = "ok" => Top.step = n
              /\ ScriptReturn(Top.fn,
                   IF e = "badmsg" /\ Top.fn \in {"hs", "hs200"} /\ Top.step < 3
                   THEN "ok" ELSE e)
  <2>1. PICK e \in Outcome(IF Top.fn = "detect" THEN "alive" ELSE s.call, ret) :
        /\ timing' = IF e = "ok" /\ s.then # "keep" THEN s.then
                     ELSE IF Top.fn = "hs200" /\ Top.step = 2 /\ e = "badmsg"
                     THEN Top.old ELSE timing
        /\ \/ /\ e = "ok" /\ Top.step < n
              /\ Goto([Top EXCEPT !.step = @ + 1]) /\ UNCHANGED <<hold, now, card>>
           \/ e = "ok" /\ Top.fn = "hs200" /\ Top.step = 3 /\ ScriptReturn(Top.fn, e)
           \/ /\ e = "ok" => Top.step = n
              /\ ScriptReturn(Top.fn,
                   IF e = "badmsg" /\ Top.fn \in {"hs", "hs200"} /\ Top.step < 3
                   THEN "ok" ELSE e)
    BY DEF ScriptNext
  <2>2. e \in Results /\ (now => e \in {"other", "inval"})
    BY <1>3, <2>1 DEF Outcome, Results, Errors
  <2> QED BY <2>1, <2>2
<1>6. timing' \in Timings
  BY <1>2, <1>4, <1>5 DEF TypeOK, Frames
<1>7. CASE /\ e = "ok" /\ Top.step < n
           /\ Goto([Top EXCEPT !.step = @ + 1]) /\ UNCHANGED <<hold, now, card>>
  <2> DEFINE f == [Top EXCEPT !.step = @ + 1]
  <2>1. f \in Frames /\ f.fn = Top.fn /\ f.at = Top.at /\ f.step = Top.step + 1
    BY <1>2, <1>4, <1>7 DEF Frames
  <2> HIDE DEF f
  <2>2. Standing(f)
    BY <1>1, <1>2, <1>4, <1>7, <2>1 DEF Standing, Scripts, Requests, Switches, Others
  <2>3. Moved(f) /\ StackInv'
    BY <1>1, <1>2, <1>7, <2>1, <2>2, GotoMove DEF f, Scripts
  <2>4. ~now /\ UNCHANGED <<hold, now, card>>
    BY <1>5, <1>7
  <2>5. f.fn = "hs200_to_hs400" /\ f.step = 5 => timing' = "HS400"
    BY <1>4, <1>5, <1>7, <2>1
  <2>6. Top.fn = "sleep" => f.step = 2
    <3> SUFFICES ASSUME Top.fn = "sleep" PROVE f.step = 2
      OBVIOUS
    <3>1. n = 2 /\ Top.step \in 1 .. n /\ Top.step < n
      BY <1>4, <1>7
    <3> HIDE DEF n
    <3> QED BY <2>1, <3>1
  <2>7. /\ Top.fn \notin Requests \cup Switches
        /\ Top.fn \notin {"mmc_retune", "execute_tuning", "tuning"}
    BY <1>1 DEF Scripts, Requests, Switches
  <2>8. TypeOK'
    BY <1>1, <1>2, <1>6, <2>1, <2>3, <2>4, <2>6, <2>7 DEF TypeOK, env, Moved
  <2>9. RetuneInv'
    BY <1>1, <1>2, <1>6, <2>1, <2>3, <2>4, <2>6, <2>7 DEF IInv, RetuneInv,
       Current, env, InFlight, Requests, Switches, Moved
  <2>10. HoldInv'
    BY <1>1, <1>2, <1>6, <2>1, <2>3, <2>4, <2>6, <2>7, <1>3, HoldCount
       DEF HoldInv, env, Held, HeldTop, Started, One, Requests, Switches, Moved,
       Scripts
  <2>11. NowInv'
    BY <1>1, <1>2, <1>6, <2>1, <2>3, <2>4, <2>6, <2>7 DEF IInv, NowInv, Current,
       env, Requests, Switches, Firm, Moved, Scripts
  <2>12. FlightInv'
    BY <1>1, <1>2, <1>6, <2>1, <2>3, <2>4, <2>6, <2>7 DEF IInv, FlightInv,
       Current, env, InFlight, Requests, Switches, Moved, Scripts
  <2>13. BkopsInv'
    BY <1>1, <1>2, <1>6, <2>1, <2>3, <2>4, <2>6, <2>7 DEF IInv, BkopsInv, Current,
       env, Requests, Switches, Fn, Moved, Scripts
  <2>14. TimingInv'
    <3>1. /\ doing' = doing /\ ret' = "none" /\ Top' = f /\ Below' = Below
          /\ Acts(stack') = {f} \cup Acts(Below) /\ f.fn # "mmc_retune"
      BY <1>1, <2>1, <2>3, <2>7 DEF Moved
    <3>2. \A a \in Acts(Below) : Restoring(a) /\ (a.fn = "mmc_retune" => a.step # 2)
      BY <1>2, <2>7 DEF IInv, TimingInv, Current, Restoring
    <3>3. \A a \in Acts(stack') : Restoring(a)'
      BY <3>1, <3>2 DEF Restoring
    <3>4. Below # <<>> /\ Head(Below).fn = "hs200_to_hs400" => Head(Below).step # 5
      BY <1>1, <1>2 DEF Current, Calls, Scripts, Requests, Switches
    <3>5. \A a \in Acts(Below) : a.fn = "mmc_retune" /\ a.step = 1 => a.old = "HS400"
      BY <1>1 DEF IInv, TimingInv
    <3> QED BY <2>5, <3>1, <3>3, <3>4, <3>5 DEF TimingInv, Fn
  <2> QED
    BY <2>3, <2>8, <2>9, <2>10, <2>11, <2>12, <2>13, <2>14 DEF IInv
<1>8. ASSUME NEW r \in Results, ScriptReturn(Top.fn, r),
             now => r \in {"other", "inval"},
             timing' = timing \/ Top.fn = "hs200",
             Top.fn = "hs200_to_hs400" /\ r = "ok" => Top.step = 5
      PROVE  IInv'
  <2>1. Returned(r) /\ StackInv'
    BY <1>1, <1>2, <1>8, ReturnMove DEF ScriptReturn
  <2>2. card' \in {"none", "present", "removed"}
    BY <1>2, <1>8 DEF ScriptReturn, TypeOK
  <2>3. HeldTop(Top, ret) <=> Top.fn = "sleep"
    BY <1>1, <1>3 DEF HeldTop, Started, Scripts, Requests, Switches
  <2>4. hold' = hold - One(HeldTop(Top, ret)) /\ hold' \in Nat /\ now' = now
    <3>1. HeldTop(Top, ret) => hold > 0
      BY <1>1, <1>2, HoldCount DEF One
    <3> QED BY <1>2, <1>8, <2>3, <3>1 DEF ScriptReturn, mmc_retune_release, One
  <2>5. Top.fn # "mmc_retune"
    BY <1>1 DEF Scripts
  <2>6. TypeOK'
    BY <1>1, <1>2, <1>6, <1>8, <2>1, <2>2, <2>4, <2>5 DEF TypeOK, env, Returned
  <2>7. RetuneInv'
    BY <1>1, <1>2, <1>6, <1>8, <2>1, <2>2, <2>4, <2>5 DEF IInv, RetuneInv,
       Current, env, InFlight, Requests, Switches, Returned
  <2>8. HoldInv'
    BY <1>1, <1>2, <1>6, <1>8, <2>1, <2>2, <2>4, <2>5, HoldCount DEF HoldInv, env,
       Held, HeldTop, Started, One, Requests, Switches, Returned
  <2>9. NowInv'
    BY <1>1, <1>2, <1>6, <1>8, <2>1, <2>2, <2>4, <2>5 DEF IInv, NowInv, Current,
       env, Requests, Switches, Firm, Returned
  <2>10. FlightInv'
    BY <1>1, <1>2, <1>6, <1>8, <2>1, <2>2, <2>4, <2>5 DEF IInv, FlightInv,
       Current, env, InFlight, Requests, Switches, Returned
  <2>11. BkopsInv'
    BY <1>1, <1>2, <1>6, <1>8, <2>1, <2>2, <2>4, <2>5, BkopsReturn DEF env, Results
  <2>12. TimingInv'
    BY <1>1, <1>2, <1>6, <1>8, <2>1, <2>2, <2>4, <2>5, TimingReturn DEF env,
       Requests, Results
  <2> QED
    BY <2>1, <2>6, <2>7, <2>8, <2>9, <2>10, <2>11, <2>12 DEF IInv
<1>9. \/ e = "ok" /\ Top.fn = "hs200" /\ Top.step = 3 /\ ScriptReturn(Top.fn, e)
      \/ /\ e = "ok" => Top.step = n
         /\ ScriptReturn(Top.fn,
                         IF e = "badmsg" /\ Top.fn \in {"hs", "hs200"} /\ Top.step < 3
                         THEN "ok" ELSE e)
      => IInv'
  BY <1>4, <1>5, <1>8 DEF Results
<1> QED
  BY <1>5, <1>7, <1>9

LEMMA StepRetuneBody ==
  ASSUME IInv, RetuneBody
  PROVE  IInv'
<1>1. /\ stack # <<>> /\ Top.fn = "mmc_retune" /\ ret = "none"
      /\ UNCHANGED <<hold, now, need, doing, can, timing, env>>
  BY DEF RetuneBody, Fn, Ready, tune
<1>2. TypeOK /\ StackInv /\ Current /\ Top \in Frames /\ Standing(Top)
  BY <1>1, CurrentTop DEF IInv, Current
<1> DEFINE f == [Top EXCEPT !.step = IF @ = 1 /\ timing # "HS400" THEN 2 ELSE @]
           g == CASE Top.step = 1 /\ timing = "HS400" -> "hs400_to_hs200"
                  [] Top.step = 3 -> "hs200_to_hs400"
                  [] OTHER -> "execute_tuning"
<1>3. CallFrom(f, g)
  BY DEF RetuneBody
<1>4. Top.step \in {1, 2, 3}
  BY <1>1, <1>2 DEF Frames, Standing
<1>5. /\ f \in Frames /\ f.fn = "mmc_retune" /\ f.at = Top.at /\ f.old = Top.old
      /\ \/ Top.step = 1 /\ timing = "HS400" /\ f.step = 1 /\ g = "hs400_to_hs200"
         \/ Top.step = 1 /\ timing # "HS400" /\ f.step = 2 /\ g = "execute_tuning"
         \/ Top.step = 2 /\ f.step = 2 /\ g = "execute_tuning"
         \/ Top.step = 3 /\ f.step = 3 /\ g = "hs200_to_hs400"
  BY <1>1, <1>2, <1>4 DEF Frames
<1> HIDE DEF f, g
<1>6. Standing(f) /\ Calls(f, g)
  BY <1>1, <1>2, <1>5 DEF Standing, Calls, Requests, Switches, Scripts, Others
<1>7. Called(f, g) /\ StackInv'
  BY <1>1, <1>2, <1>3, <1>5, <1>6, CallMove DEF Functions, Scripts, Others
<1>8. TypeOK'
  BY <1>1, <1>2, <1>5, <1>7 DEF TypeOK, env, Called, Fresh
<1>9. RetuneInv'
  BY <1>1, <1>2, <1>5, <1>7 DEF IInv, RetuneInv, Current, env, InFlight, Requests,
     Switches, Called, Fresh
<1>10. HoldInv'
  BY <1>1, <1>2, <1>5, <1>7, HoldCount DEF HoldInv, env, Held, HeldTop, Started,
     One, Requests, Switches, Called, Fresh
<1>11. NowInv'
  BY <1>1, <1>2, <1>5, <1>7 DEF IInv, NowInv, Current, env, Requests, Switches,
     Firm, Called, Fresh
<1>12. FlightInv'
  BY <1>1, <1>2, <1>5, <1>7 DEF IInv, FlightInv, Current, env, InFlight, Requests,
     Switches, Called, Fresh
<1>13. BkopsInv'
  BY <1>1, <1>2, <1>5, <1>7 DEF IInv, BkopsInv, Current, env, Requests, Switches,
     Fn, Called, Fresh
<1>14. TimingInv'
  <2>1. \A b \in Acts(Below) : b.fn # "mmc_retune"
    BY <1>1, <1>2 DEF Current, Lets
  <2>2. /\ Top.step = 1 => Top.old = timing
        /\ Restoring(Top)
    BY <1>1, <1>2 DEF IInv, TimingInv, Fn, Ready, Current
  <2>3. \A a \in Acts(stack') : Restoring(a)'
    BY <1>1, <1>5, <1>7, <2>1, <2>2 DEF Called, Fresh, Restoring
  <2> QED
    BY <1>1, <1>5, <1>7, <2>1, <2>2, <2>3 DEF TimingInv, Called, Fresh, Fn
<1> QED
  BY <1>7, <1>8, <1>9, <1>10, <1>11, <1>12, <1>13, <1>14 DEF IInv

LEMMA StepRetuneNext ==
  ASSUME IInv, RetuneNext
  PROVE  IInv'
<1>1. /\ stack # <<>> /\ Top.fn = "mmc_retune" /\ ret # "none"
      /\ UNCHANGED <<hold, now, need, can, timing, env>>
  BY DEF RetuneNext, Fn, Back
<1>2. TypeOK /\ StackInv /\ Current /\ Top \in Frames /\ Standing(Top)
  BY <1>1, CurrentTop DEF IInv, Current
<1>3. ret \in Results /\ (now => ret \in {"other", "inval"})
  BY <1>1, <1>2 DEF TypeOK, IInv, NowInv
<1>4. /\ Top.step \in {1, 2, 3} /\ \A b \in Acts(Below) : b.fn # "mmc_retune"
  <2>1. Top.step \in {1, 2, 3}
    BY <1>1, <1>2 DEF Frames, Standing
  <2>2. \A b \in Acts(Below) : b.fn # "mmc_retune"
    BY <1>1, <1>2 DEF Current, Lets
  <2> QED BY <2>1, <2>2
<1>5. CASE /\ Top.step = 1 \/ (Top.step = 2 /\ Top.old = "HS400")
           /\ ret = "ok" /\ doing' = doing /\ Goto([Top EXCEPT !.step = @ + 1])
  <2> DEFINE f == [Top EXCEPT !.step = @ + 1]
  <2>1. /\ f \in Frames /\ f.fn = "mmc_retune" /\ f.at = Top.at /\ f.old = Top.old
        /\ f.step = Top.step + 1
    BY <1>1, <1>2, <1>4, <1>5 DEF Frames
  <2> HIDE DEF f
  <2>2. Standing(f)
    BY <1>1, <1>2, <1>5, <2>1 DEF Standing, Requests, Switches, Scripts, Others
  <2>3. Moved(f) /\ StackInv'
    BY <1>1, <1>2, <1>5, <2>1, <2>2, GotoMove DEF f
  <2>4. Top.old = "HS400"
    BY <1>1, <1>5 DEF IInv, TimingInv, Fn, Ready
  <2>5. TypeOK'
    BY <1>1, <1>2, <1>4, <1>5, <2>1, <2>3, <2>4 DEF TypeOK, env, Moved
  <2>6. RetuneInv'
    BY <1>1, <1>2, <1>4, <1>5, <2>1, <2>3, <2>4 DEF IInv, RetuneInv, Current, env,
       InFlight, Requests, Switches, Moved
  <2>7. HoldInv'
    BY <1>1, <1>2, <1>4, <1>5, <2>1, <2>3, <2>4, HoldCount DEF HoldInv, env, Held,
       HeldTop, Started, One, Requests, Switches, Moved
  <2>8. NowInv'
    BY <1>1, <1>2, <1>4, <1>5, <2>1, <2>3, <2>4 DEF IInv, NowInv, Current, env,
       Requests, Switches, Firm, Moved
  <2>9. FlightInv'
    BY <1>1, <1>2, <1>4, <1>5, <2>1, <2>3, <2>4 DEF IInv, FlightInv, Current, env,
       InFlight, Requests, Switches, Moved
  <2>10. BkopsInv'
    BY <1>1, <1>2, <1>4, <1>5, <2>1, <2>3, <2>4 DEF IInv, BkopsInv, Current, env,
       Requests, Switches, Fn, Moved
  <2>11. TimingInv'
    <3>1. \A a \in Acts(stack') : Restoring(a)'
      BY <1>4, <2>1, <2>3, <2>4 DEF Moved, Restoring
    <3> QED
      BY <1>4, <1>5, <2>1, <2>3, <2>4, <3>1 DEF TimingInv, Moved, Fn
  <2> QED
    BY <2>3, <2>5, <2>6, <2>7, <2>8, <2>9, <2>10, <2>11 DEF IInv
<1>6. CASE Return(ret) /\ doing' = FALSE
  <2>1. Returned(ret) /\ StackInv'
    BY <1>1, <1>2, <1>3, <1>6, ReturnMove
  <2>2. TypeOK'
    BY <1>1, <1>2, <1>3, <1>4, <1>6, <2>1 DEF TypeOK, env, Returned
  <2>3. RetuneInv'
    BY <1>1, <1>2, <1>3, <1>4, <1>6, <2>1 DEF IInv, RetuneInv, Current, env,
       InFlight, Requests, Switches, Returned
  <2>4. HoldInv'
    BY <1>1, <1>2, <1>3, <1>4, <1>6, <2>1, HoldCount DEF HoldInv, env, Held,
       HeldTop, Started, One, Requests, Switches, Returned
  <2>5. NowInv'
    BY <1>1, <1>2, <1>3, <1>4, <1>6, <2>1 DEF IInv, NowInv, Current, env,
       Requests, Switches, Firm, Returned
  <2>6. FlightInv'
    BY <1>1, <1>2, <1>3, <1>4, <1>6, <2>1 DEF IInv, FlightInv, Current, env,
       InFlight, Requests, Switches, Returned
  <2>7. BkopsInv'
    BY <1>1, <1>2, <1>3, <1>4, <1>6, <2>1, BkopsReturn DEF env, Results
  <2>8. TimingInv'
    <3>1. \A a \in Acts(stack') : a.fn # "mmc_retune"
      BY <1>4, <2>1 DEF Returned
    <3>2. stack' # <<>> => Top'.fn # "mmc_retune" /\ Acts(Below') \subseteq
       Acts(stack')
      BY <1>2, <1>4, <2>1 DEF Returned, Current
    <3> QED
      BY <1>6, <3>1, <3>2 DEF TimingInv, Fn, Restoring
  <2> QED
    BY <2>1, <2>2, <2>3, <2>4, <2>5, <2>6, <2>7, <2>8 DEF IInv
<1> QED
  BY <1>5, <1>6 DEF RetuneNext

(* execute_tuning and mmc_interrupt_hpi neither hold re-tuning nor touch   *)
(* the timing: how they go on, call and return.                            *)
Quiet ==
  /\ UNCHANGED <<hold, now, need, doing, timing, parked, card, bkops, cardBusy>>
  /\ can' \in BOOLEAN /\ cqe' \in BOOLEAN

LEMMA StepQuietGoto ==
  ASSUME IInv, stack # <<>>, Top.fn \in {"execute_tuning", "hpi"}, Quiet,
         NEW f \in Frames, f.fn = Top.fn, f.at = Top.at, Goto(f)
  PROVE  IInv'
<1>1. TypeOK /\ StackInv /\ Current /\ Standing(Top)
  BY CurrentTop DEF IInv, Current
<1>2. Standing(f)
  BY <1>1 DEF Standing, Requests, Switches, Scripts, Others
<1>3. Moved(f) /\ StackInv'
  BY <1>1, <1>2, GotoMove
<1>4. TypeOK'
  BY <1>1, <1>3 DEF TypeOK, env, Moved, Quiet
<1>5. RetuneInv'
  BY <1>1, <1>3 DEF IInv, RetuneInv, Current, env, InFlight, Requests, Switches,
     Moved, Quiet
<1>6. HoldInv'
  BY <1>1, <1>3, HoldCount DEF HoldInv, env, Held, HeldTop, Started, One, Requests,
     Switches, Moved, Quiet
<1>7. NowInv'
  BY <1>1, <1>3 DEF IInv, NowInv, Current, env, Requests, Switches, Firm, Moved, Quiet
<1>8. FlightInv'
  BY <1>1, <1>3 DEF IInv, FlightInv, Current, env, InFlight, Requests, Switches,
     Moved, Quiet
<1>9. BkopsInv'
  BY <1>1, <1>3 DEF IInv, BkopsInv, Current, env, Requests, Switches, Fn, Moved, Quiet
<1>10. TimingInv'
  BY <1>1, <1>3, TimingGoto DEF env, Requests, Switches, Quiet
<1> QED
  BY <1>3, <1>4, <1>5, <1>6, <1>7, <1>8, <1>9, <1>10 DEF IInv

LEMMA StepQuietCall ==
  ASSUME IInv, stack # <<>>, Quiet,
         NEW f \in Frames, f.fn = Top.fn, f.at = Top.at, f.step = Top.step,
         NEW g \in {"tuning", "status", "cmd0"}, CallFrom(f, g),
         Top.fn = IF g = "tuning" THEN "execute_tuning" ELSE "hpi"
  PROVE  IInv'
<1>1. TypeOK /\ StackInv /\ Current /\ Standing(Top)
  BY CurrentTop DEF IInv, Current
<1>2. Standing(f) /\ Calls(f, g)
  BY <1>1 DEF Standing, Calls, Requests, Switches, Scripts, Others
<1>3. Called(f, g) /\ StackInv'
  BY <1>1, <1>2, CallMove DEF Functions, Requests
<1>4. TypeOK'
  BY <1>1, <1>3 DEF TypeOK, env, Called, Fresh, Quiet
<1>5. RetuneInv'
  BY <1>1, <1>3 DEF IInv, RetuneInv, Current, env, InFlight, Requests, Switches,
     Called, Fresh, Quiet
<1>6. HoldInv'
  BY <1>1, <1>3, HoldCount DEF HoldInv, env, Held, HeldTop, Started, One, Requests,
     Switches, Called, Fresh, Quiet
<1>7. NowInv'
  <2>1. ~Firm(f)
    BY DEF Firm, Requests, Switches
  <2>2. ~Firm(Top') /\ Acts(stack') = {Top', f} \cup Acts(Below) /\ ret' = "none"
    BY <1>3 DEF Called, Fresh
  <2>3. now => \A a \in Acts(Below) : ~Firm(a)
    BY <1>1 DEF IInv, NowInv, Current
  <2> QED BY <2>1, <2>2, <2>3 DEF IInv, NowInv, Quiet
<1>8. FlightInv'
  BY <1>1, <1>3 DEF IInv, FlightInv, Current, env, InFlight, Requests, Switches,
     Called, Fresh, Quiet
<1>9. BkopsInv'
  BY <1>1, <1>3 DEF IInv, BkopsInv, Current, env, Requests, Switches, Fn, Called,
     Fresh, Quiet
<1>10. TimingInv'
  BY <1>1, <1>3, TimingCall DEF Quiet
<1> QED
  BY <1>3, <1>4, <1>5, <1>6, <1>7, <1>8, <1>9, <1>10 DEF IInv

LEMMA StepQuietReturn ==
  ASSUME IInv, stack # <<>>, Top.fn \in {"execute_tuning", "hpi"}, Quiet,
         NEW e \in Results, Return(e), now => e \in {"other", "inval"}
  PROVE  IInv'
<1>1. TypeOK /\ StackInv /\ Current
  BY CurrentTop DEF IInv, Current
<1>2. Returned(e) /\ StackInv'
  BY <1>1, ReturnMove
<1>3. TypeOK'
  BY <1>1, <1>2 DEF TypeOK, env, Returned, Quiet
<1>4. RetuneInv'
  BY <1>1, <1>2 DEF IInv, RetuneInv, Current, env, InFlight, Requests, Switches,
     Returned, Quiet
<1>5. HoldInv'
  BY <1>1, <1>2, HoldCount DEF HoldInv, env, Held, HeldTop, Started, One, Requests,
     Switches, Returned, Quiet
<1>6. NowInv'
  BY <1>1, <1>2 DEF IInv, NowInv, Current, env, Requests, Switches, Firm, Returned,
     Quiet
<1>7. FlightInv'
  BY <1>1, <1>2 DEF IInv, FlightInv, Current, env, InFlight, Requests, Switches,
     Returned, Quiet
<1>8. BkopsInv'
  BY <1>1, <1>2, BkopsReturn DEF Quiet
<1>9. TimingInv'
  BY <1>1, <1>2, TimingReturn DEF Quiet
<1> QED
  BY <1>2, <1>3, <1>4, <1>5, <1>6, <1>7, <1>8, <1>9 DEF IInv

LEMMA StepTuningBlock ==
  ASSUME IInv, TuningBlock
  PROVE  IInv'
<1>1. stack # <<>> /\ Top.fn = "execute_tuning" /\ Top.left > 0 /\ Quiet
  BY DEF TuningBlock, Fn, Quiet, IInv, TypeOK, tune
<1> DEFINE f == [Top EXCEPT !.left = @ - 1]
<1>2. CallFrom(f, "tuning")
  BY DEF TuningBlock
<1>3. f \in Frames /\ f.fn = Top.fn /\ f.at = Top.at /\ f.step = Top.step
  <2>1. Top \in Frames
    BY <1>1, CurrentTop DEF IInv, Current
  <2> QED BY <1>1, <2>1, LeftLess DEF Frames
<1> HIDE DEF f
<1> QED
  BY <1>1, <1>2, <1>3, StepQuietCall

LEMMA StepTuningDone ==
  ASSUME IInv, TuningDone
  PROVE  IInv'
<1>1. /\ stack # <<>> /\ Top.fn = "execute_tuning" /\ ret # "none"
      /\ UNCHANGED <<hold, now, need, doing, timing, env>>
  BY DEF TuningDone, Fn, Back
<1>2. Top \in Frames /\ (now => ret # "ok")
  BY <1>1, CurrentTop DEF IInv, Current, NowInv
<1>3. Quiet
  BY <1>1 DEF TuningDone, Quiet, env, IInv, TypeOK
<1>4. \/ Goto(Top)
      \/ ret = "ok" /\ Return("ok")
      \/ Return("other")
  BY DEF TuningDone
<1> QED
  BY <1>1, <1>2, <1>3, <1>4, StepQuietGoto, StepQuietReturn DEF Results, Errors

LEMMA StepHpiStep ==
  ASSUME IInv, HpiStep
  PROVE  IInv'
<1>1. stack # <<>> /\ Top.fn = "hpi" /\ Quiet
  BY DEF HpiStep, Fn, Quiet, IInv, TypeOK, tune, env
<1>2. Top \in Frames
  BY <1>1, CurrentTop DEF IInv, Current
<1>3. \/ CallFrom(Top, "cmd0") \/ CallFrom(Top, "status")
      \/ Return("other") \/ Return("inval")
  BY DEF HpiStep
<1> QED
  BY <1>1, <1>2, <1>3, StepQuietCall, StepQuietReturn DEF Results, Errors

LEMMA StepHpiNext ==
  ASSUME IInv, HpiNext
  PROVE  IInv'
<1>1. stack # <<>> /\ Top.fn = "hpi" /\ Quiet /\ ret # "none"
  BY DEF HpiNext, Fn, Back, Quiet, IInv, TypeOK, tune, env
<1>2. /\ Top \in Frames /\ ret \in Results
      /\ now => ret \in {"other", "inval"}
  BY <1>1, CurrentTop DEF IInv, Current, NowInv, TypeOK
<1>3. CASE Return(ret)
  BY <1>1, <1>2, <1>3, StepQuietReturn
<1>4. CASE ret = "ok" /\ \E e \in {"ok", "inval", "timeout"} : Return(e)
  BY <1>1, <1>2, <1>4, StepQuietReturn DEF Results, Errors
<1>5. CASE \/ \E n \in {2, 3} : Goto([Top EXCEPT !.step = n])
           \/ Top.left > 0 /\ Goto([Top EXCEPT !.left = @ - 1])
  <2>1. PICK f : /\ Goto(f)
                 /\ \/ f = [Top EXCEPT !.step = 2]
                    \/ f = [Top EXCEPT !.step = 3]
                    \/ Top.left > 0 /\ f = [Top EXCEPT !.left = @ - 1]
    BY <1>5
  <2>2. f \in Frames /\ f.fn = Top.fn /\ f.at = Top.at
    BY <1>2, <2>1, LeftLess DEF Frames
  <2> QED BY <1>1, <2>1, <2>2, StepQuietGoto
<1> QED
  BY <1>3, <1>4, <1>5 DEF HpiNext

LEMMA StepStartBkops ==
  ASSUME IInv, StartBkops
  PROVE  IInv'
<1>1. /\ stack # <<>> /\ Top.fn = "start_bkops" /\ ret = "none"
      /\ UNCHANGED <<need, doing, can, timing, env>>
  BY DEF StartBkops, Fn, Ready
<1>2. /\ TypeOK /\ StackInv /\ Current /\ Top \in Frames /\ Standing(Top)
      /\ hold \in Nat /\ now \in BOOLEAN
  BY <1>1, CurrentTop DEF IInv, Current, TypeOK
<1>3. /\ Top.step \in {1, 2} /\ (Top.step = 2 => ~bkops)
      /\ Below = <<>> /\ Acts(Below) = {} /\ ~doing
  <2>1. Top.step \in {1, 2}
    BY <1>1, <1>2 DEF Frames, Standing, StackInv, Fn, Back
  <2>2. Top.step # 1 => ~bkops
    BY <1>1, <1>2 DEF IInv, BkopsInv, Current
  <2>3. Below = <<>> /\ Acts(Below) = {} /\ ~doing
    BY <1>1, <1>2, Calm DEF Current, Bottoms
  <2> QED BY <2>1, <2>2, <2>3
<1>4. CASE Top.step = 1 /\ bkops
  <2>1. Return("ok") /\ UNCHANGED <<hold, now>>
    BY <1>4 DEF StartBkops
  <2>2. Returned("ok") /\ StackInv'
    BY <1>1, <1>2, <2>1, ReturnMove DEF Results
  <2>3. ~HeldTop(Top, ret)
    BY <1>1, <1>4 DEF HeldTop, Started, Requests, Switches
  <2>4. TypeOK'
    BY <1>1, <1>2, <1>3, <1>4, <2>1, <2>2, <2>3 DEF TypeOK, env, Returned
  <2>5. RetuneInv'
    BY <1>1, <1>2, <1>3, <1>4, <2>1, <2>2, <2>3 DEF IInv, RetuneInv, Current, env,
       InFlight, Requests, Switches, Returned
  <2>6. HoldInv'
    BY <1>1, <1>2, <1>3, <1>4, <2>1, <2>2, <2>3, HoldCount DEF HoldInv, env, Held,
       HeldTop, Started, One, Requests, Switches, Returned
  <2>7. NowInv'
    BY <1>1, <1>2, <1>3, <1>4, <2>1, <2>2, <2>3 DEF IInv, NowInv, Current, env,
       Requests, Switches, Firm, Returned
  <2>8. FlightInv'
    BY <1>1, <1>2, <1>3, <1>4, <2>1, <2>2, <2>3 DEF IInv, FlightInv, Current, env,
       InFlight, Requests, Switches, Returned
  <2>9. BkopsInv'
    BY <1>1, <1>2, <1>3, <1>4, <2>1, <2>2, <2>3, BkopsReturn DEF env, Results
  <2>10. TimingInv'
    BY <1>1, <1>2, <1>3, <1>4, <2>1, <2>2, <2>3, TimingReturn DEF env, Requests,
       Results
  <2> QED
    BY <2>2, <2>4, <2>5, <2>6, <2>7, <2>8, <2>9, <2>10 DEF IInv
<1>5. CASE Top.step = 1 /\ ~bkops
  <2>1. CallFrom(Top, "data") /\ UNCHANGED <<hold, now>>
    BY <1>5 DEF StartBkops
  <2>2. Calls(Top, "data")
    BY <1>1 DEF Calls
  <2>3. Called(Top, "data") /\ StackInv'
    BY <1>1, <1>2, <2>1, <2>2, CallMove DEF Functions, Requests
  <2>4. TypeOK'
    BY <1>1, <1>2, <1>3, <1>5, <2>1, <2>3 DEF TypeOK, env, Called, Fresh
  <2>5. RetuneInv'
    BY <1>1, <1>2, <1>3, <1>5, <2>1, <2>3 DEF IInv, RetuneInv, Current, env,
       InFlight, Requests, Switches, Called, Fresh
  <2>6. HoldInv'
    BY <1>1, <1>2, <1>3, <1>5, <2>1, <2>3, HoldCount DEF HoldInv, env, Held,
       HeldTop, Started, One, Requests, Switches, Called, Fresh
  <2>7. NowInv'
    BY <1>1, <1>2, <1>3, <1>5, <2>1, <2>3 DEF IInv, NowInv, Current, env,
       Requests, Switches, Firm, Called, Fresh
  <2>8. FlightInv'
    BY <1>1, <1>2, <1>3, <1>5, <2>1, <2>3 DEF IInv, FlightInv, Current, env,
       InFlight, Requests, Switches, Called, Fresh
  <2>9. BkopsInv'
    BY <1>1, <1>2, <1>3, <1>5, <2>1, <2>3 DEF IInv, BkopsInv, Current, env,
       Requests, Switches, Fn, Called, Fresh
  <2>10. TimingInv'
    BY <1>1, <1>2, <1>3, <1>5, <2>1, <2>3, TimingCall DEF env, Requests, Switches
  <2> QED
    BY <2>3, <2>4, <2>5, <2>6, <2>7, <2>8, <2>9, <2>10 DEF IInv
<1>6. CASE Top.step = 2
  <2>1. PICK g \in {"switch", "switchBkops"}, n \in {2, 3} :
          CallFrom([Top EXCEPT !.step = n], g)
    BY <1>6 DEF StartBkops
  <2> DEFINE f == [Top EXCEPT !.step = n]
  <2>2. f \in Frames /\ f.fn = Top.fn /\ f.at = Top.at /\ f.step = n
    BY <1>2 DEF Frames
  <2>3. CallFrom(f, g)
    BY <2>1
  <2> HIDE DEF f
  <2>4. Standing(f) /\ Calls(f, g)
    BY <1>1, <1>2, <2>2 DEF Standing, Calls, Requests, Switches, Scripts, Others
  <2>5. Called(f, g) /\ StackInv'
    BY <1>1, <1>2, <2>2, <2>3, <2>4, CallMove DEF Functions, Switches
  <2>6. hold' = hold + 1 /\ now' = (hold = 0 \/ now) /\ ~HeldTop(Top, ret)
    BY <1>1, <1>6 DEF StartBkops, mmc_retune_hold, HeldTop, Started, Requests, Switches
  <2>7. hold = 0 => OthersClear
    BY <1>1, <1>2, NothingHeld DEF IInv, One
  <2>8. TypeOK'
    BY <1>1, <1>2, <1>3, <1>6, <2>2, <2>5, <2>6, <2>7 DEF TypeOK, env, Called, Fresh
  <2>9. RetuneInv'
    BY <1>1, <1>2, <1>3, <1>6, <2>2, <2>5, <2>6, <2>7 DEF IInv, RetuneInv,
       Current, env, InFlight, Requests, Switches, Called, Fresh
  <2>10. HoldInv'
    BY <1>1, <1>2, <1>3, <1>6, <2>2, <2>5, <2>6, <2>7, HoldCount DEF HoldInv, env,
       Held, HeldTop, Started, One, Requests, Switches, Called, Fresh
  <2>11. NowInv'
    BY <1>1, <1>2, <1>3, <1>6, <2>2, <2>5, <2>6, <2>7 DEF IInv, NowInv, Current,
       env, Requests, Switches, Firm, Called, Fresh, OthersClear
  <2>12. FlightInv'
    BY <1>1, <1>2, <1>3, <1>6, <2>2, <2>5, <2>6, <2>7 DEF IInv, FlightInv,
       Current, env, InFlight, Requests, Switches, Called, Fresh
  <2>13. BkopsInv'
    BY <1>1, <1>2, <1>3, <1>6, <2>2, <2>5, <2>6, <2>7 DEF IInv, BkopsInv, Current,
       env, Requests, Switches, Fn, Called, Fresh
  <2>14. TimingInv'
    <3>1. \A a \in Acts(stack') : a.fn # "mmc_retune"
      BY <1>1, <1>3, <2>2, <2>5 DEF Called, Fresh, Switches
    <3> QED
      BY <1>1, <1>3, <2>5, <3>1 DEF TimingInv, Called, Fn, Restoring
  <2> QED
    BY <2>5, <2>8, <2>9, <2>10, <2>11, <2>12, <2>13, <2>14 DEF IInv
<1> QED
  BY <1>3, <1>4, <1>5, <1>6

LEMMA StepStartBkopsNext ==
  ASSUME IInv, StartBkopsNext
  PROVE  IInv'
<1>1. /\ stack # <<>> /\ Top.fn = "start_bkops" /\ ret # "none"
      /\ UNCHANGED <<need, doing, can, timing, parked, card, cqe, cardBusy>>
  BY DEF StartBkopsNext, Fn, Back
<1>2. /\ TypeOK /\ StackInv /\ Current /\ Top \in Frames /\ Standing(Top)
      /\ hold \in Nat /\ now \in BOOLEAN /\ ret \in Results
  BY <1>1, CurrentTop DEF IInv, Current, TypeOK
<1>3. /\ Top.step \in {1, 2, 3} /\ Below = <<>> /\ Acts(Below) = {} /\ ~doing /\ ~bkops
  BY <1>1, <1>2, Calm DEF Frames, Standing, Current, Bottoms, IInv, BkopsInv, Fn, Back
<1>4. now => ret # "ok"
  BY <1>1 DEF IInv, NowInv
<1>5. HeldTop(Top, ret) <=> Top.step # 1
  BY <1>1, <1>3 DEF HeldTop, Started, Requests, Switches
<1>6. CASE Top.step = 1 /\ Goto([Top EXCEPT !.step = 2])
  <2> DEFINE f == [Top EXCEPT !.step = 2]
  <2>1. f \in Frames /\ f.fn = Top.fn /\ f.at = Top.at /\ f.step = 2
    BY <1>2 DEF Frames
  <2>2. Goto(f)
    BY <1>6
  <2> HIDE DEF f
  <2>3. Standing(f)
    BY <1>1, <1>2, <2>1 DEF Standing, Requests, Switches, Scripts, Others
  <2>4. Moved(f) /\ StackInv'
    BY <1>1, <1>2, <2>1, <2>2, <2>3, GotoMove
  <2>5. UNCHANGED <<hold, now, bkops>>
    BY <1>3, <1>6, <2>4 DEF StartBkopsNext, Moved, Return
  <2>6. TypeOK'
    BY <1>1, <1>2, <1>3, <1>5, <1>6, <2>1, <2>4, <2>5 DEF TypeOK, env, Moved
  <2>7. RetuneInv'
    BY <1>1, <1>2, <1>3, <1>5, <1>6, <2>1, <2>4, <2>5 DEF IInv, RetuneInv,
       Current, env, InFlight, Requests, Switches, Moved
  <2>8. HoldInv'
    BY <1>1, <1>2, <1>3, <1>5, <1>6, <2>1, <2>4, <2>5, HoldCount DEF HoldInv, env,
       Held, HeldTop, Started, One, Requests, Switches, Moved
  <2>9. NowInv'
    BY <1>1, <1>2, <1>3, <1>5, <1>6, <2>1, <2>4, <2>5 DEF IInv, NowInv, Current,
       env, Requests, Switches, Firm, Moved
  <2>10. FlightInv'
    BY <1>1, <1>2, <1>3, <1>5, <1>6, <2>1, <2>4, <2>5 DEF IInv, FlightInv,
       Current, env, InFlight, Requests, Switches, Moved
  <2>11. BkopsInv'
    BY <1>1, <1>2, <1>3, <1>5, <1>6, <2>1, <2>4, <2>5 DEF IInv, BkopsInv, Current,
       env, Requests, Switches, Fn, Moved
  <2>12. TimingInv'
    BY <1>1, <1>2, <1>3, <1>5, <1>6, <2>1, <2>4, <2>5, TimingGoto DEF env,
       Requests, Switches
  <2> QED
    BY <2>4, <2>6, <2>7, <2>8, <2>9, <2>10, <2>11, <2>12 DEF IInv
<1>7. CASE \E e \in Results : Return(e)
  <2>1. PICK e \in Results : Return(e)
    BY <1>7
  <2>2. Returned(e) /\ StackInv' /\ stack' = <<>>
    BY <1>1, <1>2, <1>3, <2>1, ReturnMove DEF Returned
  <2>3. \/ Top.step = 1 /\ UNCHANGED <<hold, now, bkops>>
        \/ Top.step = 3 /\ ~now /\ bkops' = TRUE /\ UNCHANGED <<hold, now>>
        \/ /\ Top.step # 1 /\ bkops' = bkops /\ now' = now
           /\ hold' = (IF hold = 0 THEN 0 ELSE hold - 1)
    BY <1>4 DEF StartBkopsNext, mmc_retune_release
  <2>4. hold' \in Nat /\ now' \in BOOLEAN /\ bkops' \in BOOLEAN
    <3>1. hold' = hold \/ hold' = (IF hold = 0 THEN 0 ELSE hold - 1)
      BY <2>3
    <3>2. hold' \in Nat
      BY <1>2, <3>1
    <3>3. now \in BOOLEAN /\ bkops \in BOOLEAN
      BY <1>2 DEF TypeOK
    <3> QED BY <2>3, <3>2, <3>3
  <2>5. TypeOK'
    BY <1>1, <1>2, <1>3, <1>5, <2>2, <2>3, <2>4 DEF TypeOK, env, Returned
  <2>6. RetuneInv'
    BY <1>1, <1>2, <1>3, <1>5, <2>2, <2>3 DEF IInv, RetuneInv, Current, env,
       InFlight, Requests, Switches, Returned
  <2>7. HoldInv'
    BY <1>1, <1>2, <1>3, <1>5, <2>2, <2>3, HoldCount DEF HoldInv, env, Held,
       HeldTop, Started, One, Requests, Switches, Returned
  <2>8. NowInv'
    BY <1>1, <1>2, <1>3, <1>5, <2>2, <2>3 DEF IInv, NowInv, Current, env,
       Requests, Switches, Firm, Returned
  <2>9. FlightInv'
    BY <1>1, <1>2, <1>3, <1>5, <2>2, <2>3 DEF IInv, FlightInv, Current, env,
       InFlight, Requests, Switches, Returned
  <2>10. BkopsInv'
    BY <1>1, <1>2, <1>3, <1>5, <2>2, <2>3 DEF IInv, BkopsInv, Current, env,
       Requests, Switches, Fn, Returned
  <2>11. TimingInv'
    BY <1>1, <1>2, <1>3, <1>5, <2>2, <2>3 DEF IInv, TimingInv, Current, env,
       Requests, Fn, Restoring, Below, Top, Returned
  <2> QED
    BY <2>2, <2>5, <2>6, <2>7, <2>8, <2>9, <2>10, <2>11 DEF IInv
<1> QED
  BY <1>2, <1>6, <1>7 DEF StartBkopsNext, Results

LEMMA StepStopBkops ==
  ASSUME IInv, StopBkops
  PROVE  IInv'
<1>1. /\ stack # <<>> /\ Top.fn = "stop_bkops"
      /\ UNCHANGED <<need, doing, can, timing, parked, card, cqe, cardBusy>>
  BY DEF StopBkops, Fn
<1>2. /\ TypeOK /\ StackInv /\ Current /\ Top \in Frames /\ hold \in Nat
  BY <1>1, CurrentTop DEF IInv, Current, TypeOK
<1>3. /\ Below = <<>> /\ Acts(Below) = {} /\ ~doing /\ bkops /\ ~now
  BY <1>1, <1>2, Calm DEF Current, Bottoms, IInv, BkopsInv, NowInv
<1>4. ~HeldTop(Top, ret)
  BY <1>1 DEF HeldTop, Started, Requests, Switches
<1>5. CASE CallFrom(Top, "hpi") /\ UNCHANGED <<hold, now, bkops>>
  <2>1. Calls(Top, "hpi") /\ ~Held(Top) /\ Standing(Top)
    BY <1>1, <1>2 DEF Calls, Held, Started, Requests, Switches, Current
  <2>2. Called(Top, "hpi") /\ StackInv'
    BY <1>1, <1>2, <1>5, <2>1, CallMove DEF Functions, Others
  <2>3. TypeOK'
    BY <1>1, <1>2, <1>3, <1>4, <1>5, <2>1, <2>2 DEF TypeOK, env, Called, Fresh
  <2>4. RetuneInv'
    BY <1>1, <1>2, <1>3, <1>4, <1>5, <2>1, <2>2 DEF IInv, RetuneInv, Current, env,
       InFlight, Requests, Switches, Called, Fresh
  <2>5. HoldInv'
    BY <1>1, <1>2, <1>3, <1>4, <1>5, <2>1, <2>2, HoldCount DEF HoldInv, env, Held,
       HeldTop, Started, One, Requests, Switches, Called, Fresh
  <2>6. NowInv'
    BY <1>1, <1>2, <1>3, <1>4, <1>5, <2>1, <2>2 DEF IInv, NowInv, Current, env,
       Requests, Switches, Firm, Called, Fresh
  <2>7. FlightInv'
    BY <1>1, <1>2, <1>3, <1>4, <1>5, <2>1, <2>2 DEF IInv, FlightInv, Current, env,
       InFlight, Requests, Switches, Called, Fresh
  <2>8. BkopsInv'
    BY <1>1, <1>2, <1>3, <1>4, <1>5, <2>1, <2>2 DEF IInv, BkopsInv, Current, env,
       Requests, Switches, Fn, Called, Fresh
  <2>9. TimingInv'
    BY <1>1, <1>2, <1>3, <1>4, <1>5, <2>1, <2>2, TimingCall DEF env, Requests,
       Switches
  <2> QED
    BY <2>2, <2>3, <2>4, <2>5, <2>6, <2>7, <2>8, <2>9 DEF IInv
<1>6. CASE \E e \in Results : Return(e)
  <2>1. PICK e \in Results : Return(e)
    BY <1>6
  <2>2. Returned(e) /\ StackInv' /\ stack' = <<>>
    BY <1>1, <1>2, <1>3, <2>1, ReturnMove DEF Returned
  <2>3. \/ UNCHANGED <<hold, now, bkops>>
        \/ /\ bkops' = FALSE /\ now' = now
           /\ hold' = (IF hold = 0 THEN 0 ELSE hold - 1)
    <3>1. ~CallFrom(Top, "hpi") \/ stack' # <<>>
      <4> SUFFICES ASSUME CallFrom(Top, "hpi") PROVE stack' # <<>>
        OBVIOUS
      <4>1. Calls(Top, "hpi") /\ Standing(Top)
        BY <1>1, <1>2 DEF Calls, Current
      <4> QED BY <1>1, <1>2, <4>1, CallMove DEF Functions, Others, Called
    <3> QED BY <2>2, <3>1 DEF StopBkops, mmc_retune_release
  <2>4. hold' \in Nat /\ now' \in BOOLEAN /\ bkops' \in BOOLEAN
    <3>1. hold' = hold \/ hold' = (IF hold = 0 THEN 0 ELSE hold - 1)
      BY <2>3
    <3>2. hold' \in Nat
      BY <1>2, <3>1
    <3>3. now \in BOOLEAN /\ bkops \in BOOLEAN
      BY <1>2 DEF TypeOK
    <3> QED BY <2>3, <3>2, <3>3
  <2>5. TypeOK'
    BY <1>1, <1>2, <1>3, <1>4, <2>2, <2>3, <2>4 DEF TypeOK, env, Returned
  <2>6. RetuneInv'
    BY <1>1, <1>2, <1>3, <1>4, <2>2, <2>3 DEF IInv, RetuneInv, Current, env,
       InFlight, Requests, Switches, Returned
  <2>7. HoldInv'
    <3>1. /\ hold = Count(Below) + One(parked # Idle) + 1
          /\ Count(Below) \in Nat
      BY <1>1, <1>3, <1>4, HoldCount DEF One
    <3>2. TopCount(stack', ret') = Count(Below) /\ parked' = parked
      BY <1>1, <2>2 DEF Returned
    <3>3. One(parked # Idle) \in Nat
      BY DEF One
    <3>4. \/ hold' = hold /\ One(bkops') = 1
          \/ hold' = hold - 1 /\ One(bkops') = 0
      <4>1. CASE UNCHANGED <<hold, now, bkops>>
        BY <1>3, <4>1 DEF One
      <4>2. CASE bkops' = FALSE /\ hold' = (IF hold = 0 THEN 0 ELSE hold - 1)
        BY <3>1, <3>3, <4>2 DEF One
      <4> QED BY <2>3, <4>1, <4>2
    <3>5. One(parked' # Idle) = One(parked # Idle)
      BY <3>2
    <3> QED
      BY <3>1, <3>2, <3>3, <3>4, <3>5 DEF HoldInv
  <2>8. NowInv'
    BY <1>1, <1>2, <1>3, <1>4, <2>2, <2>3 DEF IInv, NowInv, Current, env,
       Requests, Switches, Firm, Returned
  <2>9. FlightInv'
    BY <1>1, <1>2, <1>3, <1>4, <2>2, <2>3 DEF IInv, FlightInv, Current, env,
       InFlight, Requests, Switches, Returned
  <2>10. BkopsInv'
    BY <1>1, <1>2, <1>3, <1>4, <2>2, <2>3 DEF IInv, BkopsInv, Current, env,
       Requests, Switches, Fn, Returned
  <2>11. TimingInv'
    BY <1>1, <1>2, <1>3, <1>4, <2>2, <2>3 DEF IInv, TimingInv, Current, env,
       Requests, Fn, Restoring, Below, Top, Returned
  <2> QED
    BY <2>2, <2>5, <2>6, <2>7, <2>8, <2>9, <2>10, <2>11 DEF IInv
<1> QED
  <2>1. Back => ret \in Results
    BY <1>2 DEF TypeOK, Back
  <2> QED BY <1>5, <1>6, <2>1 DEF StopBkops, Results

(* With nothing on the stack, the next call begins.                        *)
Began(f) ==
  /\ stack' \in Seq(Frames) /\ stack' # <<>> /\ ret' = "none"
  /\ Top' = f /\ Below' = <<>> /\ Acts(stack') = {f} /\ Acts(Below') = {}
  /\ TopCount(stack', ret') = One(HeldTop(f, "none"))

LEMMA BeginMove ==
  ASSUME NEW f \in Frames, Standing(f), f.fn = "start_bkops" => f.step # 3,
         stack' = <<f>>, ret' = "none"
  PROVE  Began(f) /\ StackInv'
<1>1. stack' = <<f>> \o <<>> /\ <<>> \in Seq(Frames)
  <2>1. <<f>> \in Seq(Frames)
    OBVIOUS
  <2> QED BY <2>1, ConcatEmptySeq
<1>2. OnTop(stack', f, <<>>)
  BY <1>1, ConsOnTop
<1>3. Began(f)
  BY <1>2, EmptyChain DEF Began, OnTop, Top, Below, TopCount, One
<1> QED
  BY <1>2, <1>3, EmptyChain DEF StackInv, OnTop, Began, Fn, Top, Ready

LEMMA EmptyStack ==
  ASSUME IInv, stack = <<>>
  PROVE  /\ Acts(stack) = {} /\ ~doing /\ TypeOK /\ StackInv /\ ret = "none"
         /\ hold = One(parked # Idle) + One(bkops)
  BY EmptyChain DEF IInv, RetuneInv, HoldInv, TopCount, StackInv, One, TypeOK

LEMMA StepCall ==
  ASSUME IInv, Start
  PROVE  IInv'
<1>1. PICK fn \in Ops \ {"cqe"} :
        /\ stack = <<>> /\ stack' = <<Frame(fn)>> /\ ret' = "none"
        /\ fn = "stop_bkops" => bkops
        /\ fn = "tfr" => parked = Idle
  BY DEF Start, Enter
<1>2. UNCHANGED <<hold, now, need, doing, can, timing, env>>
  BY DEF Start, tune
<1>3. Acts(stack) = {} /\ ~doing /\ TypeOK /\ hold = One(parked # Idle) + One(bkops)
  BY <1>1, EmptyStack
<1>4. fn \in Functions /\ fn # "mmc_retune"
  BY <1>1, OpsAssumption DEF Functions
<1> DEFINE f == Frame(fn)
<1>5. Fresh(f, fn)
  BY <1>3, <1>4, FrameFresh
<1> HIDE DEF f
<1>6. Began(f) /\ StackInv'
  BY <1>1, <1>5, BeginMove DEF f, Fresh
<1>7. TypeOK'
  BY <1>1, <1>2, <1>3, <1>4, <1>5, <1>6 DEF TypeOK, env, Began, Fresh
<1>8. RetuneInv'
  BY <1>1, <1>2, <1>3, <1>4, <1>5, <1>6 DEF IInv, RetuneInv, Current, env, InFlight,
     Requests, Switches, Began, Fresh
<1>9. HoldInv'
  BY <1>1, <1>2, <1>3, <1>4, <1>5, <1>6, HoldCount DEF HoldInv, env, Held, HeldTop,
     Started, One, Requests, Switches, Began, Fresh
<1>10. NowInv'
  BY <1>1, <1>2, <1>3, <1>4, <1>5, <1>6 DEF IInv, NowInv, Current, env, Requests,
     Switches, Firm, Began, Fresh
<1>11. FlightInv'
  BY <1>1, <1>2, <1>3, <1>4, <1>5, <1>6 DEF IInv, FlightInv, Current, env, InFlight,
     Requests, Switches, Began, Fresh
<1>12. BkopsInv'
  <2>1. Top'.fn = fn /\ Top'.step = 1 /\ ret' = "none" /\ bkops' = bkops
    BY <1>2, <1>5, <1>6 DEF Began, Fresh, env
  <2> QED
    BY <1>1, <1>6, <2>1 DEF BkopsInv, Began, Back
<1>13. TimingInv'
  BY <1>1, <1>2, <1>3, <1>4, <1>5, <1>6 DEF IInv, TimingInv, Current, env, Requests,
     Fn, Restoring, Below, Top, Began, Fresh
<1> QED
  BY <1>6, <1>7, <1>8, <1>9, <1>10, <1>11, <1>12, <1>13 DEF IInv

LEMMA StepWaitTransfer ==
  ASSUME IInv, WaitTransfer
  PROVE  IInv'
<1> DEFINE f == [parked EXCEPT !.step = 2]
<1>1. /\ stack = <<>> /\ parked.fn = "tfr" /\ stack' = <<f>> /\ ret' = "none"
      /\ parked' = Idle
      /\ UNCHANGED <<hold, now, need, doing, can, timing, card, bkops, cqe, cardBusy>>
  BY DEF WaitTransfer, tune
<1>2. Acts(stack) = {} /\ ~doing /\ TypeOK /\ hold = One(parked # Idle) + One(bkops)
  BY <1>1, EmptyStack
<1>3. parked \in Frames /\ parked # Idle /\ parked.at \in {"host", "wait"}
  BY <1>1, <1>2 DEF TypeOK, Idle, IInv, FlightInv
<1>4. /\ f \in Frames /\ f.fn = "tfr" /\ f.at = parked.at /\ f.err = parked.err
      /\ f.step = 2
  BY <1>1, <1>3 DEF Frames
<1> HIDE DEF f
<1>5. Standing(f)
  BY <1>3, <1>4 DEF Standing, Requests, Switches, Scripts, Others
<1>6. Began(f) /\ StackInv'
  BY <1>1, <1>4, <1>5, BeginMove
<1>7. ~InFlight'
  BY <1>1 DEF InFlight, Idle
<1>8. TypeOK'
  BY <1>1, <1>2, <1>3, <1>4, <1>6, <1>7 DEF TypeOK, env, Began
<1>9. RetuneInv'
  BY <1>1, <1>2, <1>3, <1>4, <1>6, <1>7 DEF IInv, RetuneInv, Current, env, InFlight,
     Requests, Switches, Began
<1>10. HoldInv'
  BY <1>1, <1>2, <1>3, <1>4, <1>6, <1>7, HoldCount DEF HoldInv, env, Held, HeldTop,
     Started, One, Requests, Switches, Began
<1>11. NowInv'
  BY <1>1, <1>2, <1>3, <1>4, <1>6, <1>7 DEF IInv, NowInv, Current, env, Requests,
     Switches, Firm, Began
<1>12. FlightInv'
  BY <1>1, <1>2, <1>3, <1>4, <1>6, <1>7 DEF IInv, FlightInv, Current, env, InFlight,
     Requests, Switches, Began
<1>13. BkopsInv'
  BY <1>1, <1>2, <1>3, <1>4, <1>6, <1>7 DEF IInv, BkopsInv, Current, env, Requests,
     Switches, Fn, Began
<1>14. TimingInv'
  BY <1>1, <1>2, <1>3, <1>4, <1>6, <1>7 DEF IInv, TimingInv, Current, env, Requests,
     Fn, Restoring, Below, Top, Began
<1> QED
  BY <1>6, <1>8, <1>9, <1>10, <1>11, <1>12, <1>13, <1>14 DEF IInv

LEMMA StepEnvironment ==
  ASSUME IInv, CqeOn \/ PowerOff \/ mmc_retune_timer \/ UNCHANGED vars
  PROVE  IInv'
<1>1. /\ UNCHANGED <<stack, ret, hold, doing, parked, card, bkops, cardBusy>>
      /\ timing' = timing \/ (stack = <<>> /\ timing' = "LEGACY")
      /\ now' = now \/ now' = FALSE
  BY DEF CqeOn, PowerOff, mmc_retune_timer, vars, tune, env
<1>2. TypeOK /\ (stack = <<>> => ~doing /\ Acts(stack) = {})
  BY EmptyStack DEF IInv
<1>3. TypeOK'
  <2>1. need' \in BOOLEAN /\ can' \in BOOLEAN /\ cqe' \in BOOLEAN
    BY <1>2 DEF TypeOK, CqeOn, PowerOff, mmc_retune_timer, mmc_retune_needed, vars,
       tune, env
  <2> QED BY <1>1, <1>2, <2>1 DEF TypeOK, Timings
<1>4. StackInv'
  BY <1>1 DEF IInv, StackInv, Top, Below, Fn, Ready, Back
<1>5. RetuneInv' /\ HoldInv'
  BY <1>1 DEF IInv, RetuneInv, HoldInv, InFlight
<1>6. NowInv' /\ FlightInv' /\ BkopsInv'
  BY <1>1 DEF IInv, NowInv, FlightInv, BkopsInv, InFlight, Top, Below, Fn, Back
<1>7. TimingInv'
  <2>1. CASE timing' = timing
    BY <1>1, <2>1 DEF IInv, TimingInv, Restoring, Top, Below, Fn, Ready
  <2>2. CASE stack = <<>>
    BY <1>1, <1>2, <2>2 DEF TimingInv, Fn
  <2> QED BY <1>1, <2>1, <2>2
<1> QED
  BY <1>3, <1>4, <1>5, <1>6, <1>7 DEF IInv

-----------------------------------------------------------------------------
(* IInv holds throughout.                                                  *)

LEMMA InitIInv == Init => IInv
<1> SUFFICES ASSUME Init PROVE IInv
  OBVIOUS
<1>1. /\ stack = <<>> /\ ret = "none" /\ hold = 0 /\ now = FALSE /\ need = FALSE
      /\ doing = FALSE /\ can = FALSE /\ parked = Idle /\ timing = "LEGACY"
      /\ card = "none" /\ bkops = FALSE /\ cqe = FALSE /\ cardBusy \in BOOLEAN
  BY DEF Init
<1>2. Acts(stack) = {} /\ stack \in Seq(Frames) /\ Linked(stack) /\ Guarded(stack)
  BY <1>1, EmptyChain
<1>3. ~InFlight
  BY <1>1 DEF InFlight, Idle
<1>4. TypeOK /\ StackInv /\ RetuneInv
  BY <1>1, <1>2 DEF TypeOK, StackInv, RetuneInv, Fn, Timings
<1>5. HoldInv
  BY <1>1 DEF HoldInv, TopCount, One
<1>6. NowInv /\ FlightInv /\ BkopsInv /\ TimingInv
  BY <1>1, <1>2, <1>3 DEF NowInv, FlightInv, BkopsInv, TimingInv, Fn
<1> QED
  BY <1>4, <1>5, <1>6 DEF IInv

LEMMA StepIInv == IInv /\ [Next]_vars => IInv'
<1> SUFFICES ASSUME IInv, [Next]_vars PROVE IInv'
  OBVIOUS
<1>1. CASE Request
  BY <1>1, StepStart, StepRetune, StepRetuneReturned, StepIssue, StepParkFailed,
     StepWaitDone, StepSanitize DEF Request
<1>2. CASE HostDone
  BY <1>2, StepHostDone
<1>3. CASE Switch
  BY <1>3, StepSwitchStart, StepSwitchSent, StepPollForBusy, StepPolled,
     StepSwitchChecked DEF Switch
<1>4. CASE ScriptStep \/ ScriptNext
  BY <1>4, StepScriptStep, StepScriptNext
<1>5. CASE Retune
  BY <1>5, StepRetuneBody, StepRetuneNext, StepTuningBlock, StepTuningDone DEF Retune
<1>6. CASE Bkops
  BY <1>6, StepHpiStep, StepHpiNext, StepStartBkops, StepStartBkopsNext,
     StepStopBkops DEF Bkops
<1>7. CASE Start \/ WaitTransfer
  BY <1>7, StepCall, StepWaitTransfer
<1>8. CASE CqeOn \/ PowerOff \/ mmc_retune_timer \/ UNCHANGED vars
  BY <1>8, StepEnvironment
<1>9. CASE CommandAnswered
  BY <1>9, StepCommandAnswered
<1> QED
  BY <1>1, <1>2, <1>3, <1>4, <1>5, <1>6, <1>7, <1>8, <1>9 DEF Next, Run

(* IInv, the inductive invariant, holds in every reachable state.          *)
THEOREM Invariance == Spec => []IInv
  BY InitIInv, StepIInv, PTL DEF Spec

(* Every variable has its type: the stack holds activations of known       *)
(* functions at places they have, and no bounded counter goes below zero.  *)
THEOREM TypeCorrect == Spec => []TypeOK
<1>1. IInv => TypeOK
  BY DEF IInv
<1> QED
  BY <1>1, Invariance, PTL

(* The engine's books balance: hold_retune is the number of activations    *)
(* that took a hold and have not given it back, one more for a transfer in *)
(* flight and one for BKOPS left running.                                  *)
THEOREM Balance == Spec => []HoldBalanced
<1>1. ASSUME IInv PROVE HoldBalanced
  <2> DEFINE U == {i \in 1 .. Len(stack) : Holding(stack[i])}
  <2>1. Cardinality(U) = TopCount(stack, ret)
    <3>1. CASE stack = <<>>
      <4>1. U = {}
        BY <3>1
      <4> QED BY <3>1, <4>1, FS_EmptySet DEF TopCount
    <3>2. CASE stack # <<>>
      <4> DEFINE T == {i \in 1 .. Len(Below) : Held(Below[i])}
      <4>1. Current /\ stack \in Seq(Frames)
        BY <1>1, <3>2, CurrentTop DEF IInv, TypeOK
      <4>2. stack = <<Top>> \o Below
        BY <3>2, <4>1, Uncons DEF Top, Below
      <4>3. /\ Len(stack) = Len(Below) + 1 /\ stack[1] = Top /\ Len(Below) \in Nat
            /\ \A i \in 1 .. Len(Below) : stack[i + 1] = Below[i]
        BY <4>1, <4>2, ConsIndex, LenProperties DEF Current
      <4>4. 1 \in U <=> HeldTop(Top, ret)
        BY <4>3 DEF Holding, HeldTop, Started
      <4>5. ASSUME NEW i \in 1 .. Len(Below)
            PROVE  Holding(stack[i + 1]) <=> Held(Below[i])
        <5>1. Below # <<>>
          BY <4>3
        <5>2. Below[i].fn \in {"sleep", "start_bkops"} => Below[i] # Top
          BY <4>1, <5>1 DEF Current, Bottoms
        <5> QED BY <4>3, <5>2 DEF Holding, Held, Started
      <4>6. /\ T \in SUBSET (1 .. Len(Below)) /\ U \in SUBSET (1 .. Len(Below) + 1)
            /\ \A i \in 1 .. Len(Below) : i + 1 \in U <=> i \in T
        BY <4>3, <4>5
      <4>7. Count(Below) = Cardinality(T)
        BY DEF Count
      <4> HIDE DEF T, U
      <4>8. Cardinality(U) = Cardinality(T) + One(1 \in U) /\ Cardinality(T) \in Nat
        BY <4>3, <4>6, CountTop
      <4> QED BY <4>1, <4>4, <4>7, <4>8 DEF Current, One
    <3> QED BY <3>1, <3>2
  <2> QED BY <1>1, <2>1 DEF IInv, HoldInv, HoldBalanced, One
<1> QED
  BY <1>1, Invariance, PTL

(* A re-tune never runs inside a sequence that has taken a hold and sent   *)
(* its first command, nor while a transfer is in flight or BKOPS run, nor  *)
(* inside another re-tune.                                                 *)
THEOREM HeldSequences == Spec => []HeldNotTuned
<1>1. ASSUME IInv PROVE HeldNotTuned
  <2> SUFFICES ASSUME NEW i \in 1 .. Len(stack), Retuning(i)
               PROVE  /\ ~bkops /\ ~InFlight
                      /\ \A j \in i + 1 .. Len(stack) :
                           /\ stack[j].fn \in Switches => stack[j].at = "cmd"
                           /\ stack[j].fn = "sleep" => stack[j].step = 1
                           /\ ~Retuning(j)
    BY DEF HeldNotTuned
  <2>1. ~bkops /\ ~InFlight
    BY <1>1 DEF IInv, RetuneInv, Acts, Retuning
  <2>2. Len(stack) \in Nat
    BY <1>1, LenProperties DEF IInv, TypeOK
  <2>3. ASSUME NEW j \in i + 1 .. Len(stack) PROVE Lets(stack[j])
    <3>1. j \in 1 .. Len(stack) /\ i < j
      BY <2>2
    <3> QED BY <1>1, <3>1 DEF IInv, StackInv, Guarded, Retuning
  <2> QED BY <2>1, <2>3 DEF Lets, Retuning
<1> QED
  BY <1>1, Invariance, PTL

(* Two requests never have the command line: one is sent only by the       *)
(* running activation, and none while the command of a transfer in flight  *)
(* has not been answered.                                                  *)
THEOREM Exclusive == Spec => []CommandLineExclusive
<1>1. ASSUME IInv PROVE CommandLineExclusive
  <2> DEFINE U == {i \in 1 .. Len(stack) : stack[i].at = "host"}
  <2>1. CASE stack = <<>>
    <3>1. U = {}
      BY <2>1
    <3>2. Cardinality(U) = 0
      BY <3>1, FS_EmptySet
    <3> QED BY <3>2 DEF CommandLineExclusive
  <2>2. CASE stack # <<>>
    <3>1. Current /\ stack \in Seq(Frames)
      BY <1>1, <2>2, CurrentTop DEF IInv, TypeOK
    <3>2. stack = <<Top>> \o Below
      BY <2>2, <3>1, Uncons DEF Top, Below
    <3>3. /\ Len(stack) = Len(Below) + 1 /\ stack[1] = Top /\ Len(Below) \in Nat
          /\ \A i \in 1 .. Len(Below) : stack[i + 1] = Below[i]
      BY <3>1, <3>2, ConsIndex, LenProperties DEF Current
    <3>4. \A i \in 1 .. Len(Below) : Below[i].at # "host"
      BY <3>1 DEF Current, Acts
    <3>5. /\ {} \in SUBSET (1 .. Len(Below)) /\ U \in SUBSET (1 .. Len(Below) + 1)
          /\ \A i \in 1 .. Len(Below) : i + 1 \in U <=> i \in {}
      BY <3>3, <3>4
    <3>6. 1 \in U <=> Top.at = "host"
      BY <3>3
    <3> HIDE DEF U
    <3>7. Cardinality(U) = 0 + One(1 \in U)
      BY <3>3, <3>5, CountTop, FS_EmptySet
    <3>8. InFlight => Top.at # "host"
      BY <1>1, <3>1 DEF IInv, FlightInv, Current, Standing, Switches, Scripts, Others,
         Requests, Frames
    <3>9. Cardinality(U) + (IF InFlight /\ ~Answered THEN 1 ELSE 0) <= 1
      BY <3>6, <3>7, <3>8 DEF One
    <3> QED BY <3>9 DEF CommandLineExclusive, U
  <2> QED BY <2>1, <2>2
<1> QED
  BY <1>1, Invariance, PTL

(* A re-tune that reports success has put the bus back in the timing it    *)
(* began in, HS400 through the walk to HS200 and back included.            *)
THEOREM Restored == Spec => TimingRestored
<1>1. ASSUME IInv, [Next]_vars, stack # <<>>, Fn({"mmc_retune"}), stack' = Below,
             ret' = "ok"
      PROVE  timing = Top.old
  <2>1. Current /\ Top.fn = "mmc_retune" /\ Top.at = "run" /\ Top.step \in {1, 2, 3}
    <3>1. Current /\ Top.fn = "mmc_retune"
      BY <1>1, CurrentTop DEF IInv, Fn
    <3>2. Standing(Top) /\ Top \in Frames
      BY <3>1 DEF Current
    <3>3. Top.step \in 1 .. 6
      BY <3>2 DEF Frames
    <3>4. Top.at = "run" /\ Top.step <= 3
      BY <3>1, <3>2 DEF Standing, Others
    <3> QED BY <3>1, <3>3, <3>4
  <2>2. stack' # stack
    BY <1>1, TopOnTop DEF IInv, TypeOK, OnTop, Below
  <2>3. RetuneNext
    <3>1. ~(CqeOn \/ PowerOff \/ mmc_retune_timer \/ CommandAnswered \/ UNCHANGED vars)
      BY <2>2 DEF CqeOn, PowerOff, mmc_retune_timer, CommandAnswered, vars
    <3>2. ~(Start \/ WaitTransfer)
      BY <1>1 DEF Start, Enter, WaitTransfer
    <3>3. ~HostDone
      BY <2>1, <2>2 DEF HostDone
    <3>4. ~Request
      BY <2>1 DEF Request, mmc_start_request, mmc_retune, RetuneReturned,
         __mmc_start_request, ParkFailedTransfer, mmc_wait_for_req_done,
         SanitizeInterrupted, Fn, Requests
    <3>5. ~(Switch \/ ScriptStep \/ ScriptNext)
      BY <2>1 DEF Switch, SwitchStart, SwitchSent, mmc_poll_for_busy, Polled,
         SwitchChecked, ScriptStep, ScriptNext, Fn, Switches, Scripts
    <3>6. ~Bkops
      BY <2>1 DEF Bkops, HpiStep, HpiNext, StartBkops, StartBkopsNext, StopBkops, Fn
    <3>7. ~(RetuneBody \/ TuningBlock \/ TuningDone)
      BY <1>1, <2>1 DEF RetuneBody, TuningBlock, TuningDone, CallFrom, Fn
    <3> QED BY <1>1, <3>1, <3>2, <3>3, <3>4, <3>5, <3>6, <3>7 DEF Next, Run, Retune
  <2>4. /\ ret = "ok"
        /\ Top.step = 3 \/ (Top.step = 2 /\ Top.old # "HS400")
    BY <1>1, <2>1, <2>3 DEF RetuneNext, Goto, Return
  <2>5. Restoring(Top) /\ (Top.step = 3 => timing = "HS400")
    BY <1>1, <2>1, <2>4 DEF IInv, TimingInv, Current
  <2> QED BY <2>1, <2>4, <2>5 DEF Restoring
<1>2. IInv /\ [Next]_vars =>
        [stack # <<>> /\ Fn({"mmc_retune"}) /\ stack' = Below /\ ret' = "ok"
         => timing = Top.old]_vars
  BY <1>1
<1> QED
  BY <1>2, Invariance, PTL DEF Spec, TimingRestored
===============================================================================
