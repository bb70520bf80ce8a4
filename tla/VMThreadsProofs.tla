---------------------------- MODULE VMThreadsProofs ----------------------------
(***************************************************************************)
(* Proofs about the threads of the virtual machine, for any number of      *)
(* threads and descriptors: the waiters of a mutex and of a condition are  *)
(* asleep, and a thread is resumed for the call in which it blocked.       *)
(***************************************************************************)
EXTENDS VMThreads, SequenceTheorems, WellFoundedInduction, TLAPS

Flags  == {"READ", "WRITE", "SELECT", "DELAY", "JOIN", "WAIT", "SUSPENDED", "KILLED"}
Causes == {"unborn", "none", "io", "select", "delay", "join", "wait", "sleep"}
Results == {"unit", "RESUMED_IO", "RESUMED_SELECT", "RESUMED_DELAY", "RESUMED_JOIN", "RESUMED_WAIT",
            "RESUMED_WAKEUP"}
Places == {"run", "lock", "enlist", "sleep", "waking", "condwaking", "cond"}

VMTypeOK ==
  /\ ring \in Seq(Thread) /\ ring # <<>>
  /\ status \in [Thread -> SUBSET Flags] /\ cause \in [Thread -> Causes]
  /\ delay \in [Thread -> {"none", "pending", "past"}]
  /\ joining \in [Thread -> Thread \cup {NULL}] /\ retval \in [Thread -> Results]
  /\ pc \in {"run", "scan", "select"} /\ run_thread \in Thread \cup {NULL}
  /\ critical_section \in BOOLEAN /\ locked \in BOOLEAN
  /\ waiting \in Seq(Thread) /\ cond_waiting \in Seq(Thread)
  /\ to_wake \in [Thread -> Seq(Thread)] /\ place \in [Thread -> Places] /\ torn \in BOOLEAN

\* The thread that runs is runnable and has taken what it was waiting for, and
\* so is the one that schedule_thread has chosen before select.
SchedInv ==
  /\ pc = "run" => status[curr_thread] = {} /\ cause[curr_thread] = "none"
  /\ pc = "select" /\ run_thread # NULL => run_thread \in ToSet(ring) /\ status[run_thread] = {}
  /\ \A th \in ToSet(ring) : cause[th] # "unborn"

\* With the cause c, a blocked thread has the flags s of the call in which it
\* blocked; once runnable it has a result r that this call may have.
Explained(s, c, r, past, dead, reaped) ==
  /\ c = "unborn" => s = {}
  /\ c = "none" => s = {} \/ s = {"KILLED"}
  /\ c = "io" => IF s = {} THEN r \in {"RESUMED_IO", "RESUMED_DELAY"}
                 ELSE s \subseteq {"READ", "WRITE", "DELAY"}
  /\ c = "select" => IF s = {} THEN r \in {"RESUMED_SELECT", "RESUMED_DELAY"}
                     ELSE s \subseteq {"SELECT", "DELAY"}
  /\ c = "delay" => IF s = {} THEN r = "RESUMED_DELAY" /\ past ELSE s = {"DELAY"}
  /\ c = "join" => IF s = {} THEN r = "RESUMED_JOIN" /\ dead ELSE s = {"JOIN"}
  /\ c = "wait" => IF s = {} THEN r = "RESUMED_WAIT" /\ reaped ELSE s = {"WAIT"}
  /\ c = "sleep" => IF s = {} THEN r = "RESUMED_WAKEUP" ELSE s = {"SUSPENDED"}

CauseInv ==
  \A th \in Thread :
    /\ Explained(status[th], cause[th], retval[th], delay[th] = "past", Killed(joining[th]),
                 child = "reaped")
    /\ cause[th] = "join" => joining[th] \in Thread

\* The threads on some list of waiters.
Waking(p) == ToSet(to_wake[p])
OnList   == ToSet(waiting) \cup ToSet(cond_waiting) \cup UNION {Waking(p) : p \in Thread}

\* The places inside a critical section.
Critical == {"enlist", "sleep", "cond", "condwaking"}

\* No thread is twice on the lists.
ListsDistinct ==
  /\ IsInjective(waiting) /\ IsInjective(cond_waiting)
  /\ ToSet(waiting) \cap ToSet(cond_waiting) = {}
  /\ \A p \in Thread :
       /\ IsInjective(to_wake[p])
       /\ Waking(p) \cap (ToSet(waiting) \cup ToSet(cond_waiting)) = {}
       /\ \A q \in Thread \ {p} : Waking(p) \cap Waking(q) = {}

\* The threads on the lists sleep or are about to, and the others do not.
ListsInv ==
  /\ ListsDistinct
  /\ \A th \in OnList : th \in Lockers /\ (place[th] = "sleep" \/ (place[th] = "lock" /\ status[th] = {"SUSPENDED"}))
  /\ \A th \in Thread :
       /\ place[th] # "run" => th \in Lockers
       /\ place[th] = "sleep" => th \in OnList
       /\ status[th] = {"SUSPENDED"} => th \in OnList /\ place[th] = "lock"
       /\ place[th] \in Critical => pc = "run" /\ th = curr_thread /\ critical_section
       /\ place[th] = "enlist" => locked
       /\ to_wake[th] # <<>> => place[th] \in {"waking", "condwaking"}
  /\ critical_section => pc = "run" /\ place[curr_thread] \in Critical
  /\ waiting # <<>> => locked

\* What holds whoever is killed, and what holds until a kill tears a list.
CoreInv  == VMTypeOK /\ SchedInv /\ CauseInv
WholeInv == CoreInv /\ ListsInv

VMInv == CoreInv /\ (~torn => ListsInv)

-----------------------------------------------------------------------------
(* Numbers and sequences.                                                  *)

LEMMA NatMin ==
  ASSUME NEW S \in SUBSET Nat, S # {}
  PROVE  \E m \in S : \A n \in S : m <= n
<1> DEFINE R == OpToRel(<, Nat)
<1>1. IsWellFoundedOn(R, Nat)
  BY NatLessThanWellFounded
<1>2. \A x, y \in Nat : <<x, y>> \in R <=> x < y
  BY DEF OpToRel
<1> HIDE DEF R
<1>3. \E x \in S : \A y \in S : ~(<<y, x>> \in R)
  BY <1>1, WFMin
<1>4. PICK m \in S : \A y \in S : ~(<<y, m>> \in R)
  BY <1>3
<1>5. \A n \in S : m <= n
  <2> TAKE n \in S
  <2>1. m \in Nat /\ n \in Nat /\ ~(n < m)
    BY <1>2, <1>4
  <2> QED BY <2>1
<1> QED BY <1>4, <1>5

LEMMA HeadSet ==
  ASSUME NEW s \in Seq(Thread), s # <<>>
  PROVE  /\ Head(s) \in ToSet(s) /\ Head(s) \in Thread /\ Head(s) = s[1] /\ Len(s) \in Nat \ {0}
         /\ DOMAIN s = 1 .. Len(s)
<1>1. Len(s) \in Nat /\ Len(s) # 0 /\ DOMAIN s = 1 .. Len(s)
  BY EmptySeq
<1>2. Head(s) = s[1] /\ s[1] \in Thread /\ 1 \in DOMAIN s
  BY <1>1
<1> QED BY <1>1, <1>2 DEF ToSet

LEMMA ToSetIn ==
  ASSUME NEW s \in Seq(Thread)
  PROVE  ToSet(s) \subseteq Thread /\ (ToSet(s) = {} <=> s = <<>>)
<1>1. Len(s) \in Nat /\ DOMAIN s = 1 .. Len(s) /\ (s = <<>> <=> Len(s) = 0)
  BY EmptySeq
<1>2. ToSet(s) \subseteq Thread
  BY <1>1, ElementOfSeq DEF ToSet
<1>3. CASE Len(s) = 0
  BY <1>1, <1>3 DEF ToSet
<1>4. CASE Len(s) # 0
  <2>1. 1 \in DOMAIN s
    BY <1>1, <1>4
  <2> QED BY <1>1, <1>2, <1>4, <2>1 DEF ToSet
<1> QED BY <1>3, <1>4, <1>2

LEMMA TailSet ==
  ASSUME NEW s \in Seq(Thread), s # <<>>
  PROVE  /\ Tail(s) \in Seq(Thread) /\ ToSet(Tail(s)) \cup {Head(s)} = ToSet(s)
         /\ IsInjective(s) => IsInjective(Tail(s)) /\ Head(s) \notin ToSet(Tail(s))
<1>1. /\ Tail(s) \in Seq(Thread) /\ Len(Tail(s)) = Len(s) - 1
      /\ \A i \in 1 .. Len(Tail(s)) : Tail(s)[i] = s[i + 1]
  BY HeadTailProperties
<1>2. /\ Len(s) \in Nat \ {0} /\ DOMAIN s = 1 .. Len(s) /\ DOMAIN Tail(s) = 1 .. (Len(s) - 1)
      /\ Head(s) = s[1]
  BY <1>1, HeadSet
<1>3. ASSUME NEW x \in ToSet(s), x # Head(s) PROVE x \in ToSet(Tail(s))
  <2>1. PICK i \in 1 .. Len(s) : s[i] = x
    BY <1>2 DEF ToSet
  <2>2. i - 1 \in 1 .. (Len(s) - 1) /\ (i - 1) + 1 = i
    BY <1>2, <1>3, <2>1
  <2> QED BY <1>1, <1>2, <2>1, <2>2 DEF ToSet
<1>4. ASSUME NEW x \in ToSet(Tail(s)) PROVE x \in ToSet(s)
  <2>1. PICK i \in 1 .. (Len(s) - 1) : Tail(s)[i] = x
    BY <1>2 DEF ToSet
  <2>2. i + 1 \in 1 .. Len(s) /\ s[i + 1] = x
    BY <1>1, <1>2, <2>1
  <2> QED BY <1>2, <2>2 DEF ToSet
<1>5. ASSUME IsInjective(s) PROVE IsInjective(Tail(s)) /\ Head(s) \notin ToSet(Tail(s))
  <2>1. ASSUME NEW i \in 1 .. (Len(s) - 1), NEW j \in 1 .. (Len(s) - 1), Tail(s)[i] = Tail(s)[j]
        PROVE  i = j
    <3>1. i + 1 \in 1 .. Len(s) /\ j + 1 \in 1 .. Len(s) /\ s[i + 1] = s[j + 1]
      BY <1>1, <1>2, <2>1
    <3>2. i + 1 = j + 1
      BY <1>2, <1>5, <3>1 DEF IsInjective
    <3> QED BY <3>2
  <2>2. ASSUME NEW i \in 1 .. (Len(s) - 1) PROVE Tail(s)[i] # Head(s)
    <3>1. i + 1 \in 1 .. Len(s) /\ Tail(s)[i] = s[i + 1] /\ 1 \in 1 .. Len(s) /\ i + 1 # 1
      BY <1>1, <1>2
    <3> QED BY <1>2, <1>5, <3>1 DEF IsInjective
  <2> QED BY <1>2, <2>1, <2>2 DEF IsInjective, ToSet
<1> QED BY <1>1, <1>3, <1>4, <1>5, HeadSet

LEMMA ConcatSet ==
  ASSUME NEW s \in Seq(Thread), NEW t \in Seq(Thread)
  PROVE  /\ s \o t \in Seq(Thread) /\ ToSet(s \o t) = ToSet(s) \cup ToSet(t)
         /\ s # <<>> => s \o t # <<>> /\ Head(s \o t) = Head(s)
<1>1. /\ s \o t \in Seq(Thread) /\ Len(s \o t) = Len(s) + Len(t)
      /\ \A i \in 1 .. Len(s) + Len(t) : (s \o t)[i] = IF i <= Len(s) THEN s[i] ELSE t[i - Len(s)]
  BY ConcatProperties
<1>2. /\ Len(s) \in Nat /\ Len(t) \in Nat /\ DOMAIN s = 1 .. Len(s) /\ DOMAIN t = 1 .. Len(t)
      /\ DOMAIN (s \o t) = 1 .. (Len(s) + Len(t))
  BY <1>1
<1>3. ASSUME NEW x \in ToSet(s) PROVE x \in ToSet(s \o t)
  <2>1. PICK i \in 1 .. Len(s) : s[i] = x
    BY <1>2 DEF ToSet
  <2>2. i \in 1 .. (Len(s) + Len(t)) /\ (s \o t)[i] = x
    BY <1>1, <1>2, <2>1
  <2> QED BY <1>2, <2>2 DEF ToSet
<1>4. ASSUME NEW x \in ToSet(t) PROVE x \in ToSet(s \o t)
  <2>1. PICK i \in 1 .. Len(t) : t[i] = x
    BY <1>2 DEF ToSet
  <2>2. i + Len(s) \in 1 .. (Len(s) + Len(t)) /\ ~(i + Len(s) <= Len(s)) /\ (i + Len(s)) - Len(s) = i
    BY <1>2
  <2>3. (s \o t)[i + Len(s)] = x
    BY <1>1, <2>1, <2>2
  <2> QED BY <1>2, <2>2, <2>3 DEF ToSet
<1>5. ASSUME NEW x \in ToSet(s \o t) PROVE x \in ToSet(s) \cup ToSet(t)
  <2>1. PICK i \in 1 .. (Len(s) + Len(t)) : (s \o t)[i] = x
    BY <1>2 DEF ToSet
  <2>2. CASE i <= Len(s)
    BY <1>1, <1>2, <2>1, <2>2 DEF ToSet
  <2>3. CASE ~(i <= Len(s))
    <3>1. i - Len(s) \in 1 .. Len(t) /\ t[i - Len(s)] = x
      BY <1>1, <1>2, <2>1, <2>3
    <3> QED BY <1>2, <3>1 DEF ToSet
  <2> QED BY <2>2, <2>3
<1>6. ASSUME s # <<>> PROVE s \o t # <<>> /\ Head(s \o t) = Head(s)
  <2>1. Len(s) # 0 /\ Len(s \o t) # 0 /\ Head(s) = s[1]
    BY <1>1, <1>2, <1>6, HeadSet
  <2>2. s \o t # <<>>
    BY <1>1, <2>1, EmptySeq
  <2>3. Head(s \o t) = (s \o t)[1] /\ 1 \in 1 .. Len(s) + Len(t) /\ 1 <= Len(s)
    BY <1>1, <1>2, <2>1, <2>2, HeadSet
  <2> QED BY <1>1, <2>1, <2>2, <2>3
<1> QED BY <1>1, <1>3, <1>4, <1>5, <1>6

LEMMA ConsSet ==
  ASSUME NEW p \in Thread, NEW s \in Seq(Thread)
  PROVE  /\ <<p>> \o s \in Seq(Thread) /\ ToSet(<<p>> \o s) = ToSet(s) \cup {p}
         /\ IsInjective(s) /\ p \notin ToSet(s) => IsInjective(<<p>> \o s)
<1>1. <<p>> \in Seq(Thread) /\ Len(<<p>>) = 1 /\ <<p>>[1] = p
  OBVIOUS
<1>2. ToSet(<<p>>) = {p}
  BY <1>1 DEF ToSet
<1>3. ASSUME IsInjective(s), p \notin ToSet(s) PROVE IsInjective(<<p>> \o s)
  <2> DEFINE u == <<p>> \o s
  <2>1. /\ u \in Seq(Thread) /\ Len(u) = 1 + Len(s) /\ Len(s) \in Nat /\ DOMAIN s = 1 .. Len(s)
        /\ \A i \in 1 .. 1 + Len(s) : u[i] = IF i <= 1 THEN p ELSE s[i - 1]
    BY <1>1, ConcatProperties
  <2>2. DOMAIN u = 1 .. 1 + Len(s)
    BY <2>1
  <2> HIDE DEF u
  <2>3. ASSUME NEW i \in 1 .. 1 + Len(s), NEW j \in 1 .. 1 + Len(s), u[i] = u[j] PROVE i = j
    <3>1. i # 1 => u[i] = s[i - 1] /\ i - 1 \in 1 .. Len(s) /\ u[i] \in ToSet(s)
      BY <2>1 DEF ToSet
    <3>2. j # 1 => u[j] = s[j - 1] /\ j - 1 \in 1 .. Len(s) /\ u[j] \in ToSet(s)
      BY <2>1 DEF ToSet
    <3>3. (i = 1 => u[i] = p) /\ (j = 1 => u[j] = p)
      BY <2>1
    <3>4. i # 1 /\ j # 1 => i - 1 = j - 1
      BY <1>3, <2>1, <2>3, <3>1, <3>2 DEF IsInjective
    <3> QED BY <1>3, <2>3, <3>1, <3>2, <3>3, <3>4
  <2> QED BY <2>2, <2>3 DEF IsInjective, u
<1>4. <<p>> \o s \in Seq(Thread) /\ ToSet(<<p>> \o s) = ToSet(<<p>>) \cup ToSet(s)
  BY <1>1, ConcatSet
<1> QED BY <1>2, <1>3, <1>4

LEMMA PartSet ==
  ASSUME NEW s \in Seq(Thread), NEW a \in Int, NEW b \in Int, 1 <= a, b <= Len(s), a <= b + 1
  PROVE  /\ SubSeq(s, a, b) \in Seq(Thread) /\ Len(SubSeq(s, a, b)) = b - a + 1
         /\ \A i \in 1 .. b - a + 1 : SubSeq(s, a, b)[i] = s[a + i - 1]
<1>1. \A i \in a .. b : s[i] \in Thread
  BY ElementOfSeq
<1> QED BY <1>1, SubSeqProperties

\* The two parts of a sequence.
LEMMA SplitSet ==
  ASSUME NEW s \in Seq(Thread), NEW n \in 0 .. Len(s)
  PROVE  /\ SubSeq(s, 1, n) \in Seq(Thread) /\ SubSeq(s, n + 1, Len(s)) \in Seq(Thread)
         /\ ToSet(SubSeq(s, 1, n)) \cup ToSet(SubSeq(s, n + 1, Len(s))) = ToSet(s)
         /\ IsInjective(s) => /\ IsInjective(SubSeq(s, 1, n)) /\ IsInjective(SubSeq(s, n + 1, Len(s)))
                              /\ ToSet(SubSeq(s, 1, n)) \cap ToSet(SubSeq(s, n + 1, Len(s))) = {}
<1> DEFINE u == SubSeq(s, 1, n)
           v == SubSeq(s, n + 1, Len(s))
           m == Len(s)
<1>1. m \in Nat /\ n \in Nat /\ n <= m /\ DOMAIN s = 1 .. m
  OBVIOUS
<1>2. u \in Seq(Thread) /\ Len(u) = n /\ \A i \in 1 .. n : u[i] = s[i]
  BY <1>1, PartSet
<1>3. v \in Seq(Thread) /\ Len(v) = m - n /\ \A i \in 1 .. (m - n) : v[i] = s[i + n]
  <2> DEFINE a == n + 1
  <2>1. a \in Int /\ 1 <= a /\ m - a + 1 = m - n /\ (a <= m + 1)
    BY <1>1
  <2> HIDE DEF a
  <2>2. /\ SubSeq(s, a, m) \in Seq(Thread) /\ Len(SubSeq(s, a, m)) = m - a + 1
        /\ \A i \in 1 .. m - a + 1 : SubSeq(s, a, m)[i] = s[a + i - 1]
    BY <1>1, <2>1, PartSet
  <2>3. \A i \in 1 .. (m - n) : a + i - 1 = i + n
    BY <1>1 DEF a
  <2> QED BY <2>1, <2>2, <2>3 DEF a
<1>4. DOMAIN u = 1 .. n /\ DOMAIN v = 1 .. (m - n)
  <2> HIDE DEF u, v
  <2> QED BY <1>1, <1>2, <1>3
<1> HIDE DEF u, v, m
<1>5. ToSet(u) \subseteq ToSet(s) /\ ToSet(v) \subseteq ToSet(s)
  <2>1. ASSUME NEW x \in ToSet(u) PROVE x \in ToSet(s)
    <3>1. PICK i \in 1 .. n : u[i] = x
      BY <1>4 DEF ToSet
    <3>2. i \in 1 .. m /\ s[i] = x
      BY <1>1, <1>2, <3>1
    <3> QED BY <1>1, <3>2 DEF ToSet
  <2>2. ASSUME NEW x \in ToSet(v) PROVE x \in ToSet(s)
    <3>1. PICK i \in 1 .. (m - n) : v[i] = x
      BY <1>4 DEF ToSet
    <3>2. i + n \in 1 .. m /\ s[i + n] = x
      BY <1>1, <1>3, <3>1
    <3> QED BY <1>1, <3>2 DEF ToSet
  <2> QED BY <2>1, <2>2
<1>6. ASSUME NEW x \in ToSet(s) PROVE x \in ToSet(u) \cup ToSet(v)
  <2>1. PICK i \in 1 .. m : s[i] = x
    BY <1>1 DEF ToSet
  <2>2. CASE i <= n
    BY <1>1, <1>2, <1>4, <2>1, <2>2 DEF ToSet
  <2>3. CASE ~(i <= n)
    <3>1. i - n \in 1 .. (m - n) /\ (i - n) + n = i
      BY <1>1, <2>3
    <3>2. v[i - n] = x
      BY <1>3, <2>1, <3>1
    <3> QED BY <1>4, <3>1, <3>2 DEF ToSet
  <2> QED BY <2>2, <2>3
<1>7. ASSUME IsInjective(s) PROVE IsInjective(u) /\ IsInjective(v) /\ ToSet(u) \cap ToSet(v) = {}
  <2>1. \A i, j \in 1 .. m : s[i] = s[j] => i = j
    BY <1>1, <1>7 DEF IsInjective
  <2>2. IsInjective(u)
    BY <1>1, <1>2, <1>4, <2>1 DEF IsInjective
  <2>3. ASSUME NEW i \in 1 .. (m - n), NEW j \in 1 .. (m - n), v[i] = v[j] PROVE i = j
    <3>1. i + n \in 1 .. m /\ j + n \in 1 .. m /\ s[i + n] = s[j + n]
      BY <1>1, <1>3, <2>3
    <3>2. i + n = j + n
      BY <2>1, <3>1
    <3> QED BY <1>1, <3>2
  <2>4. ASSUME NEW i \in 1 .. n, NEW j \in 1 .. (m - n), u[i] = v[j] PROVE FALSE
    <3>1. i \in 1 .. m /\ j + n \in 1 .. m /\ s[i] = s[j + n] /\ i # j + n
      BY <1>1, <1>2, <1>3, <2>4
    <3> QED BY <2>1, <3>1
  <2> QED BY <1>4, <2>2, <2>3, <2>4 DEF IsInjective, ToSet
<1> QED BY <1>2, <1>3, <1>5, <1>6, <1>7 DEF u, v, m

LEMMA PositionIn ==
  ASSUME NEW s \in Seq(Thread), NEW th \in ToSet(s)
  PROVE  Position(s, th) \in 1 .. Len(s) /\ s[Position(s, th)] = th /\ Len(s) \in Nat
BY DEF Position, ToSet

\* Turning the list changes who is first.
LEMMA RotatedSet ==
  ASSUME NEW s \in Seq(Thread), NEW th \in ToSet(s)
  PROVE  /\ Rotated(s, th) \in Seq(Thread) /\ Rotated(s, th) # <<>>
         /\ Head(Rotated(s, th)) = th /\ ToSet(Rotated(s, th)) = ToSet(s)
<1> DEFINE i == Position(s, th)
           n == i - 1
           u == SubSeq(s, 1, n)
           v == SubSeq(s, n + 1, Len(s))
<1>1. i \in 1 .. Len(s) /\ s[i] = th /\ Len(s) \in Nat
  BY PositionIn
<1> HIDE DEF i
<1>2. n \in 0 .. Len(s) /\ n + 1 = i
  BY <1>1
<1>3. Rotated(s, th) = v \o u
  BY <1>2 DEF Rotated, i
<1> HIDE DEF n
<1>4. u \in Seq(Thread) /\ v \in Seq(Thread) /\ ToSet(u) \cup ToSet(v) = ToSet(s)
  BY <1>2, SplitSet
<1>5. v # <<>> /\ Head(v) = th
  <2>1. Len(SubSeq(s, i, Len(s))) = Len(s) - i + 1 /\ SubSeq(s, i, Len(s))[1] = s[i + 1 - 1]
    BY <1>1, PartSet
  <2>2. Len(v) # 0 /\ v[1] = th
    BY <1>1, <1>2, <2>1
  <2> HIDE DEF v
  <2>3. v # <<>>
    BY <1>4, <2>2, EmptySeq
  <2> QED BY <1>4, <2>2, <2>3, HeadSet
<1> HIDE DEF u, v
<1>6. v \o u \in Seq(Thread) /\ ToSet(v \o u) = ToSet(v) \cup ToSet(u) /\ v \o u # <<>> /\ Head(v \o u) = Head(v)
  BY <1>4, <1>5, ConcatSet
<1> QED BY <1>3, <1>4, <1>5, <1>6

\* Unlinking a thread that is not the first.
LEMMA RemovedSet ==
  ASSUME NEW s \in Seq(Thread), s # <<>>, NEW th \in ToSet(s), th # Head(s)
  PROVE  LET r == RemoveAt(s, Position(s, th))
         IN  r \in Seq(Thread) /\ r # <<>> /\ Head(r) = Head(s) /\ ToSet(r) \subseteq ToSet(s)
<1> DEFINE i == Position(s, th)
           n == i - 1
           u == SubSeq(s, 1, n)
           v == SubSeq(s, i + 1, Len(s))
<1>1. i \in 1 .. Len(s) /\ s[i] = th /\ Len(s) \in Nat
  BY PositionIn
<1>2. Head(s) = s[1]
  BY HeadSet
<1> HIDE DEF i
<1>3. n \in 1 .. Len(s) /\ n + 1 = i /\ i \in 0 .. Len(s) /\ n \in 0 .. Len(s)
  BY <1>1, <1>2
<1>4. RemoveAt(s, i) = u \o v
  BY <1>3 DEF RemoveAt
<1> HIDE DEF n
<1>5. u \in Seq(Thread) /\ ToSet(u) \subseteq ToSet(s)
  BY <1>3, SplitSet
<1>6. v \in Seq(Thread) /\ ToSet(v) \subseteq ToSet(s)
  BY <1>3, SplitSet
<1>7. u # <<>> /\ Head(u) = Head(s)
  <2>1. Len(SubSeq(s, 1, n)) = n - 1 + 1 /\ SubSeq(s, 1, n)[1] = s[1 + 1 - 1]
    BY <1>1, <1>3, PartSet
  <2>2. Len(u) # 0 /\ u[1] = s[1]
    BY <1>3, <2>1
  <2> HIDE DEF u
  <2>3. u # <<>>
    BY <1>5, <2>2, EmptySeq
  <2> QED BY <1>2, <1>5, <2>2, <2>3, HeadSet
<1> HIDE DEF u, v
<1>8. u \o v \in Seq(Thread) /\ ToSet(u \o v) = ToSet(u) \cup ToSet(v) /\ u \o v # <<>> /\ Head(u \o v) = Head(u)
  BY <1>5, <1>6, <1>7, ConcatSet
<1> QED BY <1>4, <1>5, <1>6, <1>7, <1>8 DEF i

LEMMA AppendSet ==
  ASSUME NEW s \in Seq(Thread), s # <<>>, NEW th \in Thread
  PROVE  /\ Append(s, th) \in Seq(Thread) /\ Append(s, th) # <<>> /\ Head(Append(s, th)) = Head(s)
         /\ ToSet(Append(s, th)) = ToSet(s) \cup {th}
<1>1. Append(s, th) = s \o <<th>> /\ <<th>> \in Seq(Thread) /\ ToSet(<<th>>) = {th}
  BY AppendIsConcat DEF ToSet
<1> HIDE DEF ToSet
<1>2. s \o <<th>> \in Seq(Thread) /\ ToSet(s \o <<th>>) = ToSet(s) \cup ToSet(<<th>>)
      /\ s \o <<th>> # <<>> /\ Head(s \o <<th>>) = Head(s)
  BY <1>1, ConcatSet
<1> QED BY <1>1, <1>2

\* The threads that FOREACH_THREAD visits are those of the list.
LEMMA VisitedSet ==
  ASSUME ring \in Seq(Thread), ring # <<>>
  PROVE  Visited \in Seq(Thread) /\ ToSet(Visited) = ToSet(ring)
<1>1. Tail(ring) \in Seq(Thread) /\ ToSet(Tail(ring)) \cup {Head(ring)} = ToSet(ring)
  BY TailSet
<1>2. Head(ring) \in Thread
  BY HeadSet
<1>3. <<Head(ring)>> \in Seq(Thread) /\ ToSet(<<Head(ring)>>) = {Head(ring)}
  BY <1>2 DEF ToSet
<1> QED BY <1>1, <1>3, ConcatSet DEF Visited, curr_thread

\* The first thread that the loop finds is in the list and runnable.
LEMMA FirstFound ==
  ASSUME ring \in Seq(Thread), ring # <<>>, NEW st \in [Thread -> SUBSET Flags]
  PROVE  \/ FirstRunnable(st) = NULL /\ \A th \in ToSet(ring) : st[th] # {}
         \/ FirstRunnable(st) \in ToSet(ring) /\ st[FirstRunnable(st)] = {}
<1> DEFINE R == {i \in DOMAIN Visited : st[Visited[i]] = {}}
<1>1. Visited \in Seq(Thread) /\ ToSet(Visited) = ToSet(ring)
  BY VisitedSet
<1>2. DOMAIN Visited \subseteq Nat
  BY <1>1
<1>3. CASE R = {}
  BY <1>1, <1>3 DEF FirstRunnable, ToSet
<1>4. CASE R # {}
  <2>1. R \in SUBSET Nat
    BY <1>2
  <2>2. \E m \in R : \A n \in R : m <= n
    BY <1>4, <2>1, NatMin
  <2> DEFINE i == CHOOSE i \in R : \A j \in R : i <= j
  <2>3. i \in R
    BY <2>2
  <2>4. FirstRunnable(st) = Visited[i]
    BY <1>4 DEF FirstRunnable
  <2> HIDE DEF i
  <2>5. Visited[i] \in ToSet(Visited) /\ st[Visited[i]] = {}
    BY <2>3 DEF ToSet
  <2> QED BY <1>1, <2>4, <2>5
<1> QED BY <1>3, <1>4

-----------------------------------------------------------------------------
(* schedule_thread.                                                        *)

\* waitpid gives the child to a thread of the list that asked for it.
LEMMA ReaperAsked ==
  ASSUME ring \in Seq(Thread), ring # <<>>
  PROVE  Reaper = NULL \/ (Reaper \in ToSet(ring) /\ "WAIT" \in status[Reaper])
<1> DEFINE R == {i \in DOMAIN Visited : "WAIT" \in status[Visited[i]]}
<1>1. Visited \in Seq(Thread) /\ ToSet(Visited) = ToSet(ring)
  BY VisitedSet
<1>2. DOMAIN Visited \subseteq Nat
  BY <1>1
<1>3. CASE child # "exited" \/ R = {}
  BY <1>3 DEF Reaper
<1>4. CASE ~(child # "exited" \/ R = {})
  <2>1. R \in SUBSET Nat /\ R # {}
    BY <1>2, <1>4
  <2>2. \E m \in R : \A n \in R : m <= n
    BY <2>1, NatMin
  <2> DEFINE i == CHOOSE i \in R : \A j \in R : i <= j
  <2>3. i \in R
    BY <2>2
  <2>4. Reaper = Visited[i]
    BY <1>4 DEF Reaper
  <2> HIDE DEF i
  <2>5. Visited[i] \in ToSet(Visited) /\ "WAIT" \in status[Visited[i]]
    BY <2>3 DEF ToSet
  <2> QED BY <1>1, <2>4, <2>5
<1> QED BY <1>3, <1>4

\* The lists of waiters when nobody falls asleep or is woken by another thread.
LEMMA ListsFrame ==
  ASSUME ListsInv, UNCHANGED <<critical_section, locks>>,
         \A th \in Thread : status'[th] = {"SUSPENDED"} <=> status[th] = {"SUSPENDED"},
         critical_section => pc' = "run" /\ curr_thread' = curr_thread
  PROVE  ListsInv'
<1>1. UNCHANGED <<waiting, cond_waiting, to_wake, place, locked, critical_section>>
  BY DEF locks
<1>2. OnList' = OnList /\ ListsDistinct' = ListsDistinct
  BY <1>1 DEF OnList, Waking, ListsDistinct
<1>3. Lockers \subseteq Thread
  BY VMAssumption
<1>4. ListsInv => (\A th \in Thread : place[th] \in Critical => critical_section /\ th = curr_thread)
  BY DEF ListsInv
<1> QED BY <1>1, <1>2, <1>3, <1>4 DEF ListsInv

\* schedule_thread activates a runnable thread of the list.
LEMMA ActivateKeeps ==
  ASSUME VMTypeOK, SchedInv, NEW th \in ToSet(ring), NEW rv \in [Thread -> Results], Activate(th, rv),
         status' \in [Thread -> SUBSET Flags], status'[th] = {}, status[th] # {"KILLED"},
         NEW reaped \in BOOLEAN, (child' = "reaped") = reaped,
         UNCHANGED <<critical_section, locks>>,
         \A t \in Thread :
           Explained(status'[t], cause[t], rv[t], delay[t] = "past", status'[joining[t]] = {"KILLED"}, reaped),
         \A t \in Thread : cause[t] = "join" => joining[t] \in Thread
  PROVE  VMTypeOK' /\ SchedInv' /\ CauseInv'
<1> DEFINE s == IF Killed(curr_thread) THEN Tail(ring) ELSE ring
<1>1. ring \in Seq(Thread) /\ ring # <<>> /\ th \in Thread
  BY ToSetIn DEF VMTypeOK
<1>2. s \in Seq(Thread) /\ th \in ToSet(s) /\ ToSet(s) \subseteq ToSet(ring)
  <2>1. Tail(ring) \in Seq(Thread) /\ ToSet(Tail(ring)) \cup {Head(ring)} = ToSet(ring)
    BY <1>1, TailSet
  <2> QED BY <1>1, <2>1 DEF Killed, curr_thread
<1>3. ring' = Rotated(s, th)
  BY DEF Activate
<1> HIDE DEF s
<1>4. ring' \in Seq(Thread) /\ ring' # <<>> /\ curr_thread' = th /\ ToSet(ring') \subseteq ToSet(ring)
  BY <1>2, <1>3, RotatedSet DEF curr_thread
<1>5. /\ delay' = [delay EXCEPT ![th] = "none"] /\ joining' = [joining EXCEPT ![th] = NULL]
      /\ cause' = [cause EXCEPT ![th] = "none"] /\ retval' = [rv EXCEPT ![th] = "unit"]
      /\ pc' = "run" /\ run_thread' = NULL
  BY DEF Activate
<1>6. VMTypeOK'
  <2>1. /\ delay' \in [Thread -> {"none", "pending", "past"}] /\ joining' \in [Thread -> Thread \cup {NULL}]
        /\ cause' \in [Thread -> Causes] /\ pc' \in {"run", "scan", "select"}
        /\ run_thread' \in Thread \cup {NULL}
    BY <1>1, <1>5 DEF VMTypeOK, Causes
  <2>2. retval' \in [Thread -> Results]
    BY <1>5 DEF Results
  <2>3. UNCHANGED <<critical_section, locked, waiting, cond_waiting, to_wake, place, torn>>
    BY DEF locks
  <2> QED BY <1>4, <2>1, <2>2, <2>3 DEF VMTypeOK
<1>7. cause'[th] = "none" /\ \A t \in Thread \ {th} : cause'[t] = cause[t]
  BY <1>1, <1>5 DEF VMTypeOK
<1>8. SchedInv'
  <2>1. \A t \in ToSet(ring') : cause'[t] # "unborn"
    BY <1>1, <1>4, <1>7, ToSetIn DEF SchedInv
  <2> QED BY <1>4, <1>5, <1>7, <2>1 DEF SchedInv
<1>9. CauseInv'
  <2> SUFFICES ASSUME NEW t \in Thread
               PROVE  /\ Explained(status'[t], cause'[t], retval'[t], delay'[t] = "past",
                                   status'[joining'[t]] = {"KILLED"}, child' = "reaped")
                      /\ cause'[t] = "join" => joining'[t] \in Thread
    BY DEF CauseInv, Killed
  <2>1. CASE t = th
    BY <1>7, <2>1 DEF Explained
  <2>2. CASE t # th
    <3>1. retval'[t] = rv[t] /\ delay'[t] = delay[t] /\ joining'[t] = joining[t] /\ cause'[t] = cause[t]
      BY <1>1, <1>5, <1>7, <2>2 DEF VMTypeOK
    <3> QED BY <3>1
  <2> QED BY <2>1, <2>2
<1> QED BY <1>6, <1>8, <1>9

LEMMA ScanKeeps ==
  ASSUME CoreInv, Scan
  PROVE  CoreInv' /\ (ListsInv => ListsInv')
<1> DEFINE st == [th \in Thread |-> IF th \in ToSet(ring) /\ Resumed(th) THEN {} ELSE status[th]]
           rv == [th \in Thread |->
                    IF th \notin ToSet(ring) THEN retval[th]
                    ELSE IF th = Reaper THEN "RESUMED_WAIT"
                    ELSE IF Joined(th) THEN "RESUMED_JOIN"
                    ELSE IF Expired(th) THEN "RESUMED_DELAY" ELSE retval[th]]
<1>1. VMTypeOK /\ SchedInv /\ CauseInv /\ pc = "scan"
  BY DEF CoreInv, Scan
<1>2. /\ status' = st /\ child' = (IF Reaper # NULL THEN "reaped" ELSE child)
      /\ UNCHANGED <<critical_section, locks>>
  BY DEF Scan
<1>3. \/ FirstToRun(st) # NULL /\ Activate(FirstToRun(st), rv)
      \/ /\ pc' = "select" /\ run_thread' = FirstToRun(st) /\ retval' = rv
         /\ UNCHANGED <<ring, waits, delay, joining, cause>>
  BY DEF Scan
<1>4. Reaper = NULL \/ (Reaper \in ToSet(ring) /\ "WAIT" \in status[Reaper])
  BY <1>1, ReaperAsked DEF VMTypeOK
<1>5. st \in [Thread -> SUBSET Flags] /\ rv \in [Thread -> Results]
  <2>1. st \in [Thread -> SUBSET Flags]
    BY <1>1 DEF VMTypeOK
  <2>2. \A th \in Thread : retval[th] \in Results
    BY <1>1 DEF VMTypeOK
  <2>3. rv \in [Thread -> Results]
    BY <2>2 DEF Results
  <2> QED BY <2>1, <2>3
<1>6. \A th \in Thread : st[th] = {"KILLED"} <=> status[th] = {"KILLED"}
  BY <1>4, VMAssumption DEF Resumed, Expired, Joined
<1>7. \A th \in Thread : st[th] = {"SUSPENDED"} <=> status[th] = {"SUSPENDED"}
  BY <1>4, VMAssumption DEF Resumed, Expired, Joined
<1>8. ASSUME NEW th \in Thread
      PROVE  Explained(st[th], cause[th], rv[th], delay[th] = "past", st[joining[th]] = {"KILLED"},
                       child' = "reaped")
  <2>1. /\ Explained(status[th], cause[th], retval[th], delay[th] = "past", Killed(joining[th]),
                     child = "reaped")
        /\ cause[th] = "join" => joining[th] \in Thread
        /\ cause[th] \in Causes
    BY <1>1 DEF CauseInv, VMTypeOK
  <2>2. child = "reaped" => child' = "reaped"
    BY <1>2
  <2>3. CASE th \in ToSet(ring) /\ th = Reaper
    <3>1. "WAIT" \in status[th] /\ st[th] = {} /\ rv[th] = "RESUMED_WAIT" /\ child' = "reaped"
      BY <1>2, <1>4, <2>3, VMAssumption DEF Resumed
    <3>2. cause[th] = "wait"
      BY <2>1, <3>1 DEF Explained, Causes
    <3> QED BY <3>1, <3>2 DEF Explained
  <2>4. CASE th \in ToSet(ring) /\ th # Reaper /\ Joined(th)
    <3>1. "JOIN" \in status[th] /\ Killed(joining[th]) /\ st[th] = {} /\ rv[th] = "RESUMED_JOIN"
      BY <2>4 DEF Joined, Resumed
    <3>2. cause[th] = "join"
      BY <2>1, <3>1 DEF Explained, Causes
    <3>3. st[joining[th]] = {"KILLED"}
      BY <1>6, <2>1, <3>1, <3>2 DEF Killed
    <3> HIDE DEF st, rv
    <3> QED BY <3>1, <3>2, <3>3 DEF Explained
  <2>5. CASE th \in ToSet(ring) /\ th # Reaper /\ ~Joined(th) /\ Expired(th)
    <3>1. "DELAY" \in status[th] /\ delay[th] = "past" /\ st[th] = {} /\ rv[th] = "RESUMED_DELAY"
      BY <2>5 DEF Expired, Resumed
    <3>2. cause[th] \in {"io", "select", "delay"}
      BY <2>1, <3>1 DEF Explained, Causes
    <3> HIDE DEF st, rv
    <3> QED BY <3>1, <3>2 DEF Explained
  <2>6. CASE ~(th \in ToSet(ring) /\ Resumed(th))
    <3>1. st[th] = status[th] /\ rv[th] = retval[th]
      BY <2>6 DEF Resumed
    <3>2. cause[th] = "join" /\ Killed(joining[th]) => st[joining[th]] = {"KILLED"}
      BY <1>6, <2>1 DEF Killed
    <3> HIDE DEF st, rv
    <3> QED BY <2>1, <2>2, <3>1, <3>2 DEF Explained
  <2> QED BY <2>3, <2>4, <2>5, <2>6 DEF Resumed
<1>9. \/ FirstToRun(st) = NULL
      \/ FirstToRun(st) \in ToSet(ring) /\ st[FirstToRun(st)] = {}
  <2> HIDE DEF st
  <2> QED BY <1>1, <1>5, FirstFound DEF VMTypeOK, FirstToRun
<1>10. ToSet(ring) \subseteq Thread
  BY <1>1, ToSetIn DEF VMTypeOK
<1> HIDE DEF st, rv
<1>11. ListsInv => ListsInv'
  <2> SUFFICES ASSUME ListsInv PROVE ListsInv'
    OBVIOUS
  <2>1. ~critical_section
    BY <1>1 DEF ListsInv
  <2> QED BY <1>1, <1>2, <1>7, <2>1, ListsFrame
<1>12. CASE FirstToRun(st) # NULL /\ Activate(FirstToRun(st), rv)
  <2> DEFINE th == FirstToRun(st)
  <2>1. th \in ToSet(ring) /\ th \in Thread /\ status'[th] = {} /\ status[th] # {"KILLED"}
    BY <1>2, <1>6, <1>9, <1>10, <1>12
  <2> HIDE DEF th
  <2>2. \A t \in Thread : cause[t] = "join" => joining[t] \in Thread
    BY <1>1 DEF CauseInv
  <2>3. VMTypeOK' /\ SchedInv' /\ CauseInv'
    BY <1>1, <1>2, <1>5, <1>8, <1>12, <2>1, <2>2, ActivateKeeps DEF th
  <2> QED BY <1>11, <2>3 DEF CoreInv
<1>13. CASE /\ pc' = "select" /\ run_thread' = FirstToRun(st) /\ retval' = rv
            /\ UNCHANGED <<ring, waits, delay, joining, cause>>
  <2>1. VMTypeOK'
    BY <1>1, <1>2, <1>5, <1>9, <1>10, <1>13 DEF VMTypeOK, locks
  <2>2. SchedInv'
    BY <1>1, <1>2, <1>9, <1>13 DEF SchedInv
  <2>3. CauseInv'
    BY <1>1, <1>2, <1>8, <1>13 DEF CauseInv, Killed
  <2> QED BY <1>11, <2>1, <2>2, <2>3 DEF CoreInv
<1> QED BY <1>3, <1>12, <1>13

LEMMA SelectedKeeps ==
  ASSUME CoreInv, pc = "select", NEW S, S \subseteq {th \in ToSet(ring) : OnFds(th)}, Selected(S)
  PROVE  CoreInv' /\ (ListsInv => ListsInv')
<1> DEFINE st == [th \in Thread |-> IF th \in S THEN {} ELSE status[th]]
           rv == [th \in Thread |->
                    IF th \notin S THEN retval[th]
                    ELSE IF "SELECT" \in status[th] THEN "RESUMED_SELECT" ELSE "RESUMED_IO"]
<1>1. VMTypeOK /\ SchedInv /\ CauseInv /\ ToSet(ring) \subseteq Thread
  BY ToSetIn DEF CoreInv, VMTypeOK
<1>2. status' = st /\ UNCHANGED <<critical_section, locks, child>>
  BY DEF Selected
<1>3. \/ run_thread # NULL /\ Activate(run_thread, rv)
      \/ S # {} /\ Activate(FirstRunnable(st), rv)
      \/ /\ S = {} /\ pc' = "scan" /\ run_thread' = NULL
         /\ UNCHANGED <<ring, waits, delay, joining, retval, cause>>
  BY DEF Selected
<1>4. st \in [Thread -> SUBSET Flags] /\ rv \in [Thread -> Results]
  <2>1. \A th \in Thread : retval[th] \in Results /\ status[th] \in SUBSET Flags
    BY <1>1 DEF VMTypeOK
  <2> QED BY <2>1 DEF Results
<1>5. \A th \in Thread : /\ st[th] = {"KILLED"} <=> status[th] = {"KILLED"}
                         /\ st[th] = {"SUSPENDED"} <=> status[th] = {"SUSPENDED"}
  BY DEF OnFds
<1>6. ASSUME NEW th \in Thread
      PROVE  Explained(st[th], cause[th], rv[th], delay[th] = "past", st[joining[th]] = {"KILLED"},
                       child' = "reaped")
  <2>1. /\ Explained(status[th], cause[th], retval[th], delay[th] = "past", Killed(joining[th]),
                     child = "reaped")
        /\ cause[th] = "join" => joining[th] \in Thread
        /\ cause[th] \in Causes
    BY <1>1 DEF CauseInv, VMTypeOK
  <2>2. CASE th \in S
    <3>1. /\ status[th] \cap {"READ", "WRITE", "SELECT"} # {} /\ st[th] = {}
          /\ rv[th] = IF "SELECT" \in status[th] THEN "RESUMED_SELECT" ELSE "RESUMED_IO"
      BY <2>2 DEF OnFds
    <3> HIDE DEF st, rv
    <3>2. \/ cause[th] = "io" /\ "SELECT" \notin status[th]
          \/ cause[th] = "select" /\ "SELECT" \in status[th]
      <4>1. PICK f \in {"READ", "WRITE", "SELECT"} : f \in status[th]
        BY <3>1
      <4> QED BY <2>1, <4>1 DEF Explained, Causes
    <3> QED BY <3>1, <3>2 DEF Explained
  <2>3. CASE th \notin S
    <3>1. st[th] = status[th] /\ rv[th] = retval[th]
      BY <2>3
    <3>2. cause[th] = "join" /\ Killed(joining[th]) => st[joining[th]] = {"KILLED"}
      BY <1>5, <2>1 DEF Killed
    <3> HIDE DEF st, rv
    <3> QED BY <1>2, <2>1, <3>1, <3>2 DEF Explained
  <2> QED BY <2>2, <2>3
<1>7. run_thread # NULL => run_thread \in ToSet(ring) /\ status[run_thread] = {} /\ st[run_thread] = {}
  BY <1>1 DEF SchedInv
<1>8. S # {} => FirstRunnable(st) \in ToSet(ring) /\ st[FirstRunnable(st)] = {}
  <2>1. \A th \in S : st[th] = {} /\ th \in ToSet(ring)
    BY <1>1
  <2> HIDE DEF st
  <2> QED BY <1>1, <1>4, <2>1, FirstFound DEF VMTypeOK
<1> HIDE DEF st, rv
<1>9. ListsInv => ListsInv'
  <2> SUFFICES ASSUME ListsInv PROVE ListsInv'
    OBVIOUS
  <2>1. ~critical_section
    BY <1>1 DEF ListsInv
  <2> QED BY <1>1, <1>2, <1>5, <2>1, ListsFrame
<1>10. ASSUME NEW th \in ToSet(ring), st[th] = {}, Activate(th, rv) PROVE CoreInv' /\ (ListsInv => ListsInv')
  <2>1. th \in Thread /\ status'[th] = {} /\ status[th] # {"KILLED"}
    BY <1>1, <1>2, <1>5, <1>10
  <2>2. \A t \in Thread : cause[t] = "join" => joining[t] \in Thread
    BY <1>1 DEF CauseInv
  <2>3. VMTypeOK' /\ SchedInv' /\ CauseInv'
    BY <1>1, <1>2, <1>4, <1>6, <1>10, <2>1, <2>2, ActivateKeeps
  <2> QED BY <1>9, <2>3 DEF CoreInv
<1>11. CASE /\ S = {} /\ pc' = "scan" /\ run_thread' = NULL
            /\ UNCHANGED <<ring, waits, delay, joining, retval, cause>>
  <2>1. VMTypeOK'
    BY <1>1, <1>2, <1>4, <1>11 DEF VMTypeOK, locks
  <2>2. SchedInv'
    BY <1>1, <1>11 DEF SchedInv
  <2>3. \A t \in Thread : rv[t] = retval[t]
    BY <1>11 DEF rv
  <2>4. CauseInv'
    BY <1>1, <1>2, <1>6, <1>11, <2>3 DEF CauseInv, Killed
  <2> QED BY <1>9, <2>1, <2>2, <2>4 DEF CoreInv
<1> QED BY <1>3, <1>7, <1>8, <1>10, <1>11

LEMMA SelectKeeps ==
  ASSUME CoreInv, SelectReady \/ SelectBad \/ SelectTimeout \/ SelectInterrupted
  PROVE  CoreInv' /\ (ListsInv => ListsInv')
<1>1. pc = "select"
  BY DEF SelectReady, SelectBad, SelectTimeout, SelectInterrupted
<1>2. PICK S : Selected(S) /\ S \subseteq {th \in ToSet(ring) : OnFds(th)}
  <2>1. \A ready, count : Served(ready, count) \subseteq {th \in ToSet(ring) : OnFds(th)}
    BY DEF Served
  <2> QED BY <2>1 DEF SelectReady, SelectBad, SelectTimeout, SelectInterrupted
<1> QED BY <1>1, <1>2, SelectedKeeps

-----------------------------------------------------------------------------
(* The primitives.                                                         *)

\* The thread that runs is in no list of waiters unless it is in a critical section.
LEMMA RunnerFacts ==
  ASSUME CoreInv, NEW p \in Thread, Running(p)
  PROVE  /\ pc = "run" /\ curr_thread = p /\ p = Head(ring) /\ p \in ToSet(ring)
         /\ status[p] = {} /\ cause[p] = "none"
         /\ ListsInv => /\ place[p] = "run" => ~critical_section
                        /\ place[p] # "sleep" => p \notin OnList
<1>1. VMTypeOK /\ SchedInv /\ pc = "run" /\ curr_thread = p
  BY DEF CoreInv, Running
<1>2. p = Head(ring) /\ p \in ToSet(ring)
  BY <1>1, HeadSet DEF VMTypeOK, curr_thread
<1>3. status[p] = {} /\ cause[p] = "none"
  BY <1>1 DEF SchedInv
<1> QED BY <1>1, <1>2, <1>3 DEF ListsInv, Critical

\* What a thread sees of the others' calls, and time and children.
LEMMA DescrFrame ==
  ASSUME VMTypeOK, SchedInv, CauseInv,
         UNCHANGED <<ring, status, joining, retval, cause, pc, run_thread>>,
         \A th \in Thread : delay[th] = "past" => delay'[th] = "past",
         child = "reaped" => child' = "reaped"
  PROVE  SchedInv' /\ CauseInv'
<1>1. SchedInv'
  BY DEF SchedInv, curr_thread
<1>2. CauseInv'
  BY DEF CauseInv, Explained, Killed
<1> QED BY <1>1, <1>2

\* The current thread is given flags and schedule_thread begins.
LEMMA BlockKeeps ==
  ASSUME CoreInv, NEW p \in Thread, Calls(p), NEW flags \in SUBSET Flags, NEW c \in Causes, Block(p, flags, c),
         flags # {}, flags # {"KILLED"}, flags # {"SUSPENDED"}, c # "unborn",
         \A r, past, dead, reaped : Explained(flags, c, r, past, dead, reaped),
         UNCHANGED <<retval, locks>>,
         delay' \in [Thread -> {"none", "pending", "past"}],
         joining' \in [Thread -> Thread \cup {NULL}],
         \A th \in Thread \ {p} : delay'[th] = delay[th] /\ joining'[th] = joining[th],
         c = "join" => joining'[p] \in Thread
  PROVE  CoreInv' /\ (ListsInv => ListsInv')
<1>1. /\ status' = [status EXCEPT ![p] = flags] /\ cause' = [cause EXCEPT ![p] = c] /\ pc' = "scan"
      /\ UNCHANGED <<ring, run_thread, critical_section, child>>
  BY DEF Block
<1>2. VMTypeOK /\ SchedInv /\ CauseInv
  BY DEF CoreInv
<1>3. status[p] = {} /\ (ListsInv => ~critical_section)
  BY RunnerFacts DEF Calls
<1>4. /\ status'[p] = flags /\ cause'[p] = c
      /\ \A th \in Thread \ {p} : status'[th] = status[th] /\ cause'[th] = cause[th]
  BY <1>1, <1>2 DEF VMTypeOK
<1>5. VMTypeOK'
  BY <1>1, <1>2 DEF VMTypeOK, locks
<1>6. SchedInv'
  <2>1. ToSet(ring) \subseteq Thread
    BY <1>2, ToSetIn DEF VMTypeOK
  <2> QED BY <1>1, <1>2, <1>4, <2>1 DEF SchedInv
<1>7. CauseInv'
  <2> SUFFICES ASSUME NEW th \in Thread
               PROVE  /\ Explained(status'[th], cause'[th], retval'[th], delay'[th] = "past",
                                   status'[joining'[th]] = {"KILLED"}, child' = "reaped")
                      /\ cause'[th] = "join" => joining'[th] \in Thread
    BY DEF CauseInv, Killed
  <2>1. CASE th = p
    BY <1>4, <2>1
  <2>2. CASE th # p
    <3>1. /\ status'[th] = status[th] /\ cause'[th] = cause[th] /\ retval'[th] = retval[th]
          /\ delay'[th] = delay[th] /\ joining'[th] = joining[th] /\ child' = child
      BY <1>1, <1>4, <2>2
    <3>2. cause[th] = "join" /\ status[joining[th]] = {"KILLED"} => status'[joining[th]] = {"KILLED"}
      BY <1>2, <1>3, <1>4 DEF CauseInv
    <3>3. /\ Explained(status[th], cause[th], retval[th], delay[th] = "past",
                       status[joining[th]] = {"KILLED"}, child = "reaped")
          /\ cause[th] = "join" => joining[th] \in Thread
      BY <1>2 DEF CauseInv, Killed
    <3> QED BY <3>1, <3>2, <3>3 DEF Explained
  <2> QED BY <2>1, <2>2
<1>8. ListsInv => ListsInv'
  <2>1. \A th \in Thread : status'[th] = {"SUSPENDED"} <=> status[th] = {"SUSPENDED"}
    BY <1>3, <1>4
  <2> QED BY <1>1, <1>2, <1>3, <2>1, ListsFrame
<1> QED BY <1>5, <1>6, <1>7, <1>8 DEF CoreInv

LEMMA BlocksKeeps ==
  ASSUME CoreInv, NEW p \in Thread, Blocks(p)
  PROVE  CoreInv' /\ (ListsInv => ListsInv')
<1>1. VMTypeOK
  BY DEF CoreInv
<1>2. ASSUME NEW pair \in Pairs, NEW timed \in BOOLEAN, thread_wait_rw(p, pair, timed) PROVE CoreInv' /\ (ListsInv => ListsInv')
  <2> DEFINE flags == {IF pair[2] = "read" THEN "READ" ELSE "WRITE"} \cup (IF timed THEN {"DELAY"} ELSE {})
  <2>1. flags \in SUBSET Flags /\ flags # {} /\ flags # {"KILLED"} /\ flags # {"SUSPENDED"}
    BY DEF Flags
  <2>2. flags \subseteq {"READ", "WRITE", "DELAY"}
    OBVIOUS
  <2>3. Calls(p) /\ Block(p, flags, "io") /\ UNCHANGED <<joining, retval, locks>>
    BY <1>2 DEF thread_wait_rw
  <2>4. delay' = [delay EXCEPT ![p] = IF timed THEN "pending" ELSE @]
    BY <1>2 DEF thread_wait_rw
  <2> HIDE DEF flags
  <2>5. \A r, past, dead, reaped : Explained(flags, "io", r, past, dead, reaped)
    BY <2>1, <2>2 DEF Explained
  <2>6. /\ delay' \in [Thread -> {"none", "pending", "past"}] /\ joining' \in [Thread -> Thread \cup {NULL}]
        /\ \A th \in Thread \ {p} : delay'[th] = delay[th] /\ joining'[th] = joining[th]
    BY <1>1, <2>3, <2>4 DEF VMTypeOK
  <2> QED BY <2>1, <2>3, <2>5, <2>6, BlockKeeps DEF Causes
<1>3. ASSUME NEW pairs, NEW timed \in BOOLEAN, thread_select(p, pairs, timed) PROVE CoreInv' /\ (ListsInv => ListsInv')
  <2> DEFINE flags == {"SELECT"} \cup (IF timed THEN {"DELAY"} ELSE {})
  <2>1. flags \in SUBSET Flags /\ flags # {} /\ flags # {"KILLED"} /\ flags # {"SUSPENDED"}
    BY DEF Flags
  <2>2. flags \subseteq {"SELECT", "DELAY"}
    OBVIOUS
  <2>3. Calls(p) /\ Block(p, flags, "select") /\ UNCHANGED <<joining, retval, locks>>
    BY <1>3 DEF thread_select
  <2>4. delay' = [delay EXCEPT ![p] = IF timed THEN "pending" ELSE @]
    BY <1>3 DEF thread_select
  <2> HIDE DEF flags
  <2>5. \A r, past, dead, reaped : Explained(flags, "select", r, past, dead, reaped)
    BY <2>1, <2>2 DEF Explained
  <2>6. /\ delay' \in [Thread -> {"none", "pending", "past"}] /\ joining' \in [Thread -> Thread \cup {NULL}]
        /\ \A th \in Thread \ {p} : delay'[th] = delay[th] /\ joining'[th] = joining[th]
    BY <1>1, <2>3, <2>4 DEF VMTypeOK
  <2> QED BY <2>1, <2>3, <2>5, <2>6, BlockKeeps DEF Causes
<1>4. CASE thread_delay(p)
  <2>1. /\ Calls(p) /\ Block(p, {"DELAY"}, "delay") /\ UNCHANGED <<joining, retval, locks>>
        /\ delay' = [delay EXCEPT ![p] = "pending"]
    BY <1>4 DEF thread_delay
  <2>2. \A r, past, dead, reaped : Explained({"DELAY"}, "delay", r, past, dead, reaped)
    BY DEF Explained
  <2>3. /\ delay' \in [Thread -> {"none", "pending", "past"}] /\ joining' \in [Thread -> Thread \cup {NULL}]
        /\ \A th \in Thread \ {p} : delay'[th] = delay[th] /\ joining'[th] = joining[th]
    BY <1>1, <2>1 DEF VMTypeOK
  <2> QED BY <2>1, <2>2, <2>3, BlockKeeps DEF Causes, Flags
<1>5. CASE thread_wait_pid(p)
  <2>1. Calls(p) /\ Block(p, {"WAIT"}, "wait") /\ UNCHANGED <<delay, joining, retval, locks>>
    BY <1>5 DEF thread_wait_pid
  <2>2. \A r, past, dead, reaped : Explained({"WAIT"}, "wait", r, past, dead, reaped)
    BY DEF Explained
  <2>3. delay' \in [Thread -> {"none", "pending", "past"}] /\ joining' \in [Thread -> Thread \cup {NULL}]
    BY <1>1, <2>1 DEF VMTypeOK
  <2> QED BY <2>1, <2>2, <2>3, BlockKeeps DEF Causes, Flags
<1>6. ASSUME NEW th \in Thread, thread_join(p, th) PROVE CoreInv' /\ (ListsInv => ListsInv')
  <2>1. /\ Calls(p) /\ Block(p, {"JOIN"}, "join") /\ UNCHANGED <<delay, retval, locks>>
        /\ joining' = [joining EXCEPT ![p] = th]
    BY <1>6 DEF thread_join
  <2>2. \A r, past, dead, reaped : Explained({"JOIN"}, "join", r, past, dead, reaped)
    BY DEF Explained
  <2>3. /\ delay' \in [Thread -> {"none", "pending", "past"}] /\ joining' \in [Thread -> Thread \cup {NULL}]
        /\ \A t \in Thread \ {p} : delay'[t] = delay[t] /\ joining'[t] = joining[t]
        /\ joining'[p] \in Thread
    BY <1>1, <2>1 DEF VMTypeOK
  <2> QED BY <2>1, <2>2, <2>3, BlockKeeps DEF Causes, Flags
<1> QED BY <1>2, <1>3, <1>4, <1>5, <1>6 DEF Blocks

LEMMA RescheduleKeeps ==
  ASSUME CoreInv, NEW p \in Thread, preempt(p) \/ thread_yield(p)
  PROVE  CoreInv' /\ (ListsInv => ListsInv')
<1>1. VMTypeOK /\ SchedInv /\ CauseInv
  BY DEF CoreInv
<1>2. Running(p) /\ (ListsInv => ~critical_section) /\ status[p] = {} /\ cause[p] = "none"
  BY RunnerFacts DEF preempt, thread_yield
<1>3. /\ retval' = [retval EXCEPT ![p] = "unit"] /\ pc' = "scan"
      /\ UNCHANGED <<ring, status, delay, joining, cause, run_thread, critical_section, locks, child>>
  BY DEF preempt, thread_yield, Reschedule
<1>4. VMTypeOK'
  BY <1>1, <1>3 DEF VMTypeOK, locks, Results
<1>5. SchedInv'
  BY <1>1, <1>3 DEF SchedInv
<1>6. CauseInv'
  <2>1. \A th \in Thread \ {p} : retval'[th] = retval[th]
    BY <1>1, <1>3 DEF VMTypeOK
  <2>2. \A r, past, dead, reaped : Explained(status[p], cause[p], r, past, dead, reaped)
    BY <1>2 DEF Explained
  <2> QED BY <1>1, <1>2, <1>3, <2>1, <2>2 DEF CauseInv, Killed
<1>7. ListsInv => ListsInv'
  BY <1>1, <1>2, <1>3, ListsFrame
<1> QED BY <1>4, <1>5, <1>6, <1>7 DEF CoreInv

LEMMA NewKeeps ==
  ASSUME CoreInv, NEW p \in Thread, NEW th \in Thread, thread_new(p, th)
  PROVE  CoreInv' /\ (ListsInv => ListsInv')
<1>1. VMTypeOK /\ SchedInv /\ CauseInv
  BY DEF CoreInv
<1>2. /\ Running(p) /\ cause[th] = "unborn" /\ ring' = Append(ring, th)
      /\ cause' = [cause EXCEPT ![th] = "none"] /\ status' = [status EXCEPT ![th] = {}]
      /\ UNCHANGED <<delay, joining, retval, sched, critical_section, locks, child>>
  BY DEF thread_new
<1>3. pc = "run" /\ curr_thread = p /\ cause[p] = "none" /\ p # th
  BY <1>2, RunnerFacts
<1>4. ring' \in Seq(Thread) /\ ring' # <<>> /\ Head(ring') = Head(ring) /\ ToSet(ring') = ToSet(ring) \cup {th}
  BY <1>1, <1>2, AppendSet DEF VMTypeOK
<1>5. /\ cause'[th] = "none" /\ status'[th] = {}
      /\ \A t \in Thread \ {th} : cause'[t] = cause[t] /\ status'[t] = status[t]
  BY <1>1, <1>2 DEF VMTypeOK
<1>6. status[th] = {}
  BY <1>1, <1>2 DEF CauseInv, Explained
<1>7. \A t \in Thread : status'[t] = status[t]
  BY <1>5, <1>6
<1>8. VMTypeOK'
  BY <1>1, <1>2, <1>4 DEF VMTypeOK, locks, sched, Causes
<1>9. SchedInv'
  <2>1. \A t \in ToSet(ring') : t \in Thread /\ cause'[t] # "unborn"
    BY <1>1, <1>4, <1>5, ToSetIn DEF VMTypeOK, SchedInv
  <2>2. curr_thread' = p /\ pc' = "run"
    BY <1>2, <1>3, <1>4 DEF curr_thread, sched
  <2> QED BY <1>1, <1>3, <1>5, <1>7, <2>1, <2>2 DEF SchedInv
<1>10. CauseInv'
  <2> SUFFICES ASSUME NEW t \in Thread
               PROVE  /\ Explained(status'[t], cause'[t], retval'[t], delay'[t] = "past",
                                   status'[joining'[t]] = {"KILLED"}, child' = "reaped")
                      /\ cause'[t] = "join" => joining'[t] \in Thread
    BY DEF CauseInv, Killed
  <2>1. CASE t = th
    BY <1>5, <2>1 DEF Explained
  <2>2. CASE t # th
    <3>1. /\ Explained(status[t], cause[t], retval[t], delay[t] = "past",
                       status[joining[t]] = {"KILLED"}, child = "reaped")
          /\ cause[t] = "join" => joining[t] \in Thread
      BY <1>1 DEF CauseInv, Killed
    <3> QED BY <1>2, <1>5, <1>7, <2>2, <3>1 DEF Explained
  <2> QED BY <2>1, <2>2
<1>11. ListsInv => ListsInv'
  <2>1. curr_thread' = curr_thread /\ pc' = pc
    BY <1>2, <1>4 DEF curr_thread, sched
  <2> QED BY <1>1, <1>2, <1>3, <1>7, <2>1, ListsFrame
<1> QED BY <1>8, <1>9, <1>10, <1>11 DEF CoreInv

LEMMA ListedOnList == Listed = OnList
BY DEF Listed, OnList, Waking

LEMMA KillKeeps ==
  ASSUME CoreInv, NEW p \in Thread, NEW th \in Thread, thread_kill(p, th)
  PROVE  CoreInv' /\ (ListsInv /\ ~torn' => ListsInv')
<1>1. VMTypeOK /\ SchedInv /\ CauseInv
  BY DEF CoreInv
<1>2. /\ Running(p) /\ place[p] = "run" /\ th \in ToSet(ring)
      /\ status' = [status EXCEPT ![th] = {"KILLED"}]
      /\ ring' = (IF th = p THEN ring ELSE RemoveAt(ring, Position(ring, th)))
      /\ pc' = (IF th = p THEN "scan" ELSE "run")
      /\ delay' = [delay EXCEPT ![th] = "none"] /\ joining' = [joining EXCEPT ![th] = NULL]
      /\ cause' = [cause EXCEPT ![th] = "none"] /\ retval' = [retval EXCEPT ![th] = "unit"]
      /\ torn' = (torn \/ th \in Listed \/ to_wake[th] # <<>>)
      /\ to_wake' = [to_wake EXCEPT ![th] = <<>>]
      /\ UNCHANGED <<run_thread, critical_section, locked, holder, waiting, cond_waiting, place, child>>
  BY DEF thread_kill, Calls
<1>3. pc = "run" /\ curr_thread = p /\ p = Head(ring) /\ status[p] = {} /\ cause[p] = "none"
      /\ (ListsInv => ~critical_section)
  BY <1>2, RunnerFacts
<1>4. ring' \in Seq(Thread) /\ ring' # <<>> /\ Head(ring') = p /\ ToSet(ring') \subseteq ToSet(ring)
  <2>1. CASE th = p
    BY <1>1, <1>2, <1>3, <2>1 DEF VMTypeOK
  <2>2. CASE th # p
    BY <1>1, <1>2, <1>3, <2>2, RemovedSet DEF VMTypeOK
  <2> QED BY <2>1, <2>2
<1>5. /\ cause'[th] = "none" /\ status'[th] = {"KILLED"}
      /\ \A t \in Thread \ {th} : /\ cause'[t] = cause[t] /\ status'[t] = status[t] /\ retval'[t] = retval[t]
                                   /\ delay'[t] = delay[t] /\ joining'[t] = joining[t]
  BY <1>1, <1>2 DEF VMTypeOK
<1>6. VMTypeOK'
  <2>1. /\ status' \in [Thread -> SUBSET Flags] /\ cause' \in [Thread -> Causes]
        /\ delay' \in [Thread -> {"none", "pending", "past"}]
    BY <1>1, <1>2 DEF VMTypeOK, Causes, Flags
  <2>2. joining' \in [Thread -> Thread \cup {NULL}] /\ retval' \in [Thread -> Results]
    BY <1>1, <1>2 DEF VMTypeOK, Results
  <2>3. /\ UNCHANGED <<critical_section, locked, waiting, cond_waiting, place, run_thread>>
        /\ to_wake' \in [Thread -> Seq(Thread)] /\ torn' \in BOOLEAN
    BY <1>1, <1>2 DEF VMTypeOK
  <2>4. pc' \in {"run", "scan", "select"}
    BY <1>2
  <2> QED BY <1>1, <1>4, <2>1, <2>2, <2>3, <2>4 DEF VMTypeOK
<1>7. SchedInv'
  <2>1. ToSet(ring) \subseteq Thread
    BY <1>1, ToSetIn DEF VMTypeOK
  <2> QED BY <1>1, <1>2, <1>3, <1>4, <1>5, <2>1 DEF SchedInv, curr_thread
<1>8. CauseInv'
  <2> SUFFICES ASSUME NEW t \in Thread
               PROVE  /\ Explained(status'[t], cause'[t], retval'[t], delay'[t] = "past",
                                   status'[joining'[t]] = {"KILLED"}, child' = "reaped")
                      /\ cause'[t] = "join" => joining'[t] \in Thread
    BY DEF CauseInv, Killed
  <2>1. CASE t = th
    BY <1>5, <2>1 DEF Explained
  <2>2. CASE t # th
    <3>1. /\ Explained(status[t], cause[t], retval[t], delay[t] = "past",
                       status[joining[t]] = {"KILLED"}, child = "reaped")
          /\ cause[t] = "join" => joining[t] \in Thread
      BY <1>1 DEF CauseInv, Killed
    <3>2. cause[t] = "join" /\ status[joining[t]] = {"KILLED"} => status'[joining[t]] = {"KILLED"}
      BY <1>5, <3>1
    <3> QED BY <1>2, <1>5, <2>2, <3>1, <3>2 DEF Explained
  <2> QED BY <2>1, <2>2
<1>9. ListsInv /\ ~torn' => ListsInv'
  <2> SUFFICES ASSUME ListsInv, ~torn' PROVE ListsInv'
    OBVIOUS
  <2>1. th \notin OnList /\ to_wake[th] = <<>> /\ torn' = torn
    BY <1>1, <1>2, ListedOnList DEF VMTypeOK
  <2>2. to_wake' = to_wake
    BY <1>1, <1>2, <2>1 DEF VMTypeOK
  <2>3. status[th] # {"SUSPENDED"}
    BY <2>1 DEF ListsInv
  <2>4. UNCHANGED <<critical_section, locks>>
    BY <1>2, <2>1, <2>2 DEF locks
  <2> QED BY <1>3, <1>5, <2>3, <2>4, ListsFrame
<1> QED BY <1>6, <1>7, <1>8, <1>9 DEF CoreInv

LEMMA EnvironmentKeeps ==
  ASSUME CoreInv, ChildExits \/ (\E th \in Thread : Tick(th)) \/ UNCHANGED vmvars
  PROVE  CoreInv' /\ (ListsInv => ListsInv')
<1>1. VMTypeOK /\ SchedInv /\ CauseInv
  BY DEF CoreInv
<1>2. /\ UNCHANGED <<ring, status, joining, retval, cause, pc, run_thread, critical_section, locks>>
      /\ delay' \in [Thread -> {"none", "pending", "past"}]
      /\ \A th \in Thread : delay[th] = "past" => delay'[th] = "past"
      /\ child = "reaped" => child' = "reaped"
  BY <1>1 DEF ChildExits, Tick, vmvars, descr, sched, VMTypeOK
<1>3. VMTypeOK'
  BY <1>1, <1>2 DEF VMTypeOK, locks
<1>4. SchedInv' /\ CauseInv'
  BY <1>1, <1>2, DescrFrame
<1>5. ListsInv => ListsInv'
  <2>1. curr_thread' = curr_thread
    BY <1>2 DEF curr_thread
  <2>2. ListsInv => (critical_section => pc = "run")
    BY <1>1 DEF ListsInv
  <2> QED BY <1>1, <1>2, <2>1, <2>2, ListsFrame
<1> QED BY <1>3, <1>4, <1>5 DEF CoreInv

-----------------------------------------------------------------------------
(* mutex.ml and condition.ml.                                              *)

\* The running thread, while no list is torn.
LEMMA LibraryRunner ==
  ASSUME WholeInv, NEW p \in Thread, Running(p)
  PROVE  /\ pc = "run" /\ curr_thread = p /\ p = Head(ring) /\ p \in ToSet(ring)
         /\ status[p] = {} /\ cause[p] = "none"
         /\ place[p] = "run" => ~critical_section
         /\ place[p] # "sleep" => p \notin OnList
BY RunnerFacts DEF WholeInv

\* The threads on the lists, other than the one that runs, are those that sleep.
LEMMA Sleepers ==
  ASSUME WholeInv, NEW p \in Thread, Running(p)
  PROVE  /\ \A th \in Thread \ {p} : th \in OnList <=> status[th] = {"SUSPENDED"}
         /\ \A th \in Thread \ {p} : place[th] \notin Critical
         /\ OnList \subseteq Thread
         /\ place[p] \notin Critical => ~critical_section
<1>1. ListsInv /\ pc = "run" /\ curr_thread = p
  BY DEF WholeInv, CoreInv, Running
<1>2. Lockers \subseteq Thread
  BY VMAssumption
<1> QED BY <1>1, <1>2 DEF ListsInv, Critical

\* A step of the running thread p to the place to, after which the lists hold the sleepers.
LEMMA LibraryLists ==
  ASSUME WholeInv, NEW p \in Thread, Running(p), NEW to \in Places, place' = [place EXCEPT ![p] = to],
         pc' = pc, curr_thread' = curr_thread, ListsDistinct', OnList' \subseteq Thread,
         \A th \in Thread \ {p} : /\ th \in OnList' <=> status'[th] = {"SUSPENDED"}
                                  /\ status'[th] = {"SUSPENDED"} => status[th] = {"SUSPENDED"}
                                  /\ to_wake'[th] = to_wake[th],
         p \in OnList' <=> to = "sleep",
         status'[p] # {"SUSPENDED"}, p \in Lockers,
         critical_section' <=> to \in Critical,
         to = "enlist" => locked',
         to_wake'[p] # <<>> => to \in {"waking", "condwaking"},
         waiting' # <<>> => locked'
  PROVE  ListsInv'
<1>1. ListsInv /\ pc = "run" /\ curr_thread = p
  BY DEF WholeInv, CoreInv, Running
<1>2. place'[p] = to /\ \A th \in Thread \ {p} : place'[th] = place[th]
  BY DEF WholeInv, CoreInv, VMTypeOK
<1>3. \A th \in Thread \ {p} : place[th] \notin Critical /\ (th \in OnList <=> status[th] = {"SUSPENDED"})
  BY Sleepers
<1>4. \A th \in Thread \ {p} :
        /\ place[th] # "run" => th \in Lockers
        /\ status[th] = {"SUSPENDED"} => place[th] = "lock" /\ th \in Lockers
        /\ to_wake[th] # <<>> => place[th] \in {"waking", "condwaking"}
  BY <1>1 DEF ListsInv
<1>5. \A th \in OnList' : th \in Lockers /\ (place'[th] = "sleep" \/ (place'[th] = "lock" /\ status'[th] = {"SUSPENDED"}))
  BY <1>2, <1>4
<1>6. ASSUME NEW th \in Thread
      PROVE  /\ place'[th] # "run" => th \in Lockers
             /\ place'[th] = "sleep" => th \in OnList'
             /\ status'[th] = {"SUSPENDED"} => th \in OnList' /\ place'[th] = "lock"
             /\ place'[th] \in Critical => pc' = "run" /\ th = curr_thread' /\ critical_section'
             /\ place'[th] = "enlist" => locked'
             /\ to_wake'[th] # <<>> => place'[th] \in {"waking", "condwaking"}
  <2>1. CASE th = p
    BY <1>1, <1>2, <2>1
  <2>2. CASE th # p
    BY <1>2, <1>3, <1>4, <2>2 DEF Critical
  <2> QED BY <2>1, <2>2
<1>7. critical_section' => pc' = "run" /\ place'[curr_thread'] \in Critical
  BY <1>1, <1>2
<1> QED BY <1>5, <1>6, <1>7 DEF ListsInv

\* The rest of the invariant when the descriptors of the threads do not change.
LEMMA LibraryFrame ==
  ASSUME CoreInv, NEW p \in Thread, Running(p), NEW to \in Places, place' = [place EXCEPT ![p] = to],
         UNCHANGED <<ring, sched, torn, child, descr>>,
         critical_section' \in BOOLEAN, locked' \in BOOLEAN,
         waiting' \in Seq(Thread), cond_waiting' \in Seq(Thread), to_wake' \in [Thread -> Seq(Thread)], torn' = torn
  PROVE  VMTypeOK' /\ SchedInv' /\ CauseInv' /\ pc' = pc /\ curr_thread' = curr_thread /\ status' = status
<1>1. VMTypeOK /\ SchedInv /\ CauseInv
  BY DEF CoreInv
<1>2. UNCHANGED <<ring, status, delay, joining, retval, cause, pc, run_thread>>
  BY DEF sched, descr
<1>3. VMTypeOK'
  BY <1>1, <1>2 DEF VMTypeOK
<1>4. SchedInv' /\ CauseInv'
  BY <1>1, <1>2, DescrFrame
<1> QED BY <1>2, <1>3, <1>4 DEF curr_thread

\* Mutex.lock takes the mutex or begins to wait for it.
LEMMA MutexLockKeeps ==
  ASSUME WholeInv, NEW p \in Thread, NEW from \in {"run", "lock"}, lock(p, from), p \in Lockers
  PROVE  WholeInv'
<1>1. PICK to \in {"run", "enlist"} :
        /\ Step(p, from, to) /\ UNCHANGED <<descr, waiting, cond_waiting, to_wake>>
        /\ locked' = TRUE
        /\ to = "run" => critical_section' = critical_section
        /\ to = "enlist" => critical_section' = TRUE
  <2>1. CASE ~locked /\ Step(p, from, "run") /\ Take(p) /\ UNCHANGED descr
    BY <2>1 DEF Take
  <2>2. CASE Step(p, from, "enlist") /\ Enlist(p) /\ UNCHANGED descr
    <3>1. locked' = TRUE
      BY <2>2 DEF Enlist, WholeInv, CoreInv, VMTypeOK
    <3> QED BY <2>2, <3>1 DEF Enlist
  <2> QED BY <2>1, <2>2 DEF lock
<1>2. Running(p) /\ place[p] = from /\ place' = [place EXCEPT ![p] = to] /\ UNCHANGED <<ring, sched, torn, child>>
  BY <1>1 DEF Step
<1>3. VMTypeOK /\ ListsInv /\ to \in Places
  BY DEF WholeInv, CoreInv, Places
<1>4. place[p] \notin Critical /\ ~critical_section /\ p \notin OnList /\ status[p] = {}
  BY <1>2, Sleepers, LibraryRunner DEF Critical
<1>5. VMTypeOK' /\ SchedInv' /\ CauseInv' /\ pc' = pc /\ curr_thread' = curr_thread /\ status' = status
  BY <1>1, <1>2, <1>3, LibraryFrame DEF WholeInv, VMTypeOK
<1>6. OnList' = OnList /\ ListsDistinct'
  BY <1>1, <1>3 DEF OnList, Waking, ListsInv, ListsDistinct
<1>7. to_wake[p] = <<>>
  BY <1>2, <1>3 DEF ListsInv
<1>8. ListsInv'
  <2>1. OnList \subseteq Thread /\ \A th \in Thread \ {p} : th \in OnList <=> status[th] = {"SUSPENDED"}
    BY <1>2, Sleepers
  <2>2. /\ p \in OnList' <=> to = "sleep"
        /\ critical_section' <=> to \in Critical
        /\ status'[p] # {"SUSPENDED"} /\ to_wake'[p] = <<>> /\ locked'
    BY <1>1, <1>4, <1>5, <1>6, <1>7 DEF Critical
  <2> QED BY <1>1, <1>2, <1>3, <1>5, <1>6, <2>1, <2>2, LibraryLists
<1> QED BY <1>5, <1>8 DEF WholeInv, CoreInv

\* The running thread puts itself first on a list before it sleeps.
LEMMA EnlistKeeps ==
  ASSUME WholeInv, NEW p \in Thread, LockWaits(p) \/ CondWaits(p)
  PROVE  WholeInv'
<1>1. /\ Running(p) /\ place[p] \in {"enlist", "cond"} /\ place' = [place EXCEPT ![p] = "sleep"]
      /\ UNCHANGED <<ring, sched, torn, child, descr, critical_section, locked, to_wake>>
      /\ \/ place[p] = "enlist" /\ waiting' = <<p>> \o waiting /\ cond_waiting' = cond_waiting
         \/ cond_waiting' = <<p>> \o cond_waiting /\ waiting' = waiting
  BY DEF LockWaits, CondWaits, Step
<1>2. VMTypeOK /\ ListsInv /\ "sleep" \in Places
  BY DEF WholeInv, CoreInv, Places
<1>3. p \notin OnList /\ status[p] = {} /\ critical_section /\ p \in Lockers
  BY <1>1, <1>2, LibraryRunner DEF ListsInv, Critical
<1>4. /\ <<p>> \o waiting \in Seq(Thread) /\ ToSet(<<p>> \o waiting) = ToSet(waiting) \cup {p}
      /\ IsInjective(waiting) /\ p \notin ToSet(waiting) => IsInjective(<<p>> \o waiting)
  BY <1>2, ConsSet DEF VMTypeOK
<1>5. /\ <<p>> \o cond_waiting \in Seq(Thread) /\ ToSet(<<p>> \o cond_waiting) = ToSet(cond_waiting) \cup {p}
      /\ IsInjective(cond_waiting) /\ p \notin ToSet(cond_waiting) => IsInjective(<<p>> \o cond_waiting)
  BY <1>2, ConsSet DEF VMTypeOK
<1>6. VMTypeOK' /\ SchedInv' /\ CauseInv' /\ pc' = pc /\ curr_thread' = curr_thread /\ status' = status
  BY <1>1, <1>2, <1>4, <1>5, LibraryFrame DEF WholeInv, VMTypeOK
<1>7. OnList' = OnList \cup {p}
  BY <1>1, <1>4, <1>5 DEF OnList, Waking
<1>8. ListsDistinct'
  <2>1. ListsDistinct /\ p \notin ToSet(waiting) /\ p \notin ToSet(cond_waiting) /\ \A q \in Thread : p \notin Waking(q)
    BY <1>2, <1>3 DEF OnList, ListsInv
  <2>2. to_wake' = to_wake /\ \A q \in Thread : Waking(q)' = Waking(q)
    BY <1>1 DEF Waking
  <2>3. CASE waiting' = <<p>> \o waiting /\ cond_waiting' = cond_waiting
    <3>1. IsInjective(waiting)' /\ ToSet(waiting)' = ToSet(waiting) \cup {p} /\ ToSet(cond_waiting)' = ToSet(cond_waiting)
      BY <1>4, <2>1, <2>3 DEF ListsDistinct
    <3> QED BY <2>1, <2>2, <2>3, <3>1 DEF ListsDistinct
  <2>4. CASE cond_waiting' = <<p>> \o cond_waiting /\ waiting' = waiting
    <3>1. IsInjective(cond_waiting)' /\ ToSet(cond_waiting)' = ToSet(cond_waiting) \cup {p} /\ ToSet(waiting)' = ToSet(waiting)
      BY <1>5, <2>1, <2>4 DEF ListsDistinct
    <3> QED BY <2>1, <2>2, <2>4, <3>1 DEF ListsDistinct
  <2> QED BY <1>1, <2>3, <2>4
<1>9. to_wake[p] = <<>> /\ (waiting' # <<>> => locked')
  BY <1>1, <1>2 DEF ListsInv
<1>10. ListsInv'
  <2>1. OnList \subseteq Thread /\ \A th \in Thread \ {p} : th \in OnList <=> status[th] = {"SUSPENDED"}
    BY <1>1, Sleepers
  <2>2. /\ p \in OnList' /\ critical_section' /\ "sleep" \in Critical
        /\ status'[p] # {"SUSPENDED"} /\ to_wake'[p] = <<>> /\ (waiting' # <<>> => locked')
    BY <1>1, <1>3, <1>6, <1>7, <1>9 DEF Critical
  <2> QED BY <1>1, <1>2, <1>3, <1>6, <1>7, <1>8, <2>1, <2>2, LibraryLists
<1> QED BY <1>6, <1>10 DEF WholeInv, CoreInv

\* Thread.sleep, with the thread on a list.
LEMMA SleepKeeps ==
  ASSUME WholeInv, NEW p \in Thread, thread_sleep(p)
  PROVE  WholeInv'
<1>1. /\ Running(p) /\ place[p] = "sleep" /\ critical_section' = FALSE
      /\ place' = [place EXCEPT ![p] = "lock"] /\ status' = [status EXCEPT ![p] = {"SUSPENDED"}]
      /\ cause' = [cause EXCEPT ![p] = "sleep"] /\ pc' = "scan"
      /\ UNCHANGED <<ring, delay, joining, retval, run_thread, locked, waiting, cond_waiting, to_wake, torn, child>>
  BY DEF thread_sleep
<1>2. VMTypeOK /\ SchedInv /\ CauseInv /\ ListsInv
  BY DEF WholeInv, CoreInv
<1>3. /\ status'[p] = {"SUSPENDED"} /\ cause'[p] = "sleep" /\ place'[p] = "lock" /\ p \in Lockers /\ p \in OnList
      /\ status[p] = {}
      /\ \A t \in Thread \ {p} : status'[t] = status[t] /\ cause'[t] = cause[t] /\ place'[t] = place[t]
  BY <1>1, <1>2, LibraryRunner DEF VMTypeOK, ListsInv
<1>4. VMTypeOK'
  BY <1>1, <1>2 DEF VMTypeOK, Flags, Causes, Places
<1>5. SchedInv'
  <2>1. ToSet(ring) \subseteq Thread
    BY <1>2, ToSetIn DEF VMTypeOK
  <2> QED BY <1>1, <1>2, <1>3, <2>1 DEF SchedInv
<1>6. CauseInv'
  <2> SUFFICES ASSUME NEW t \in Thread
               PROVE  /\ Explained(status'[t], cause'[t], retval'[t], delay'[t] = "past",
                                   status'[joining'[t]] = {"KILLED"}, child' = "reaped")
                      /\ cause'[t] = "join" => joining'[t] \in Thread
    BY DEF CauseInv, Killed
  <2>1. CASE t = p
    BY <1>3, <2>1 DEF Explained
  <2>2. CASE t # p
    <3>1. /\ Explained(status[t], cause[t], retval[t], delay[t] = "past",
                       status[joining[t]] = {"KILLED"}, child = "reaped")
          /\ cause[t] = "join" => joining[t] \in Thread
      BY <1>2 DEF CauseInv, Killed
    <3>2. cause[t] = "join" /\ status[joining[t]] = {"KILLED"} => status'[joining[t]] = {"KILLED"}
      BY <1>3, <3>1
    <3> QED BY <1>1, <1>3, <2>2, <3>1, <3>2 DEF Explained
  <2> QED BY <2>1, <2>2
<1>7. ListsInv'
  <2>1. OnList' = OnList /\ ListsDistinct'
    BY <1>1, <1>2 DEF OnList, Waking, ListsInv, ListsDistinct
  <2>2. /\ \A th \in Thread \ {p} : th \in OnList <=> status[th] = {"SUSPENDED"}
        /\ \A th \in Thread \ {p} : place[th] \notin Critical
        /\ OnList \subseteq Thread
    BY <1>1, Sleepers
  <2>3. \A th \in Thread \ {p} :
          /\ place[th] # "run" => th \in Lockers
          /\ status[th] = {"SUSPENDED"} => place[th] = "lock" /\ th \in Lockers
          /\ to_wake[th] # <<>> => place[th] \in {"waking", "condwaking"}
    BY <1>2, <2>2 DEF ListsInv
  <2>4. to_wake[p] = <<>> /\ (waiting # <<>> => locked)
    BY <1>1, <1>2 DEF ListsInv
  <2>5. \A th \in OnList' : th \in Lockers /\ (place'[th] = "sleep" \/ (place'[th] = "lock" /\ status'[th] = {"SUSPENDED"}))
    BY <1>3, <2>1, <2>2, <2>3
  <2>6. ASSUME NEW th \in Thread
        PROVE  /\ place'[th] # "run" => th \in Lockers
               /\ place'[th] = "sleep" => th \in OnList'
               /\ status'[th] = {"SUSPENDED"} => th \in OnList' /\ place'[th] = "lock"
               /\ place'[th] \notin Critical
               /\ to_wake'[th] # <<>> => place'[th] \in {"waking", "condwaking"}
    <3>1. CASE th = p
      BY <1>1, <1>3, <2>1, <2>4, <3>1 DEF Critical
    <3>2. CASE th # p
      BY <1>1, <1>3, <2>1, <2>2, <2>3, <3>2 DEF Critical
    <3> QED BY <3>1, <3>2
  <2>7. \A th \in Thread : place'[th] # "enlist"
    BY <2>6 DEF Critical
  <2> QED BY <1>1, <2>1, <2>4, <2>5, <2>6, <2>7 DEF ListsInv
<1> QED BY <1>4, <1>5, <1>6, <1>7 DEF WholeInv, CoreInv

\* The running thread moves one list, or a part of it, to the threads it will wake.
LEMMA MoveKeeps ==
  ASSUME WholeInv, NEW p \in Thread, p \in Lockers, Running(p), place[p] = "run",
         NEW to \in Places, place' = [place EXCEPT ![p] = to],
         UNCHANGED <<ring, sched, torn, child, descr>>,
         critical_section' \in BOOLEAN, critical_section' <=> to \in Critical,
         locked' \in BOOLEAN, to \notin {"sleep", "enlist"},
         waiting' \in Seq(Thread), cond_waiting' \in Seq(Thread),
         NEW moved \in Seq(Thread), to_wake' = [to_wake EXCEPT ![p] = moved],
         IsInjective(moved), IsInjective(waiting'), IsInjective(cond_waiting'),
         ToSet(moved) \cup ToSet(waiting') \cup ToSet(cond_waiting') = ToSet(waiting) \cup ToSet(cond_waiting),
         ToSet(moved) \cap (ToSet(waiting') \cup ToSet(cond_waiting')) = {},
         ToSet(waiting') \cap ToSet(cond_waiting') = {},
         moved # <<>> => to \in {"waking", "condwaking"},
         waiting' # <<>> => locked'
  PROVE  WholeInv'
<1>1. VMTypeOK /\ ListsInv /\ ListsDistinct
  BY DEF WholeInv, CoreInv, ListsInv
<1>2. p \notin OnList /\ status[p] = {} /\ to_wake[p] = <<>>
  BY <1>1, LibraryRunner DEF ListsInv, Critical
<1>3. to_wake' \in [Thread -> Seq(Thread)] /\ to_wake'[p] = moved /\ \A q \in Thread \ {p} : to_wake'[q] = to_wake[q]
  BY <1>1 DEF VMTypeOK
<1>4. VMTypeOK' /\ SchedInv' /\ CauseInv' /\ pc' = pc /\ curr_thread' = curr_thread /\ status' = status
  BY <1>3, LibraryFrame DEF WholeInv
<1>5. /\ Waking(p) = {} /\ Waking(p)' = ToSet(moved)
      /\ \A q \in Thread \ {p} : Waking(q)' = Waking(q)
  <2>1. <<>> \in Seq(Thread)
    OBVIOUS
  <2>2. ToSet(<<>>) = {}
    BY <2>1, ToSetIn
  <2> QED BY <1>2, <1>3, <2>2 DEF Waking
<1>6. OnList' = OnList
  <2>1. UNION {Waking(q)' : q \in Thread} = ToSet(moved) \cup UNION {Waking(q) : q \in Thread}
    <3>1. ASSUME NEW x, x \in UNION {Waking(q)' : q \in Thread}
          PROVE  x \in ToSet(moved) \cup UNION {Waking(q) : q \in Thread}
      <4>1. PICK q \in Thread : x \in Waking(q)'
        BY <3>1
      <4> QED BY <1>5, <4>1
    <3>2. ASSUME NEW x, x \in ToSet(moved) \cup UNION {Waking(q) : q \in Thread}
          PROVE  x \in UNION {Waking(q)' : q \in Thread}
      <4>1. PICK q \in Thread : x \in Waking(q)'
        BY <1>5, <3>2
      <4> QED BY <4>1
    <3> QED BY <3>1, <3>2
  <2>2. OnList' = ToSet(waiting') \cup ToSet(cond_waiting') \cup UNION {Waking(q)' : q \in Thread}
    BY DEF OnList
  <2> QED BY <2>1, <2>2 DEF OnList
<1>7. ListsDistinct'
  <2>1. \A q \in Thread \ {p} : IsInjective(to_wake[q]) /\ Waking(q) \cap (ToSet(waiting) \cup ToSet(cond_waiting)) = {}
                                /\ \A r \in Thread \ {q} : Waking(q) \cap Waking(r) = {}
    BY <1>1 DEF ListsDistinct
  <2>2. ASSUME NEW q \in Thread
        PROVE  /\ IsInjective(to_wake'[q])
               /\ Waking(q)' \cap (ToSet(waiting') \cup ToSet(cond_waiting')) = {}
               /\ \A r \in Thread \ {q} : Waking(q)' \cap Waking(r)' = {}
    <3>1. CASE q = p
      BY <1>3, <1>5, <2>1, <3>1
    <3>2. CASE q # p
      <4>1. Waking(q)' = Waking(q) /\ Waking(q) \cap (ToSet(waiting) \cup ToSet(cond_waiting)) = {}
        BY <1>5, <2>1, <3>2
      <4>2. \A x \in ToSet(moved) \cup ToSet(waiting') \cup ToSet(cond_waiting') : x \notin Waking(q)'
        <5> HIDE DEF ToSet, Waking
        <5> QED BY <4>1
      <4>3. \A r \in Thread \ {q} : Waking(q)' \cap Waking(r)' = {}
        BY <1>5, <2>1, <3>2, <4>1, <4>2
      <4> QED BY <1>3, <2>1, <3>2, <4>2, <4>3
    <3> QED BY <3>1, <3>2
  <2> QED BY <2>2 DEF ListsDistinct, IsInjective, ToSet
<1>8. ListsInv'
  <2>1. OnList \subseteq Thread /\ \A th \in Thread \ {p} : th \in OnList <=> status[th] = {"SUSPENDED"}
    BY Sleepers
  <2>2. /\ p \in OnList' <=> to = "sleep"
        /\ status'[p] # {"SUSPENDED"} /\ (to_wake'[p] # <<>> => to \in {"waking", "condwaking"})
        /\ to = "enlist" => locked'
    BY <1>2, <1>3, <1>4, <1>6
  <2>3. \A th \in Thread \ {p} : /\ th \in OnList' <=> status'[th] = {"SUSPENDED"}
                                 /\ status'[th] = {"SUSPENDED"} => status[th] = {"SUSPENDED"}
                                 /\ to_wake'[th] = to_wake[th]
    BY <1>3, <1>4, <1>6, <2>1
  <2>4. OnList' \subseteq Thread
    BY <1>6, <2>1
  <2> QED BY <1>4, <1>7, <2>2, <2>3, <2>4, LibraryLists
<1> QED BY <1>4, <1>8 DEF WholeInv, CoreInv

\* Mutex.unlock and Condition.wait empty the list of the mutex.
LEMMA UnlockKeeps ==
  ASSUME WholeInv, NEW p \in Thread, p \in Lockers,
         NEW to \in {"run", "waking", "cond", "condwaking"}, unlock(p, "run", to),
         waiting # <<>> => to \in {"waking", "condwaking"},
         \/ to \in {"run", "waking"} /\ critical_section' = critical_section
         \/ to \in {"cond", "condwaking"} /\ critical_section' = TRUE
  PROVE  WholeInv'
<1>1. /\ Running(p) /\ place[p] = "run" /\ place' = [place EXCEPT ![p] = to]
      /\ UNCHANGED <<ring, sched, torn, child, descr, cond_waiting>>
      /\ to_wake' = [to_wake EXCEPT ![p] = waiting] /\ waiting' = <<>> /\ locked' = FALSE
  BY DEF unlock, Step
<1>2. waiting \in Seq(Thread) /\ cond_waiting \in Seq(Thread) /\ <<>> \in Seq(Thread) /\ to \in Places
  BY DEF WholeInv, CoreInv, VMTypeOK, Places
<1>3. critical_section = FALSE
  BY <1>1, LibraryRunner DEF WholeInv, CoreInv, VMTypeOK
<1>4. critical_section' \in BOOLEAN /\ (critical_section' <=> to \in Critical) /\ to \notin {"sleep", "enlist"}
  <2>1. CASE to \in {"run", "waking"} /\ critical_section' = critical_section
    BY <1>3, <2>1 DEF Critical
  <2>2. CASE to \in {"cond", "condwaking"} /\ critical_section' = TRUE
    BY <2>2 DEF Critical
  <2> QED BY <2>1, <2>2
<1>5. IsInjective(waiting) /\ IsInjective(cond_waiting) /\ ToSet(waiting) \cap ToSet(cond_waiting) = {}
  BY DEF WholeInv, CoreInv, ListsInv, ListsDistinct
<1>6. ToSet(waiting') = {} /\ IsInjective(waiting')
  <2>1. ToSet(<<>>) = {}
    BY <1>2, ToSetIn
  <2>2. IsInjective(<<>>)
    BY DEF IsInjective
  <2> QED BY <1>1, <2>1, <2>2
<1> QED BY <1>1, <1>2, <1>4, <1>5, <1>6, MoveKeeps

\* Condition.signal and broadcast.
LEMMA SignalKeeps ==
  ASSUME WholeInv, NEW p \in Thread, p \in Lockers, NEW n \in {1, Len(cond_waiting)}, signal(p, n)
  PROVE  WholeInv'
<1>1. /\ Running(p) /\ place[p] = "run" /\ place' = [place EXCEPT ![p] = "waking"]
      /\ UNCHANGED <<ring, sched, torn, child, descr, critical_section, locked, waiting>> /\ cond_waiting # <<>>
      /\ to_wake' = [to_wake EXCEPT ![p] = SubSeq(cond_waiting, 1, n)]
      /\ cond_waiting' = SubSeq(cond_waiting, n + 1, Len(cond_waiting))
  BY DEF signal, Step
<1>2. waiting \in Seq(Thread) /\ cond_waiting \in Seq(Thread) /\ "waking" \in Places
  BY DEF WholeInv, CoreInv, VMTypeOK, Places
<1>3. critical_section' \in BOOLEAN /\ ~critical_section' /\ "waking" \notin Critical /\ locked' \in BOOLEAN
  BY <1>1, LibraryRunner DEF WholeInv, CoreInv, VMTypeOK, Critical
<1>4. n \in 0 .. Len(cond_waiting)
  <2>1. Len(cond_waiting) \in Nat \ {0}
    BY <1>1, <1>2, HeadSet
  <2> QED BY <2>1
<1>5. IsInjective(waiting) /\ IsInjective(cond_waiting) /\ ToSet(waiting) \cap ToSet(cond_waiting) = {}
  BY DEF WholeInv, CoreInv, ListsInv, ListsDistinct
<1> DEFINE u == SubSeq(cond_waiting, 1, n)
           v == SubSeq(cond_waiting, n + 1, Len(cond_waiting))
<1>6. /\ u \in Seq(Thread) /\ v \in Seq(Thread) /\ ToSet(u) \cup ToSet(v) = ToSet(cond_waiting)
      /\ IsInjective(u) /\ IsInjective(v) /\ ToSet(u) \cap ToSet(v) = {}
  BY <1>2, <1>4, <1>5, SplitSet
<1>7. to_wake' = [to_wake EXCEPT ![p] = u] /\ cond_waiting' = v /\ waiting' = waiting
  BY <1>1
<1> HIDE DEF u, v
<1>8. waiting' # <<>> => locked'
  BY <1>1 DEF WholeInv, CoreInv, ListsInv
<1>9. /\ ToSet(u) \cup ToSet(waiting') \cup ToSet(cond_waiting') = ToSet(waiting) \cup ToSet(cond_waiting)
      /\ ToSet(u) \cap (ToSet(waiting') \cup ToSet(cond_waiting')) = {}
      /\ ToSet(waiting') \cap ToSet(cond_waiting') = {}
      /\ IsInjective(waiting') /\ IsInjective(cond_waiting') /\ waiting' \in Seq(Thread) /\ cond_waiting' \in Seq(Thread)
  BY <1>2, <1>5, <1>6, <1>7
<1> QED BY <1>1, <1>2, <1>3, <1>6, <1>7, <1>8, <1>9, MoveKeeps

\* One Thread.wakeup: the thread does sleep, so it never fails.
LEMMA WakeKeeps ==
  ASSUME WholeInv, NEW p \in Thread,
         NEW from \in {"waking", "condwaking"}, NEW to \in {"run", "cond"}, from = "waking" <=> to = "run",
         Wake(p, from, to)
  PROVE  WholeInv'
<1> DEFINE th == Head(to_wake[p])
           left == Tail(to_wake[p])
           next == IF left = <<>> THEN to ELSE from
<1>1. VMTypeOK /\ SchedInv /\ CauseInv /\ ListsInv /\ ListsDistinct
  BY DEF WholeInv, CoreInv, ListsInv
<1>2. /\ Running(p) /\ place[p] = from /\ to_wake[p] # <<>>
      /\ UNCHANGED <<ring, sched, torn, child, critical_section, locked, waiting, cond_waiting>>
  BY DEF Wake, Step
<1>3. /\ th \in Thread /\ th \in Waking(p) /\ left \in Seq(Thread) /\ ToSet(left) \cup {th} = Waking(p)
      /\ IsInjective(left) /\ th \notin ToSet(left)
  <2>1. to_wake[p] \in Seq(Thread) /\ IsInjective(to_wake[p])
    BY <1>1 DEF VMTypeOK, ListsDistinct
  <2> QED BY <1>2, <2>1, HeadSet, TailSet DEF Waking
<1>4. th # p /\ status[th] = {"SUSPENDED"} /\ status[p] = {} /\ p \notin OnList /\ p \in Lockers
  <2>1. th \in OnList
    BY <1>3 DEF OnList
  <2>2. status[p] = {} /\ p \notin OnList /\ p \in Lockers
    BY <1>1, <1>2, LibraryRunner DEF ListsInv
  <2> QED BY <1>2, <1>3, <2>1, <2>2, Sleepers
<1>5. /\ status' = [status EXCEPT ![th] = {}] /\ retval' = [retval EXCEPT ![th] = "RESUMED_WAKEUP"]
      /\ UNCHANGED <<delay, joining, cause>>
      /\ to_wake' = [to_wake EXCEPT ![p] = left] /\ place' = [place EXCEPT ![p] = next]
  BY <1>4 DEF Wake, Step, thread_wakeup
<1> HIDE DEF th, left
<1>6. next \in Places /\ next \in {from, to}
  BY DEF Places
<1>7. /\ status'[th] = {} /\ retval'[th] = "RESUMED_WAKEUP" /\ to_wake'[p] = left
      /\ \A t \in Thread \ {th} : status'[t] = status[t] /\ retval'[t] = retval[t]
      /\ \A q \in Thread \ {p} : to_wake'[q] = to_wake[q]
  BY <1>1, <1>3, <1>5 DEF VMTypeOK
<1>8. VMTypeOK'
  <2>1. status' \in [Thread -> SUBSET Flags] /\ retval' \in [Thread -> Results]
    BY <1>1, <1>5 DEF VMTypeOK, Results
  <2>2. place' \in [Thread -> Places] /\ to_wake' \in [Thread -> Seq(Thread)]
    BY <1>1, <1>3, <1>5, <1>6 DEF VMTypeOK
  <2> QED BY <1>1, <1>2, <1>5, <2>1, <2>2 DEF VMTypeOK, sched
<1>9. pc' = pc /\ curr_thread' = curr_thread /\ pc = "run" /\ curr_thread = p
  BY <1>2 DEF sched, curr_thread, Running
<1>10. SchedInv'
  BY <1>1, <1>2, <1>4, <1>5, <1>7, <1>9 DEF SchedInv
<1>11. CauseInv'
  <2> SUFFICES ASSUME NEW t \in Thread
               PROVE  /\ Explained(status'[t], cause'[t], retval'[t], delay'[t] = "past",
                                   status'[joining'[t]] = {"KILLED"}, child' = "reaped")
                      /\ cause'[t] = "join" => joining'[t] \in Thread
    BY DEF CauseInv, Killed
  <2>1. /\ Explained(status[t], cause[t], retval[t], delay[t] = "past",
                     status[joining[t]] = {"KILLED"}, child = "reaped")
        /\ cause[t] = "join" => joining[t] \in Thread
        /\ cause[t] \in Causes
    BY <1>1 DEF CauseInv, Killed, VMTypeOK
  <2>2. CASE t = th
    <3>1. cause[t] = "sleep"
      BY <1>4, <2>1, <2>2 DEF Explained, Causes
    <3> QED BY <1>5, <1>7, <2>2, <3>1 DEF Explained
  <2>3. CASE t # th
    <3>1. cause[t] = "join" /\ status[joining[t]] = {"KILLED"} => status'[joining[t]] = {"KILLED"}
      BY <1>4, <1>7, <2>1
    <3> QED BY <1>2, <1>5, <1>7, <2>1, <2>3, <3>1 DEF Explained
  <2> QED BY <2>2, <2>3
<1>12. Waking(p)' = ToSet(left) /\ \A q \in Thread \ {p} : Waking(q)' = Waking(q)
  BY <1>7 DEF Waking
<1>13. /\ th \notin ToSet(waiting) /\ th \notin ToSet(cond_waiting)
       /\ \A q \in Thread \ {p} : th \notin Waking(q)
  BY <1>1, <1>3 DEF ListsDistinct
<1>14. \A t : t \in OnList' <=> t \in OnList /\ t # th
  <2> TAKE t
  <2>1. t \in OnList' <=> t \in ToSet(waiting) \/ t \in ToSet(cond_waiting) \/ \E q \in Thread : t \in Waking(q)'
    BY <1>2 DEF OnList
  <2>2. t \in OnList <=> t \in ToSet(waiting) \/ t \in ToSet(cond_waiting) \/ \E q \in Thread : t \in Waking(q)
    BY DEF OnList
  <2> QED BY <1>3, <1>12, <1>13, <2>1, <2>2
<1>15. ListsDistinct'
  <2>1. ASSUME NEW q \in Thread
        PROVE  /\ IsInjective(to_wake'[q]) /\ Waking(q)' \subseteq Waking(q)
    BY <1>1, <1>3, <1>7, <1>12 DEF ListsDistinct
  <2>2. ASSUME NEW q \in Thread
        PROVE  /\ Waking(q)' \cap (ToSet(waiting) \cup ToSet(cond_waiting)) = {}
               /\ \A r \in Thread \ {q} : Waking(q)' \cap Waking(r)' = {}
    BY <1>1, <2>1 DEF ListsDistinct
  <2> QED BY <1>1, <1>2, <2>1, <2>2 DEF ListsDistinct
<1>16. critical_section' <=> next \in Critical
  BY <1>1, <1>2, <1>6, <1>9 DEF ListsInv, Critical
<1>17. ListsInv'
  <2>1. OnList \subseteq Thread /\ \A t \in Thread \ {p} : t \in OnList <=> status[t] = {"SUSPENDED"}
    BY <1>2, Sleepers
  <2>2. /\ p \in OnList' <=> next = "sleep"
        /\ status'[p] # {"SUSPENDED"} /\ (to_wake'[p] # <<>> => next \in {"waking", "condwaking"})
        /\ next = "enlist" => locked'
        /\ waiting' # <<>> => locked'
    BY <1>1, <1>2, <1>4, <1>6, <1>7, <1>14 DEF ListsInv
  <2>3. \A t \in Thread \ {p} : /\ t \in OnList' <=> status'[t] = {"SUSPENDED"}
                                /\ status'[t] = {"SUSPENDED"} => status[t] = {"SUSPENDED"}
                                /\ to_wake'[t] = to_wake[t]
    BY <1>7, <1>14, <2>1
  <2>4. OnList' \subseteq Thread
    BY <1>14, <2>1
  <2> HIDE DEF next
  <2> QED BY <1>2, <1>4, <1>5, <1>6, <1>9, <1>15, <1>16, <2>2, <2>3, <2>4, LibraryLists
<1> QED BY <1>8, <1>10, <1>11, <1>17 DEF WholeInv, CoreInv

\* The rest of the invariant when one thread falls asleep or is woken.
LEMMA SleepersCore ==
  ASSUME CoreInv, NEW th \in Thread, NEW s \in {{}, {"SUSPENDED"}}, NEW r \in Results,
         status' = [status EXCEPT ![th] = s], cause' = [cause EXCEPT ![th] = "sleep"],
         retval' = [retval EXCEPT ![th] = r], s = {} => r = "RESUMED_WAKEUP",
         status[th] # {"KILLED"}, pc' # "select",
         pc' = "run" => pc = "run" /\ th # curr_thread,
         UNCHANGED <<ring, delay, joining, run_thread, child, torn>>,
         pc' \in {"run", "scan", "select"}, critical_section' \in BOOLEAN, locked' \in BOOLEAN,
         waiting' \in Seq(Thread), cond_waiting' \in Seq(Thread), to_wake' \in [Thread -> Seq(Thread)],
         place' \in [Thread -> Places]
  PROVE  CoreInv'
<1>1. VMTypeOK /\ SchedInv /\ CauseInv
  BY DEF CoreInv
<1>2. /\ status'[th] = s /\ cause'[th] = "sleep" /\ retval'[th] = r
      /\ \A t \in Thread \ {th} : status'[t] = status[t] /\ cause'[t] = cause[t] /\ retval'[t] = retval[t]
  BY <1>1 DEF VMTypeOK
<1>3. VMTypeOK'
  <2>1. status' \in [Thread -> SUBSET Flags] /\ cause' \in [Thread -> Causes] /\ retval' \in [Thread -> Results]
    BY <1>1 DEF VMTypeOK, Flags, Causes
  <2> QED BY <1>1, <2>1 DEF VMTypeOK
<1>4. SchedInv'
  <2>1. ToSet(ring) \subseteq Thread /\ curr_thread \in Thread /\ curr_thread' = curr_thread
    BY <1>1, ToSetIn, HeadSet DEF VMTypeOK, curr_thread
  <2> QED BY <1>1, <1>2, <2>1 DEF SchedInv
<1>5. CauseInv'
  <2> SUFFICES ASSUME NEW t \in Thread
               PROVE  /\ Explained(status'[t], cause'[t], retval'[t], delay'[t] = "past",
                                   status'[joining'[t]] = {"KILLED"}, child' = "reaped")
                      /\ cause'[t] = "join" => joining'[t] \in Thread
    BY DEF CauseInv, Killed
  <2>1. CASE t = th
    BY <1>2, <2>1 DEF Explained
  <2>2. CASE t # th
    <3>1. /\ Explained(status[t], cause[t], retval[t], delay[t] = "past",
                       status[joining[t]] = {"KILLED"}, child = "reaped")
          /\ cause[t] = "join" => joining[t] \in Thread
      BY <1>1 DEF CauseInv, Killed
    <3>2. cause[t] = "join" /\ status[joining[t]] = {"KILLED"} => status'[joining[t]] = {"KILLED"}
      BY <1>2, <3>1
    <3> QED BY <1>2, <2>2, <3>1, <3>2 DEF Explained
  <2> QED BY <2>1, <2>2
<1> QED BY <1>3, <1>4, <1>5 DEF CoreInv

\* Thread.sleep and Thread.wakeup, whether or not a list is torn.
LEMMA SleepCore ==
  ASSUME CoreInv, NEW p \in Thread, thread_sleep(p)
  PROVE  CoreInv'
<1>1. /\ Running(p) /\ critical_section' = FALSE
      /\ place' = [place EXCEPT ![p] = "lock"] /\ status' = [status EXCEPT ![p] = {"SUSPENDED"}]
      /\ cause' = [cause EXCEPT ![p] = "sleep"] /\ pc' = "scan"
      /\ UNCHANGED <<ring, delay, joining, retval, run_thread, locked, waiting, cond_waiting, to_wake, torn, child>>
  BY DEF thread_sleep
<1>2. VMTypeOK /\ status[p] = {}
  BY <1>1, RunnerFacts DEF CoreInv
<1>3. retval' = [retval EXCEPT ![p] = retval[p]] /\ retval[p] \in Results
  BY <1>1, <1>2 DEF VMTypeOK
<1>4. place' \in [Thread -> Places]
  BY <1>1, <1>2 DEF VMTypeOK, Places
<1> QED BY <1>1, <1>2, <1>3, <1>4, SleepersCore DEF VMTypeOK

LEMMA WakeCore ==
  ASSUME CoreInv, NEW p \in Thread,
         NEW from \in {"waking", "condwaking"}, NEW to \in {"run", "cond"}, Wake(p, from, to)
  PROVE  CoreInv'
<1> DEFINE th == Head(to_wake[p])
           ok == status[th] = {"SUSPENDED"}
           left == IF ok THEN Tail(to_wake[p]) ELSE <<>>
           next == IF ~ok THEN "run" ELSE IF left = <<>> THEN to ELSE from
<1>1. VMTypeOK /\ CauseInv
  BY DEF CoreInv
<1>2. /\ Running(p) /\ to_wake[p] # <<>> /\ to_wake' = [to_wake EXCEPT ![p] = left]
      /\ place' = [place EXCEPT ![p] = next]
      /\ UNCHANGED <<ring, sched, torn, child, critical_section, locked, waiting, cond_waiting>>
      /\ IF ok THEN thread_wakeup(th) ELSE UNCHANGED descr
  BY DEF Wake, Step
<1>3. th \in Thread /\ left \in Seq(Thread) /\ next \in Places
  <2>1. to_wake[p] \in Seq(Thread)
    BY <1>1 DEF VMTypeOK
  <2>2. th \in Thread /\ Tail(to_wake[p]) \in Seq(Thread)
    BY <1>2, <2>1, HeadSet, TailSet
  <2> QED BY <2>2 DEF Places
<1> HIDE DEF th, ok, left, next
<1>4. to_wake' \in [Thread -> Seq(Thread)] /\ place' \in [Thread -> Places]
  BY <1>1, <1>2, <1>3 DEF VMTypeOK
<1>5. CASE ~ok
  <2>1. UNCHANGED <<ring, sched, child, descr>>
    BY <1>2, <1>5
  <2> QED BY <1>1, <1>2, <1>3, <1>4, <2>1, LibraryFrame DEF VMTypeOK, CoreInv
<1>6. CASE ok
  <2>1. /\ status' = [status EXCEPT ![th] = {}] /\ retval' = [retval EXCEPT ![th] = "RESUMED_WAKEUP"]
        /\ UNCHANGED <<delay, joining, cause>> /\ status[th] = {"SUSPENDED"}
    BY <1>2, <1>6 DEF thread_wakeup, ok
  <2>2. cause[th] = "sleep"
    <3>1. cause[th] \in Causes /\ Explained(status[th], cause[th], retval[th], delay[th] = "past",
                                              Killed(joining[th]), child = "reaped")
      BY <1>1, <1>3 DEF VMTypeOK, CauseInv
    <3> QED BY <2>1, <3>1 DEF Explained, Causes
  <2>3. cause' = [cause EXCEPT ![th] = "sleep"]
    BY <1>1, <2>1, <2>2 DEF VMTypeOK
  <2>4. pc = "run" /\ curr_thread = p /\ status[p] = {} /\ pc' = pc /\ run_thread' = run_thread
    BY <1>2, RunnerFacts DEF sched
  <2>5. "RESUMED_WAKEUP" \in Results /\ th # p
    BY <2>1, <2>4 DEF Results
  <2> QED BY <1>1, <1>2, <1>3, <1>4, <2>1, <2>3, <2>4, <2>5, SleepersCore DEF VMTypeOK
<1> QED BY <1>5, <1>6

\* Whatever a thread does in mutex.ml and condition.ml, whether or not a list is torn.
LEMMA LibraryCore ==
  ASSUME CoreInv, NEW p \in Thread, InLibrary(p) \/ UsesLocks(p)
  PROVE  CoreInv' /\ torn' = torn
<1>1. CASE thread_sleep(p)
  BY <1>1, SleepCore DEF thread_sleep
<1>2. CASE Wake(p, "waking", "run")
  BY <1>2, WakeCore DEF Wake, Step
<1>3. CASE Wake(p, "condwaking", "cond")
  BY <1>3, WakeCore DEF Wake, Step
<1>4. ASSUME NEW to \in Places, NEW from, Step(p, from, to), UNCHANGED descr,
             critical_section' \in BOOLEAN, locked' \in BOOLEAN,
             waiting' \in Seq(Thread), cond_waiting' \in Seq(Thread), to_wake' \in [Thread -> Seq(Thread)]
      PROVE  CoreInv' /\ torn' = torn
  BY <1>4, LibraryFrame DEF Step, CoreInv
<1>5. /\ waiting \in Seq(Thread) /\ cond_waiting \in Seq(Thread) /\ to_wake \in [Thread -> Seq(Thread)]
      /\ critical_section \in BOOLEAN /\ locked \in BOOLEAN /\ <<>> \in Seq(Thread)
  BY DEF CoreInv, VMTypeOK
<1>6. ASSUME NEW from, lock(p, from) PROVE CoreInv' /\ torn' = torn
  <2>1. PICK to \in Places : Step(p, from, to) /\ UNCHANGED <<descr, waiting, cond_waiting, to_wake>>
                              /\ locked' \in BOOLEAN /\ critical_section' \in BOOLEAN
    BY <1>5, <1>6 DEF lock, Take, Enlist, Places
  <2> QED BY <1>4, <1>5, <2>1
<1>7. CASE LockWaits(p)
  <2>1. <<p>> \o waiting \in Seq(Thread)
    BY <1>5, ConsSet
  <2> QED BY <1>4, <1>5, <1>7, <2>1 DEF LockWaits, Places
<1>8. CASE CondWaits(p)
  <2>1. <<p>> \o cond_waiting \in Seq(Thread)
    BY <1>5, ConsSet
  <2> QED BY <1>4, <1>5, <1>8, <2>1 DEF CondWaits, Places
<1>9. ASSUME NEW to \in Places, unlock(p, "run", to), critical_section' \in BOOLEAN
      PROVE  CoreInv' /\ torn' = torn
  <2>1. to_wake' \in [Thread -> Seq(Thread)] /\ waiting' = <<>> /\ locked' = FALSE /\ cond_waiting' = cond_waiting
        /\ UNCHANGED descr /\ Step(p, "run", to)
    BY <1>5, <1>9 DEF unlock
  <2> QED BY <1>4, <1>5, <1>9, <2>1
<1>10. ASSUME NEW n \in {1, Len(cond_waiting)}, signal(p, n) PROVE CoreInv' /\ torn' = torn
  <2>1. n \in 0 .. Len(cond_waiting)
    <3>1. Len(cond_waiting) \in Nat \ {0}
      BY <1>5, <1>10, HeadSet DEF signal
    <3> QED BY <3>1
  <2>2. SubSeq(cond_waiting, 1, n) \in Seq(Thread) /\ SubSeq(cond_waiting, n + 1, Len(cond_waiting)) \in Seq(Thread)
    BY <1>5, <2>1, SplitSet
  <2>3. to_wake' \in [Thread -> Seq(Thread)] /\ cond_waiting' \in Seq(Thread)
    BY <1>5, <1>10, <2>2 DEF signal
  <2> QED BY <1>4, <1>5, <1>10, <2>3 DEF signal, Places
<1>11. CASE unlock(p, "run", IF waiting = <<>> THEN "run" ELSE "waking") /\ UNCHANGED critical_section
  BY <1>5, <1>9, <1>11 DEF Places
<1>12. CASE wait(p)
  BY <1>9, <1>12 DEF wait, Places
<1> QED BY <1>1, <1>2, <1>3, <1>6, <1>7, <1>8, <1>10, <1>11, <1>12 DEF InLibrary, UsesLocks

-----------------------------------------------------------------------------
(* The specification.                                                      *)

LEMMA VMInitInv == VMInit => VMInv
<1> SUFFICES ASSUME VMInit PROVE VMInv
  OBVIOUS
<1>1. Main \in Thread /\ Lockers \subseteq Thread /\ NULL \notin Thread
  BY VMAssumption
<1>2. ring \in Seq(Thread) /\ ring # <<>> /\ Head(ring) = Main /\ ToSet(ring) = {Main}
  BY <1>1 DEF VMInit, ToSet
<1>3. waiting = <<>> /\ cond_waiting = <<>> /\ <<>> \in Seq(Thread) /\ \A th \in Thread : to_wake[th] = <<>>
  BY DEF VMInit
<1>4. VMTypeOK
  <2>1. /\ status \in [Thread -> SUBSET Flags] /\ cause \in [Thread -> Causes]
        /\ delay \in [Thread -> {"none", "pending", "past"}]
    BY DEF VMInit, Causes
  <2>2. /\ joining \in [Thread -> Thread \cup {NULL}] /\ retval \in [Thread -> Results]
        /\ to_wake \in [Thread -> Seq(Thread)] /\ place \in [Thread -> Places]
    BY <1>3 DEF VMInit, Results, Places
  <2> QED BY <1>2, <1>3, <2>1, <2>2 DEF VMInit, VMTypeOK
<1>5. SchedInv
  BY <1>1, <1>2 DEF VMInit, SchedInv, curr_thread
<1>6. CauseInv
  BY DEF VMInit, CauseInv, Explained, Killed
<1>7. ToSet(<<>>) = {} /\ IsInjective(<<>>)
  <2>1. ToSet(<<>>) = {}
    BY <1>3, ToSetIn
  <2>2. IsInjective(<<>>)
    BY DEF IsInjective
  <2> QED BY <2>1, <2>2
<1>8. (\A th \in Thread : Waking(th) = {}) /\ OnList = {}
  BY <1>3, <1>7 DEF Waking, OnList
<1>9. ListsDistinct
  BY <1>3, <1>7, <1>8 DEF ListsDistinct
<1>10. ListsInv
  BY <1>3, <1>8, <1>9 DEF VMInit, ListsInv, Critical
<1> QED BY <1>4, <1>5, <1>6, <1>10 DEF VMInv, CoreInv

LEMMA InLibraryKeeps ==
  ASSUME WholeInv, NEW p \in Thread, InLibrary(p)
  PROVE  WholeInv'
<1>1. CASE lock(p, "lock")
  <2>1. p \in Lockers
    BY <1>1 DEF lock, Step, WholeInv, CoreInv, ListsInv
  <2> QED BY <1>1, <2>1, MutexLockKeeps
<1>2. CASE LockWaits(p) \/ CondWaits(p)
  BY <1>2, EnlistKeeps
<1>3. CASE thread_sleep(p)
  BY <1>3, SleepKeeps
<1>4. CASE Wake(p, "waking", "run")
  BY <1>4, WakeKeeps
<1>5. CASE Wake(p, "condwaking", "cond")
  BY <1>5, WakeKeeps
<1> QED BY <1>1, <1>2, <1>3, <1>4, <1>5 DEF InLibrary

LEMMA UsesLocksKeeps ==
  ASSUME WholeInv, NEW p \in Thread, UsesLocks(p)
  PROVE  WholeInv'
<1>1. p \in Lockers
  BY DEF UsesLocks
<1>2. CASE lock(p, "run")
  BY <1>1, <1>2, MutexLockKeeps
<1>3. CASE unlock(p, "run", IF waiting = <<>> THEN "run" ELSE "waking") /\ UNCHANGED critical_section
  <2>1. PICK to \in {"run", "waking"} : unlock(p, "run", to) /\ (waiting # <<>> => to = "waking")
    BY <1>3
  <2> QED BY <1>1, <1>3, <2>1, UnlockKeeps
<1>4. CASE wait(p)
  <2>1. PICK to \in {"cond", "condwaking"} : unlock(p, "run", to) /\ (waiting # <<>> => to = "condwaking")
    BY <1>4 DEF wait
  <2>2. critical_section' = TRUE
    BY <1>4 DEF wait
  <2> QED BY <1>1, <2>1, <2>2, UnlockKeeps
<1>5. CASE \E n \in {1, Len(cond_waiting)} : signal(p, n)
  BY <1>1, <1>5, SignalKeeps
<1> QED BY <1>2, <1>3, <1>4, <1>5 DEF UsesLocks

LEMMA VMStep == VMInv /\ [VMNext]_vmvars => VMInv'
<1> SUFFICES ASSUME VMInv, [VMNext]_vmvars PROVE VMInv'
  OBVIOUS
<1> USE DEF VMInv
<1>1. CASE schedule_thread
  <2>1. CoreInv' /\ (ListsInv => ListsInv')
    BY <1>1, ScanKeeps, SelectKeeps DEF schedule_thread
  <2>2. torn' = torn
    BY <1>1 DEF schedule_thread, Scan, SelectReady, SelectBad, SelectTimeout, SelectInterrupted, Selected, locks
  <2> QED BY <2>1, <2>2
<1>2. ASSUME NEW p \in Thread, preempt(p) \/ thread_yield(p) PROVE VMInv'
  <2>1. torn' = torn
    BY <1>2 DEF preempt, thread_yield, Reschedule, locks
  <2> QED BY <1>2, <2>1, RescheduleKeeps
<1>3. ASSUME NEW p \in Thread, Blocks(p) PROVE VMInv'
  <2>1. torn' = torn
    BY <1>3 DEF Blocks, thread_wait_rw, thread_select, thread_delay, thread_wait_pid, thread_join, locks
  <2> QED BY <1>3, <2>1, BlocksKeeps
<1>4. ASSUME NEW p \in Thread, NEW th \in Thread, thread_new(p, th) PROVE VMInv'
  <2>1. torn' = torn
    BY <1>4 DEF thread_new, locks
  <2> QED BY <1>4, <2>1, NewKeeps
<1>5. ASSUME NEW p \in Thread, NEW th \in Thread, thread_kill(p, th) PROVE VMInv'
  <2>1. torn => torn'
    BY <1>5 DEF thread_kill
  <2> QED BY <1>5, <2>1, KillKeeps
<1>6. ASSUME NEW p \in Thread, InLibrary(p) \/ UsesLocks(p) PROVE VMInv'
  <2>1. CoreInv' /\ torn' = torn
    BY <1>6, LibraryCore
  <2>2. ASSUME ~torn PROVE ListsInv'
    BY <1>6, <2>2, InLibraryKeeps, UsesLocksKeeps DEF WholeInv
  <2> QED BY <2>1, <2>2
<1>7. CASE ChildExits \/ (\E th \in Thread : Tick(th)) \/ UNCHANGED vmvars
  <2>1. torn' = torn
    BY <1>7 DEF ChildExits, Tick, vmvars, locks
  <2> QED BY <1>7, <2>1, EnvironmentKeeps
<1> QED BY <1>1, <1>2, <1>3, <1>4, <1>5, <1>6, <1>7 DEF VMNext

LEMMA VMInvSleepers == VMInv => SleepersKnown
<1> SUFFICES ASSUME VMInv PROVE SleepersKnown
  OBVIOUS
<1>1. VMTypeOK /\ SchedInv /\ CauseInv /\ (~torn => ListsInv)
  BY DEF VMInv, CoreInv
<1>2. Lockers \subseteq Thread /\ ToSet(ring) \subseteq Thread
  BY <1>1, VMAssumption, ToSetIn DEF VMTypeOK
<1>3. ASSUME ~torn
      PROVE  /\ \A th \in OnList : status[th] = {"SUSPENDED"} \/ (th = curr_thread /\ critical_section)
             /\ waiting # <<>> => locked
             /\ \A th \in Thread : place[th] = "lock" /\ status[th] = {"SUSPENDED"} => th \in OnList
  BY <1>1, <1>2, <1>3 DEF ListsInv, Critical
<1>4. WaitersSleep
  BY <1>3, ListedOnList DEF WaitersSleep
<1>5. ResumedForCause
  <2> SUFFICES ASSUME NEW th \in ToSet(ring), status[th] = {}
               PROVE  CASE cause[th] = "none"   -> TRUE
                        [] cause[th] = "io"     -> retval[th] \in {"RESUMED_IO", "RESUMED_DELAY"}
                        [] cause[th] = "select" -> retval[th] \in {"RESUMED_SELECT", "RESUMED_DELAY"}
                        [] cause[th] = "delay"  -> retval[th] = "RESUMED_DELAY" /\ delay[th] = "past"
                        [] cause[th] = "join"   -> retval[th] = "RESUMED_JOIN" /\ Killed(joining[th])
                        [] cause[th] = "wait"   -> retval[th] = "RESUMED_WAIT" /\ child = "reaped"
                        [] cause[th] = "sleep"  -> retval[th] = "RESUMED_WAKEUP"
    BY DEF ResumedForCause, RUNNABLE
  <2>1. cause[th] \in Causes /\ cause[th] # "unborn"
    BY <1>1, <1>2 DEF VMTypeOK, SchedInv
  <2>2. Explained(status[th], cause[th], retval[th], delay[th] = "past", Killed(joining[th]), child = "reaped")
    BY <1>1, <1>2 DEF CauseInv
  <2> QED BY <2>1, <2>2 DEF Causes, Explained
<1> QED BY <1>4, <1>5 DEF SleepersKnown

\* Whatever the threads do, a thread that schedule_thread resumes is told the reason of the
\* call in which it blocked; and until Thread.kill hits a thread that is on the list of a mutex
\* or a condition, or that is waking those of one, the threads on the lists sleep, or are about
\* to and cannot be preempted, so that Thread.wakeup does not fail (mutex.ml, condition.ml).
THEOREM SleepersStayKnown == VMSpec => []SleepersKnown
<1>1. VMInit => VMInv
  BY VMInitInv
<1>2. VMInv /\ [VMNext]_vmvars => VMInv'
  BY VMStep
<1>3. VMInv => SleepersKnown
  BY VMInvSleepers
<1> QED BY <1>1, <1>2, <1>3, PTL DEF VMSpec
=============================================================================
