--------------------------- MODULE PackThreadsProofs ---------------------------
(***************************************************************************)
(* Proofs about PackThreads, for every set of inputs and every number of   *)
(* threads: the order of the mtasks, that none waits in a circle, that     *)
(* each is packed once and wide ones apart, and the predicted times.       *)
(***************************************************************************)
EXTENDS PackThreads, FiniteSetTheorems, WellFoundedInduction, TLAPS

\* A finite set of naturals has a largest element, which Max picks.
LEMMA MaxOfNats ==
    ASSUME NEW S \in SUBSET Nat, IsFiniteSet(S), S # {}
    PROVE  /\ Max(S) \in S
           /\ \A y \in S : y <= Max(S)
<1> DEFINE HasMax(T) == \E x \in T : \A y \in T : x >= y
           Bad == {T \in FiniteSubsetsOf(S) : T # {} /\ ~HasMax(T)}
<1>1. Bad = {}
  <2> SUFFICES ASSUME Bad # {} PROVE FALSE
    OBVIOUS
  <2>1. Bad \subseteq FiniteSubsetsOf(S)
    OBVIOUS
  <2>2. PICK T \in Bad : \A U \in Bad : <<U, T>> \notin StrictSubsetOrdering(S)
    <3> HIDE DEF Bad
    <3> QED
    BY <2>1, WFMin, FS_StrictSubsetOrderingWellFounded
  <2>3. PICK x \in T : TRUE
    OBVIOUS
  <2> DEFINE U == T \ {x}
  <2>4. T \subseteq S /\ IsFiniteSet(T) /\ T # {} /\ ~HasMax(T)
    BY DEF FiniteSubsetsOf
  <2>5. U \in FiniteSubsetsOf(S)
    BY <2>4, FS_RemoveElement DEF FiniteSubsetsOf
  <2>6. <<U, T>> \in StrictSubsetOrdering(S)
    BY <2>3, <2>4 DEF StrictSubsetOrdering
  <2>7. U # {}
    BY <2>3, <2>4
  <2>8. HasMax(U)
    BY <2>2, <2>5, <2>6, <2>7
  <2>9. PICK z \in U : \A y \in U : z >= y
    BY <2>8
  <2>10. CASE z >= x
    BY <2>4, <2>9, <2>10
  <2>11. CASE ~(z >= x)
    <3>1. x \in Nat /\ z \in Nat /\ \A y \in T : y \in Nat
      BY <2>3, <2>4, <2>9
    <3>2. \A y \in T : x >= y
      BY <3>1, <2>9, <2>11
    <3> QED
      BY <3>2, <2>3, <2>4
  <2> QED
    BY <2>10, <2>11
<1>2. S \in FiniteSubsetsOf(S)
  BY DEF FiniteSubsetsOf
<1>3. HasMax(S)
  BY <1>1, <1>2
<1>4. Max(S) \in S /\ \A y \in S : Max(S) >= y
  BY <1>3 DEF Max
<1> QED
  BY <1>4

\* The fields of an input.
LEMMA InputFields ==
    ASSUME input \in Inputs
    PROVE  /\ input.n \in Nat /\ MTask = 1 .. input.n
           /\ IsFiniteSet(MTask)
           /\ input.cost \in [MTask -> Nat]
           /\ input.edges \subseteq MTask \X MTask
           /\ \A m \in MTask : <<m, m>> \notin input.edges
           /\ WideSize(input) \in 1 .. NHierThreads
<1>1. input.n \in Nat /\ MTask = 1 .. input.n
  BY InputAssumption DEF InputAssumption, MTask, MTasksOf
<1>2. IsFiniteSet(MTask)
  BY <1>1, FS_Interval
<1>3. QED
  BY <1>1, <1>2, InputAssumption DEF InputAssumption, MTask, MTasksOf

\* Every thread of a schedule has its entry in busyUntil.
LEMMA BusyRange ==
    ASSUME input \in Inputs
    PROVE  /\ \A n \in {NThreads, WideSize(input)} : 0 .. n - 1 \subseteq BusyThreads
           /\ UNASSIGNED \notin BusyThreads
<1>1. NThreads \in Nat /\ NHierThreads \in Nat /\ WideSize(input) \in 1 .. NHierThreads
  BY ThreadsAssumption, InputFields DEF ThreadsAssumption
<1>2. IsFiniteSet({NThreads, NHierThreads})
  <2>1. {NThreads, NHierThreads} = {NThreads} \cup {NHierThreads}
    OBVIOUS
  <2>2. IsFiniteSet({NThreads})
    BY FS_Singleton
  <2>3. IsFiniteSet({NThreads} \cup {NHierThreads})
    BY <2>2, FS_AddElement
  <2> QED
    BY <2>1, <2>3
<1> DEFINE b == Max({NThreads, NHierThreads})
<1>3. b \in Nat /\ NThreads <= b /\ NHierThreads <= b
  <2>1. {NThreads, NHierThreads} \in SUBSET Nat /\ {NThreads, NHierThreads} # {}
    BY <1>1
  <2> QED
    BY <1>1, <1>2, <2>1, MaxOfNats
<1>4. BusyThreads = 0 .. b - 1
  BY DEF BusyThreads
<1> HIDE DEF b
<1> QED
  BY <1>1, <1>3, <1>4 DEF UNASSIGNED

\* Padding with a fraction of the cost gives a time.
LEMMA PadNat ==
    ASSUME NEW y \in Nat
    PROVE  (SandbagNumerator * y) \div SandbagDenom \in Nat
<1>1. SandbagNumerator \in Nat /\ SandbagDenom \in Nat \ {0}
  BY ThreadsAssumption DEF ThreadsAssumption
<1> DEFINE z == SandbagNumerator * y
<1>2. z \in Nat
  BY <1>1
<1> HIDE DEF z
<1>3. z \div SandbagDenom \in Nat
  BY <1>1, <1>2
<1> QED
  BY <1>3 DEF z

\* The end of an mtask is a time whichever thread looks.
LEMMA CompletionTimeNat ==
    ASSUME input \in Inputs, TypeOK, NEW s, NEW m \in MTask, NEW th
    PROVE  CompletionTime(s, m, th) \in Nat
<1> DEFINE pad == (SandbagNumerator * input.cost[m]) \div SandbagDenom
<1>1. input.cost[m] \in Nat /\ completion[m] \in Nat /\ nextp[m] \in MTask \cup {None}
  BY InputFields DEF TypeOK
<1>2. pad \in Nat
  BY <1>1, PadNat
<1>3. nextp[m] # None => completion[nextp[m]] \in Nat
  BY <1>1 DEF TypeOK
<1> HIDE DEF pad
<1>4. CompletionTime(s, m, th) =
        CASE m \notin s.mtasks -> 0
          [] m \in s.mtasks /\ threadId[m] = th -> completion[m]
          [] OTHER -> IF nextp[m] # None /\ completion[m] + pad >= completion[nextp[m]]
                            /\ completion[nextp[m]] > 1
                      THEN completion[nextp[m]] - 1 ELSE completion[m] + pad
  BY DEF CompletionTime, pad
<1> QED
  BY <1>1, <1>2, <1>3, <1>4

\* So is the time at which a candidate may begin: when its thread is free and all it
\* depends on is over.
LEMMA TimeBeginNat ==
    ASSUME input \in Inputs, TypeOK, NEW c, c[1] \in BusyThreads, c[2] \in MTask
    PROVE  /\ TimeBegin(c) \in Nat
           /\ busyUntil[c[1]] <= TimeBegin(c)
           /\ \A p \in Preds(c[2]) : CompletionTime(Schedule, p, c[1]) <= TimeBegin(c)
<1> DEFINE P == Preds(c[2])
           f == [p \in P |-> CompletionTime(Schedule, p, c[1])]
           T == {CompletionTime(Schedule, p, c[1]) : p \in P}
<1>1. P \subseteq MTask /\ IsFiniteSet(P)
  <2>1. P \in SUBSET MTask
    BY DEF Preds
  <2> QED
    BY <2>1, InputFields, FS_Subset
<1>2. T \subseteq Nat
  BY <1>1, CompletionTimeNat
<1>3. IsFiniteSet(T)
  <2>1. f \in Surjection(P, T)
    BY DEF Surjection
  <2> QED
    BY <1>1, <2>1, FS_Surjection
<1>4. busyUntil[c[1]] \in Nat
  BY DEF TypeOK
<1> DEFINE S == {busyUntil[c[1]]} \cup T
<1>5. IsFiniteSet(S)
  <2>1. S = T \cup {busyUntil[c[1]]}
    OBVIOUS
  <2> HIDE DEF T
  <2> QED
    BY <1>3, <2>1, FS_AddElement
<1>6. S \in SUBSET Nat /\ S # {}
  BY <1>2, <1>4
<1>7. TimeBegin(c) = Max(S)
  BY DEF TimeBegin
<1>8. busyUntil[c[1]] \in S /\ \A p \in P : CompletionTime(Schedule, p, c[1]) \in S
  OBVIOUS
<1> HIDE DEF S
<1>9. Max(S) \in S /\ \A y \in S : y <= Max(S)
  BY <1>5, <1>6, MaxOfNats
<1> QED
  BY <1>6, <1>7, <1>8, <1>9

\* A schedule in the making has threads 0 .. n-1, each with a sequence of mtasks.
LEMMA ScheduleFields ==
    ASSUME input \in Inputs, TypeOK, NEW k \in DOMAIN result
    PROVE  /\ DOMAIN result = 1 .. Len(result) /\ Len(result) \in Nat \ {0}
           /\ result[k] \in Schedules(NThreads) \cup Schedules(WideSize(input))
           /\ DOMAIN result[k].threads \subseteq BusyThreads
           /\ result[k].threads \in [DOMAIN result[k].threads -> Seq(MTask)]
           /\ result[k] = [threads |-> result[k].threads, mtasks |-> result[k].mtasks,
                           endTime |-> result[k].endTime]
           /\ result[k].mtasks \subseteq MTask /\ result[k].endTime \in Nat
<1>1. /\ result \in Seq(Schedules(NThreads) \cup Schedules(WideSize(input)))
      /\ result # <<>>
  BY DEF TypeOK
<1>2. DOMAIN result = 1 .. Len(result) /\ Len(result) \in Nat \ {0}
  BY <1>1
<1>3. result[k] \in Schedules(NThreads) \cup Schedules(WideSize(input))
  BY <1>1
<1>4. PICK n \in {NThreads, WideSize(input)} : result[k] \in Schedules(n)
  BY <1>3
<1>5. /\ result[k].threads \in [0 .. n - 1 -> Seq(MTask)]
      /\ result[k].mtasks \subseteq MTask /\ result[k].endTime \in Nat
      /\ result[k] = [threads |-> result[k].threads, mtasks |-> result[k].mtasks,
                      endTime |-> result[k].endTime]
  BY <1>4 DEF Schedules
<1>6. DOMAIN result[k].threads = 0 .. n - 1
  BY <1>5
<1> QED
  BY <1>2, <1>3, <1>5, <1>6, BusyRange

\* An mtask on a thread is an mtask.
LEMMA AtMTask ==
    ASSUME input \in Inputs, TypeOK, NEW m, NEW k, NEW t, NEW i, At(m, k, t, i)
    PROVE  m \in MTask /\ k \in 1 .. Len(result) /\ i \in Nat
<1>1. result[k].threads[t] \in Seq(MTask) /\ k \in 1 .. Len(result)
  BY ScheduleFields DEF At
<1> QED
  BY <1>1 DEF At

\* A candidate is a thread of the current schedule and a ready mtask.
LEMMA CandidateFields ==
    ASSUME input \in Inputs, TypeOK, NEW c \in Candidates
    PROVE  /\ c[1] \in DOMAIN Schedule.threads /\ c[1] \in BusyThreads
           /\ c[2] \in ready /\ c[2] \in MTask
           /\ Schedule.threads[c[1]] \in Seq(MTask)
           /\ Len(result) \in DOMAIN result
<1>1. Len(result) \in DOMAIN result
  BY DEF TypeOK
<1>2. c[1] \in DOMAIN Schedule.threads /\ c[2] \in Eligible
  BY DEF Candidates
<1> QED
  BY <1>1, <1>2, ScheduleFields DEF Schedule, Eligible, TypeOK

\* scheduleOn adds one place, at the end of the thread, and moves nothing.
LEMMA PlacesAfterScheduleOn ==
    ASSUME input \in Inputs, TypeOK, NEW c \in Candidates, NEW b,
           ScheduleOn(c[2], c[1], b)
    PROVE  \A m, k, t, i : At(m, k, t, i)' <=>
               \/ At(m, k, t, i)
               \/ /\ m = c[2] /\ k = Len(result) /\ t = c[1]
                  /\ i = Len(Schedule.threads[c[1]]) + 1
<1> DEFINE L == Len(result)  th == c[1]  old == result[L].threads
<1>1. /\ L \in DOMAIN result /\ th \in DOMAIN old /\ old[th] \in Seq(MTask)
      /\ Schedule = result[L]
  BY CandidateFields DEF Schedule
<1> DEFINE new == [threads |-> [old EXCEPT ![th] = Append(old[th], c[2])],
                   mtasks |-> result[L].mtasks \cup {c[2]},
                   endTime |-> Max({result[L].endTime, b + input.cost[c[2]]})]
<1>2. result' = [result EXCEPT ![L] = new]
  BY DEF ScheduleOn, Schedule
<1>3. /\ DOMAIN result' = DOMAIN result
      /\ result'[L].threads = [old EXCEPT ![th] = Append(old[th], c[2])]
      /\ \A k \in DOMAIN result : k # L => result'[k] = result[k]
  <2>2. new.threads = [old EXCEPT ![th] = Append(old[th], c[2])]
    OBVIOUS
  <2>3. result \in [DOMAIN result -> {result[k] : k \in DOMAIN result}]
    BY DEF TypeOK
  <2> HIDE DEF new, old, th, L
  <2> QED
    BY <1>1, <1>2, <2>2, <2>3
<1>4. /\ DOMAIN result'[L].threads = DOMAIN old
      /\ result'[L].threads[th] = Append(old[th], c[2])
      /\ \A t \in DOMAIN old : t # th => result'[L].threads[t] = old[t]
  <2> HIDE DEF L, th, old
  <2> QED
    BY <1>1, <1>3
<1>5. /\ DOMAIN Append(old[th], c[2]) = 1 .. Len(old[th]) + 1
      /\ DOMAIN old[th] = 1 .. Len(old[th]) /\ Len(old[th]) \in Nat
      /\ \A i \in 1 .. Len(old[th]) : Append(old[th], c[2])[i] = old[th][i]
      /\ Append(old[th], c[2])[Len(old[th]) + 1] = c[2]
  <2> HIDE DEF L, th, old
  <2>1. c[2] \in MTask
    BY CandidateFields
  <2> QED
    BY <1>1, <2>1
<1> SUFFICES ASSUME NEW m, NEW k, NEW t, NEW i
             PROVE  At(m, k, t, i)' <=>
                        \/ At(m, k, t, i)
                        \/ m = c[2] /\ k = L /\ t = th /\ i = Len(old[th]) + 1
  BY <1>1
<1> HIDE DEF L, th, old
<1>6. CASE k # L
  BY <1>3, <1>6 DEF At
<1>7. CASE k = L /\ t # th
  BY <1>1, <1>3, <1>4, <1>7 DEF At, old
<1>8. CASE k = L /\ t = th
  <2>1. At(m, k, t, i)' <=> i \in 1 .. Len(old[th]) + 1 /\ Append(old[th], c[2])[i] = m
    BY <1>1, <1>3, <1>4, <1>5, <1>8 DEF At
  <2>2. At(m, k, t, i) <=> i \in 1 .. Len(old[th]) /\ old[th][i] = m
    BY <1>1, <1>5, <1>8 DEF At, old
  <2> QED
    BY <1>5, <1>8, <2>1, <2>2
<1> QED
  BY <1>6, <1>7, <1>8

\* A new schedule has no mtask yet.
LEMMA PlacesAfterNewSchedule ==
    ASSUME input \in Inputs, TypeOK, NEW n \in Nat, NewSchedule(result, n)
    PROVE  \A m, k, t, i : At(m, k, t, i)' <=> At(m, k, t, i)
<1>1. /\ result \in Seq(Schedules(NThreads) \cup Schedules(WideSize(input)))
      /\ result' = Append(result, ThreadSchedule(n))
  BY DEF NewSchedule, TypeOK
<1>2. /\ DOMAIN result = 1 .. Len(result) /\ Len(result) \in Nat
      /\ DOMAIN result' = 1 .. Len(result) + 1
      /\ \A k \in DOMAIN result : result'[k] = result[k]
      /\ result'[Len(result) + 1] = ThreadSchedule(n)
  BY <1>1
<1>3. \A t \in DOMAIN ThreadSchedule(n).threads : ThreadSchedule(n).threads[t] = <<>>
  BY DEF ThreadSchedule
<1> TAKE m, k, t, i
<1>4. CASE k \in DOMAIN result
  BY <1>2, <1>4 DEF At
<1>5. CASE k \notin DOMAIN result
  BY <1>2, <1>3, <1>5 DEF At
<1> QED
  BY <1>4, <1>5

\* Nor has one that takes the place of an empty first schedule.
LEMMA PlacesAfterFirstSchedule ==
    ASSUME NEW n \in Nat, NewSchedule(<<>>, n)
    PROVE  \A m, k, t, i : ~At(m, k, t, i)'
<1>1. result' = <<ThreadSchedule(n)>>
  BY DEF NewSchedule
<1>2. \A t \in DOMAIN ThreadSchedule(n).threads : ThreadSchedule(n).threads[t] = <<>>
  BY DEF ThreadSchedule
<1> QED
  BY <1>1, <1>2 DEF At

\* The new schedules have their type.
LEMMA NewScheduleType ==
    ASSUME input \in Inputs
    PROVE  \A n \in {NThreads, WideSize(input)} :
               n \in Nat /\ ThreadSchedule(n) \in Schedules(n)
<1> TAKE n \in {NThreads, WideSize(input)}
<1>1. n \in Nat
  BY ThreadsAssumption, InputFields DEF ThreadsAssumption
<1>2. [t \in 0 .. n - 1 |-> <<>>] \in [0 .. n - 1 -> Seq(MTask)]
  OBVIOUS
<1> QED
  BY <1>1, <1>2 DEF ThreadSchedule, Schedules

\* The packer starts in a state of the invariant.
LEMMA InitInv == Init => IInv
<1> SUFFICES ASSUME Init PROVE IInv
  OBVIOUS
<1>1. input \in Inputs
  BY DEF Init
<1>2. \A m, k, t, i : ~At(m, k, t, i)
  <2>1. result = <<ThreadSchedule(NThreads)>>
    BY DEF Init
  <2>2. \A t \in DOMAIN ThreadSchedule(NThreads).threads :
            ThreadSchedule(NThreads).threads[t] = <<>>
    BY DEF ThreadSchedule
  <2> QED
    BY <2>1, <2>2 DEF At
<1>3. Assigned = {}
  BY DEF Init, Assigned
<1>4. TypeOK
  <2>1. result \in Seq(Schedules(NThreads) \cup Schedules(WideSize(input))) \ {<<>>}
    <3>1. ThreadSchedule(NThreads) \in Schedules(NThreads) \cup Schedules(WideSize(input))
      BY <1>1, NewScheduleType
    <3> QED
      BY <3>1 DEF Init
  <2>2. threadId \in [MTask -> BusyThreads \cup {UNASSIGNED}]
    BY DEF Init
  <2>3. /\ completion \in [MTask -> Nat] /\ predictStart \in [MTask -> Nat]
        /\ nextp \in [MTask -> MTask \cup {None}]
    BY DEF Init
  <2>4. busyUntil \in [BusyThreads -> Nat]
    BY DEF Init
  <2>5. ready \in SUBSET MTask /\ mode \in {"scheduling", "wideDiscovered", "wideScheduling"}
    BY DEF Init
  <2> QED
    BY <2>1, <2>2, <2>3, <2>4, <2>5 DEF TypeOK
<1>5. Placed
  BY <1>2, <1>3 DEF Placed
<1>6. PredsAssigned
  BY <1>3 DEF PredsAssigned, Init
<1>7. OrderKept
  BY <1>2 DEF OrderKept
<1>8. NoCircularWait
  BY <1>3 DEF NoCircularWait
<1> QED
  BY <1>1, <1>4, <1>5, <1>6, <1>7, <1>8 DEF IInv

\* Assigning an mtask keeps the types.
LEMMA PackBestType ==
    ASSUME input \in Inputs, TypeOK, PackBest
    PROVE  TypeOK'
<1>1. PICK c \in Candidates :
        /\ ScheduleOn(c[2], c[1], TimeBegin(c))
        /\ ready' = (ready \ {c[2]}) \cup
                    {n \in MTask : c[2] \in Preds(n) /\ IsReady(n, Assigned \cup {c[2]})}
        /\ mode' = IF mode = "scheduling" /\ \E m \in ready : Wide(m)
                   THEN "wideDiscovered" ELSE mode
        /\ input' = input
  BY DEF PackBest
<1> DEFINE m == c[2]  th == c[1]  b == TimeBegin(c)  end == b + input.cost[m]  L == Len(result)
           thread == Schedule.threads[th]
<1>2. /\ th \in DOMAIN Schedule.threads /\ th \in BusyThreads
      /\ m \in ready /\ m \in MTask
      /\ thread \in Seq(MTask) /\ L \in DOMAIN result
  BY CandidateFields
<1>3. b \in Nat /\ input.cost[m] \in Nat
  BY <1>2, TimeBeginNat, InputFields
<1>4. end \in Nat
  BY <1>3
<1>5. MTask' = MTask /\ WideSize(input)' = WideSize(input)
  BY <1>1 DEF MTask, MTasksOf, WideSize, MaxThreadWorkers
<1>6. Max({Schedule.endTime, end}) \in Nat
  <2>1. Schedule.endTime \in Nat
    BY <1>2, ScheduleFields DEF Schedule
  <2>2. {Schedule.endTime, end} = {Schedule.endTime} \cup {end}
    OBVIOUS
  <2>3. IsFiniteSet({Schedule.endTime} \cup {end})
    BY FS_Singleton, FS_AddElement
  <2>4. {Schedule.endTime, end} \in SUBSET Nat /\ {Schedule.endTime, end} # {}
    BY <2>1, <1>4
  <2> HIDE DEF end
  <2> QED
    BY <2>2, <2>3, <2>4, MaxOfNats
<1> DEFINE new == [threads |-> [Schedule.threads EXCEPT ![th] = Append(thread, m)],
                   mtasks |-> Schedule.mtasks \cup {m},
                   endTime |-> Max({Schedule.endTime, end})]
           Types == Schedules(NThreads) \cup Schedules(WideSize(input))
<1>7. result' = [result EXCEPT ![L] = new]
  BY <1>1 DEF ScheduleOn
<1>8. new \in Types
  <2>1. PICK n \in {NThreads, WideSize(input)} : Schedule \in Schedules(n)
    BY <1>2, ScheduleFields DEF Schedule
  <2>2. Schedule.threads \in [0 .. n - 1 -> Seq(MTask)] /\ Schedule.mtasks \subseteq MTask
    BY <2>1 DEF Schedules
  <2>3. Append(thread, m) \in Seq(MTask)
    BY <1>2
  <2>4. [Schedule.threads EXCEPT ![th] = Append(thread, m)] \in [0 .. n - 1 -> Seq(MTask)]
    <3> HIDE DEF thread, m, th
    <3> QED
      BY <2>2, <2>3
  <2>5. new \in Schedules(n)
    <3> HIDE DEF thread, th, end
    <3> QED
      BY <1>2, <1>6, <2>2, <2>4 DEF Schedules
  <2> HIDE DEF new
  <2> QED
    BY <2>1, <2>5
<1>9. result' \in Seq(Types) \ {<<>>}
  <2>1. result \in Seq(Types) \ {<<>>}
    BY DEF TypeOK
  <2> HIDE DEF new, Types
  <2> QED
    BY <1>2, <1>7, <1>8, <2>1
<1>10. (result \in Seq(Schedules(NThreads) \cup Schedules(WideSize(input))) \ {<<>>})'
  BY <1>5, <1>9 DEF Schedules
<1>11. threadId' \in [MTask -> BusyThreads \cup {UNASSIGNED}]
  BY <1>1, <1>2 DEF ScheduleOn, TypeOK
<1>12. completion' \in [MTask -> Nat] /\ predictStart' \in [MTask -> Nat]
  BY <1>1, <1>3, <1>4 DEF ScheduleOn, TypeOK
<1>13. nextp' \in [MTask -> MTask \cup {None}]
  <2>1. nextp' = IF thread = <<>> THEN nextp ELSE [nextp EXCEPT ![thread[Len(thread)]] = m]
    BY <1>1 DEF ScheduleOn
  <2> HIDE DEF thread, m
  <2> QED
    BY <1>2, <2>1 DEF TypeOK
<1>14. busyUntil' \in [BusyThreads -> Nat]
  BY <1>1, <1>4 DEF ScheduleOn, TypeOK
<1>15. ready' \in SUBSET MTask
  BY <1>1 DEF TypeOK
<1>16. mode' \in {"scheduling", "wideDiscovered", "wideScheduling"}
  BY <1>1 DEF TypeOK
<1>17. BusyThreads' = BusyThreads
  BY DEF BusyThreads
<1> QED
  BY <1>5, <1>10, <1>11, <1>12, <1>13, <1>14, <1>15, <1>16, <1>17 DEF TypeOK

\* The invariants in terms of places alone.
PlacedAnywhere == \A m \in MTask : m \in Assigned <=> \E k, t, i : At(m, k, t, i)
OrderOfPlaces ==
    \A p, m, k2, t2, i2 : <<p, m>> \in input.edges /\ At(m, k2, t2, i2) =>
        \E k1, t1, i1 : At(p, k1, t1, i1) /\ k1 <= k2 /\ (k1 = k2 /\ t1 = t2 => i1 < i2)
SameThread(p, m) == \E k, t, i, j : i < j /\ At(p, k, t, i) /\ At(m, k, t, j)

\* These say the same as the bounded forms.
LEMMA PlaceForms ==
    ASSUME input \in Inputs
    PROVE  /\ Placed <=> PlacedAnywhere
           /\ OrderKept <=> OrderOfPlaces
           /\ \A m, p : WaitsFor(m, p) <=> <<p, m>> \in input.edges \/ SameThread(p, m)
<1>1. Placed <=> PlacedAnywhere
  BY DEF Placed, PlacedAnywhere, At
<1>2. \A e \in input.edges : e = <<e[1], e[2]>>
  BY InputFields
<1>3. OrderKept => OrderOfPlaces
  <2> SUFFICES ASSUME OrderKept, NEW p, NEW m, NEW k2, NEW t2, NEW i2,
                      <<p, m>> \in input.edges, At(m, k2, t2, i2)
               PROVE  \E k1, t1, i1 : /\ At(p, k1, t1, i1) /\ k1 <= k2
                                      /\ k1 = k2 /\ t1 = t2 => i1 < i2
    BY DEF OrderOfPlaces
  <2>1. /\ <<p, m>>[1] = p /\ <<p, m>>[2] = m
        /\ k2 \in DOMAIN result /\ t2 \in DOMAIN result[k2].threads
        /\ i2 \in DOMAIN result[k2].threads[t2]
    BY DEF At
  <2> QED
    BY <2>1 DEF OrderKept
<1>4. OrderOfPlaces => OrderKept
  <2> SUFFICES ASSUME OrderOfPlaces, NEW e \in input.edges, NEW k2 \in DOMAIN result,
                      NEW t2 \in DOMAIN result[k2].threads,
                      NEW i2 \in DOMAIN result[k2].threads[t2], At(e[2], k2, t2, i2)
               PROVE  \E k1 \in DOMAIN result : \E t1 \in DOMAIN result[k1].threads :
                          \E i1 \in DOMAIN result[k1].threads[t1] :
                              /\ At(e[1], k1, t1, i1)
                              /\ k1 <= k2
                              /\ k1 = k2 /\ t1 = t2 => i1 < i2
    BY DEF OrderKept
  <2>1. PICK k1, t1, i1 : /\ At(e[1], k1, t1, i1) /\ k1 <= k2
                          /\ k1 = k2 /\ t1 = t2 => i1 < i2
    BY <1>2 DEF OrderOfPlaces
  <2>2. /\ k1 \in DOMAIN result /\ t1 \in DOMAIN result[k1].threads
        /\ i1 \in DOMAIN result[k1].threads[t1]
    BY <2>1 DEF At
  <2> QED
    BY <2>1, <2>2
<1>5. \A m, p : WaitsFor(m, p) <=> <<p, m>> \in input.edges \/ SameThread(p, m)
  BY DEF WaitsFor, SameThread, At
<1> QED
  BY <1>1, <1>3, <1>4, <1>5

\* The invariant, so written.
PInv ==
    /\ input \in Inputs /\ TypeOK /\ PlacedAnywhere /\ PredsAssigned /\ OrderOfPlaces
    /\ NoCircularWait

\* The invariant in the module's own terms is the one with places as triples.
LEMMA InvForms == IInv <=> PInv
BY PlaceForms DEF IInv, PInv

\* The next state has the same forms.
LEMMA NextForms ==
    ASSUME (input \in Inputs)'
    PROVE  \A m, p : WaitsFor(m, p)' <=> (<<p, m>> \in input.edges)' \/ SameThread(p, m)'
BY DEF WaitsFor, SameThread, At

\* Assigning an mtask keeps the invariant.
LEMMA PackBestInv ==
    ASSUME PInv, PackBest
    PROVE  PInv'
<1>0. input \in Inputs /\ TypeOK
  BY DEF PInv
<1>1. PICK c \in Candidates :
        /\ ScheduleOn(c[2], c[1], TimeBegin(c))
        /\ ready' = (ready \ {c[2]}) \cup
                    {n \in MTask : c[2] \in Preds(n) /\ IsReady(n, Assigned \cup {c[2]})}
        /\ input' = input
  BY DEF PackBest
<1> DEFINE b == c[2]  th == c[1]  L == Len(result)  I == Len(Schedule.threads[th]) + 1
<1>2. /\ b \in ready /\ b \in MTask /\ th \in BusyThreads
      /\ Schedule.threads[th] \in Seq(MTask) /\ L \in DOMAIN result
  BY <1>0, CandidateFields
<1>3. \A m, k, t, i : At(m, k, t, i)' <=>
          At(m, k, t, i) \/ (m = b /\ k = L /\ t = th /\ i = I)
  BY <1>0, <1>1, PlacesAfterScheduleOn
<1>4. MTask' = MTask /\ \A m : Preds(m)' = Preds(m)
  BY <1>1 DEF MTask, MTasksOf, Preds
<1>5. Assigned' = Assigned \cup {b}
  <2>1. threadId' = [threadId EXCEPT ![b] = th]
    BY <1>1 DEF ScheduleOn
  <2> QED
    BY <1>0, <1>2, <1>4, <2>1, BusyRange DEF Assigned, TypeOK
<1>6. /\ b \notin Assigned /\ Preds(b) \subseteq Assigned
      /\ \A m \in Assigned : Preds(m) \subseteq Assigned
  BY <1>2 DEF PInv, PredsAssigned
<1>7. PlacedAnywhere'
  <2>1. \A m \in MTask : m \in Assigned <=> \E k, t, i : At(m, k, t, i)
    BY DEF PInv, PlacedAnywhere
  <2>2. ASSUME NEW m \in MTask
        PROVE  (\E k, t, i : At(m, k, t, i)') <=> (\E k, t, i : At(m, k, t, i)) \/ m = b
    <3> HIDE DEF b, th, L, I
    <3> QED
      BY <1>3
  <2> QED
    BY <1>4, <1>5, <2>1, <2>2 DEF PlacedAnywhere
<1>8. PredsAssigned'
  <2>1. \A m \in Assigned' : Preds(m)' \subseteq Assigned'
    BY <1>4, <1>5, <1>6
  <2>2. \A m \in ready' : Preds(m)' \subseteq Assigned' /\ m \notin Assigned'
    <3> SUFFICES ASSUME NEW m \in ready'
                 PROVE  Preds(m) \subseteq Assigned \cup {b} /\ m \notin Assigned \cup {b}
      BY <1>4, <1>5
    <3>1. CASE m \in ready /\ m # b
      BY <3>1 DEF PInv, PredsAssigned
    <3>2. CASE m \in MTask /\ b \in Preds(m) /\ IsReady(m, Assigned \cup {b})
      <4>1. m # b
        BY <1>0, <1>2, <3>2, InputFields DEF Preds
      <4>2. m \notin Assigned
        BY <1>6, <3>2
      <4> QED
        BY <3>2, <4>1, <4>2 DEF IsReady
    <3> QED
      BY <1>1, <3>1, <3>2
  <2> QED
    BY <2>1, <2>2 DEF PredsAssigned
<1>9. OrderOfPlaces'
  <2> SUFFICES ASSUME NEW p, NEW m, NEW k2, NEW t2, NEW i2,
                      <<p, m>> \in input.edges, At(m, k2, t2, i2)'
               PROVE  \E k1, t1, i1 : /\ At(p, k1, t1, i1)' /\ k1 <= k2
                                      /\ k1 = k2 /\ t1 = t2 => i1 < i2
    BY <1>1 DEF OrderOfPlaces
  <2>1. CASE At(m, k2, t2, i2)
    <3>1. PICK k1, t1, i1 : /\ At(p, k1, t1, i1) /\ k1 <= k2
                            /\ k1 = k2 /\ t1 = t2 => i1 < i2
      BY <2>1 DEF PInv, OrderOfPlaces
    <3>2. At(p, k1, t1, i1)'
      BY <1>3, <3>1
    <3> QED
      BY <3>1, <3>2
  <2>2. CASE m = b /\ k2 = L /\ t2 = th /\ i2 = I
    <3>1. p \in Preds(b)
      BY <1>0, <2>2, InputFields DEF Preds
    <3>2. PICK k1, t1, i1 : At(p, k1, t1, i1)
      BY <1>0, <1>6, <3>1 DEF PInv, PlacedAnywhere, Assigned
    <3>3. k1 \in 1 .. L /\ i1 \in Nat /\ L \in Nat
      BY <1>0, <3>2, AtMTask, ScheduleFields DEF At
    <3>4. k1 = k2 /\ t1 = t2 => i1 < i2
      <4> SUFFICES ASSUME k1 = L, t1 = th PROVE i1 < I
        BY <2>2
      <4>1. i1 \in DOMAIN Schedule.threads[th]
        BY <3>2 DEF At, Schedule
      <4> QED
        BY <1>2, <4>1
    <3>5. At(p, k1, t1, i1)'
      BY <1>3, <3>2
    <3> QED
      BY <2>2, <3>3, <3>4, <3>5
  <2> QED
    BY <1>3, <2>1, <2>2
<1>10. NoCircularWait'
  <2>1. (input \in Inputs)'
    BY <1>0, <1>1
  \* nobody assigned before waits for the new mtask, nor for anyone new
  <2>2. ASSUME NEW m \in Assigned, NEW p \in Assigned \cup {b}, WaitsFor(m, p)'
        PROVE  p \in Assigned /\ WaitsFor(m, p)
    <3>0. m # b
      BY <1>6
    <3>1. CASE <<p, m>> \in input.edges
      <4>1. p \in Preds(m)
        BY <1>0, <3>1, InputFields DEF Preds
      <4> QED
        BY <1>0, <1>6, <3>1, <4>1, PlaceForms
    <3>2. CASE SameThread(p, m)'
      <4>1. PICK k, t, i, j : i < j /\ At(p, k, t, i)' /\ At(m, k, t, j)'
        BY <3>2 DEF SameThread
      <4>2. At(m, k, t, j)
        BY <1>3, <3>0, <4>1
      <4>3. At(p, k, t, i)
        <5> SUFFICES ASSUME k = L, t = th, i = I PROVE FALSE
          BY <1>3, <4>1
        <5>1. j \in DOMAIN Schedule.threads[th]
          BY <4>2 DEF At, Schedule
        <5> QED
          BY <1>2, <4>1, <5>1
      <4>4. p \in Assigned
        BY <1>0, <4>3, AtMTask DEF PInv, PlacedAnywhere
      <4> QED
        BY <1>0, <4>1, <4>2, <4>3, <4>4, PlaceForms DEF SameThread
    <3> QED
      BY <1>1, <2>1, <2>2, <3>1, <3>2, NextForms
  <2>3. ~WaitsFor(b, b)'
    <3>1. <<b, b>> \notin input.edges
      BY <1>0, <1>2, InputFields
    <3>2. ~SameThread(b, b)'
      <4> SUFFICES ASSUME NEW k, NEW t, NEW i, NEW j, i < j, At(b, k, t, i)', At(b, k, t, j)'
                   PROVE  FALSE
        BY DEF SameThread
      <4>1. \A kk, tt, ii : ~At(b, kk, tt, ii)
        BY <1>2, <1>6 DEF PInv, PlacedAnywhere
      <4>2. i = I /\ j = I
        BY <1>3, <4>1
      <4> QED
        BY <1>2, <4>2
    <3> QED
      BY <1>1, <2>1, <3>1, <3>2, NextForms
  <2> SUFFICES ASSUME NEW S \in SUBSET (Assigned \cup {b}), S # {}
               PROVE  \E m \in S : \A p \in S : ~WaitsFor(m, p)'
    BY <1>5 DEF NoCircularWait
  <2>4. CASE S \ {b} = {}
    <3>1. S = {b}
      BY <2>4
    <3> QED
      BY <2>3, <3>1
  <2>5. CASE S \ {b} # {}
    <3>1. S \ {b} \in SUBSET Assigned
      OBVIOUS
    <3>2. PICK m \in S \ {b} : \A p \in S \ {b} : ~WaitsFor(m, p)
      BY <2>5, <3>1 DEF PInv, NoCircularWait
    <3>3. \A p \in S : ~WaitsFor(m, p)'
      BY <1>6, <2>2, <3>2
    <3> QED
      BY <3>2, <3>3
  <2> QED
    BY <2>4, <2>5
<1>11. TypeOK'
  <2> QED
    BY <1>0, PackBestType DEF PInv
<1> QED
  BY <1>0, <1>1, <1>7, <1>8, <1>9, <1>10, <1>11 DEF PInv

\* Beginning a schedule keeps the types.
LEMMA NewScheduleTypeOK ==
    ASSUME input \in Inputs, TypeOK,
           NEW before \in {<<>>, result}, NEW n \in {NThreads, WideSize(input)},
           NewSchedule(before, n), mode' \in {"scheduling", "wideScheduling"}
    PROVE  TypeOK'
<1> DEFINE Types == Schedules(NThreads) \cup Schedules(WideSize(input))
<1>1. /\ input' = input /\ threadId' = threadId /\ completion' = completion
      /\ nextp' = nextp /\ predictStart' = predictStart /\ ready' = ready
      /\ result' = Append(before, ThreadSchedule(n))
      /\ busyUntil' = [t \in BusyThreads |-> Schedule.endTime]
  BY DEF NewSchedule, state
<1>2. MTask' = MTask /\ WideSize(input)' = WideSize(input) /\ BusyThreads' = BusyThreads
  BY <1>1 DEF MTask, MTasksOf, WideSize, MaxThreadWorkers, BusyThreads
<1>3. result' \in Seq(Types) \ {<<>>}
  <2>1. ThreadSchedule(n) \in Types
    BY NewScheduleType
  <2>2. result \in Seq(Types)
    BY DEF TypeOK
  <2> HIDE DEF Types
  <2>3. CASE before = <<>>
    BY <1>1, <2>1, <2>3
  <2>4. CASE before = result
    BY <1>1, <2>1, <2>2, <2>4
  <2> QED
    BY <2>3, <2>4
<1>4. (result \in Seq(Schedules(NThreads) \cup Schedules(WideSize(input))) \ {<<>>})'
  BY <1>2, <1>3 DEF Schedules
<1>5. busyUntil' \in [BusyThreads -> Nat]
  <2>1. Len(result) \in DOMAIN result
    BY DEF TypeOK
  <2>2. Schedule.endTime \in Nat
    BY <2>1, ScheduleFields DEF Schedule
  <2> QED
    BY <1>1, <2>2
<1>6. /\ threadId \in [MTask -> BusyThreads \cup {UNASSIGNED}]
      /\ completion \in [MTask -> Nat] /\ predictStart \in [MTask -> Nat]
      /\ nextp \in [MTask -> MTask \cup {None}] /\ ready \in SUBSET MTask
  BY DEF TypeOK
<1> QED
  BY <1>1, <1>2, <1>4, <1>5, <1>6 DEF TypeOK

\* Beginning a schedule keeps the invariant.
LEMMA NewScheduleInv ==
    ASSUME PInv, StartWide \/ StartNormal
    PROVE  PInv'
<1>0. input \in Inputs /\ TypeOK
  BY DEF PInv
<1>1. PICK n \in {NThreads, WideSize(input)} :
        /\ \/ NewSchedule(result, n)
           \/ Assigned = {} /\ NewSchedule(<<>>, n)
        /\ mode' \in {"scheduling", "wideScheduling"}
  BY DEF StartWide, StartNormal
<1>2. n \in Nat
  BY <1>0, NewScheduleType
<1>3. input' = input /\ threadId' = threadId /\ ready' = ready
  BY <1>1 DEF NewSchedule, state
<1>4. MTask' = MTask /\ Assigned' = Assigned /\ \A m : Preds(m)' = Preds(m)
  BY <1>3 DEF MTask, MTasksOf, Assigned, Preds
<1>5. \A m, k, t, i : At(m, k, t, i)' <=> At(m, k, t, i)
  <2>1. CASE NewSchedule(result, n)
    BY <1>0, <1>2, <2>1, PlacesAfterNewSchedule
  <2>2. CASE Assigned = {} /\ NewSchedule(<<>>, n)
    <3>1. \A m, k, t, i : ~At(m, k, t, i)'
      BY <1>2, <2>2, PlacesAfterFirstSchedule
    <3>2. \A m, k, t, i : ~At(m, k, t, i)
      BY <1>0, <2>2, AtMTask DEF PInv, PlacedAnywhere
    <3> QED
      BY <3>1, <3>2
  <2> QED
    BY <1>1, <2>1, <2>2
<1>6. TypeOK'
  BY <1>0, <1>1, NewScheduleTypeOK
<1>7. PlacedAnywhere'
  <2>1. \A m \in MTask : m \in Assigned <=> \E k, t, i : At(m, k, t, i)
    BY DEF PInv, PlacedAnywhere
  <2> QED
    BY <1>4, <1>5, <2>1 DEF PlacedAnywhere
<1>8. PredsAssigned'
  BY <1>3, <1>4 DEF PInv, PredsAssigned
<1>9. OrderOfPlaces'
  BY <1>3, <1>5 DEF PInv, OrderOfPlaces
<1>10. NoCircularWait'
  <2>1. (input \in Inputs)'
    BY <1>0, <1>3
  <2>2. \A p, m : SameThread(p, m)' <=> SameThread(p, m)
    BY <1>5 DEF SameThread
  <2>3. \A m, p : WaitsFor(m, p)' <=> WaitsFor(m, p)
    BY <1>0, <1>3, <2>1, <2>2, PlaceForms, NextForms
  <2> QED
    BY <1>4, <2>3 DEF PInv, NoCircularWait
<1> QED
  BY <1>0, <1>3, <1>6, <1>7, <1>8, <1>9, <1>10 DEF PInv

\* A step that changes nothing keeps the invariant.
LEMMA StutterInv ==
    ASSUME PInv, UNCHANGED vars
    PROVE  PInv'
<1>1. /\ input' = input /\ result' = result /\ threadId' = threadId
      /\ completion' = completion /\ nextp' = nextp /\ predictStart' = predictStart
      /\ busyUntil' = busyUntil /\ ready' = ready /\ mode' = mode
  BY DEF vars, state
<1>2. /\ MTask' = MTask /\ WideSize(input)' = WideSize(input) /\ BusyThreads' = BusyThreads
      /\ Assigned' = Assigned /\ \A m : Preds(m)' = Preds(m)
  BY <1>1 DEF MTask, MTasksOf, WideSize, MaxThreadWorkers, BusyThreads, Assigned, Preds
<1>3. \A m, k, t, i : At(m, k, t, i)' <=> At(m, k, t, i)
  BY <1>1 DEF At
<1>4. \A m, p : WaitsFor(m, p)' <=> WaitsFor(m, p)
  BY <1>1 DEF WaitsFor, At
<1>5. TypeOK'
  <2>1. \A n : Schedules(n)' = Schedules(n)
    BY <1>2 DEF Schedules
  <2> QED
    BY <1>1, <1>2, <2>1 DEF PInv, TypeOK
<1>6. PlacedAnywhere' /\ PredsAssigned'
  BY <1>1, <1>2, <1>3 DEF PInv, PlacedAnywhere, PredsAssigned
<1>7. OrderOfPlaces'
  BY <1>1, <1>3 DEF PInv, OrderOfPlaces
<1>8. NoCircularWait'
  BY <1>2, <1>4 DEF PInv, NoCircularWait
<1> QED
  BY <1>1, <1>5, <1>6, <1>7, <1>8 DEF PInv

\* The invariant holds in every state of the packer.
THEOREM Invariance == Spec => []PInv
<1>1. Init => PInv
  BY InitInv, InvForms
<1>2. PInv /\ [Next]_vars => PInv'
  <2> SUFFICES ASSUME PInv, [Next]_vars PROVE PInv'
    OBVIOUS
  <2>1. CASE PackBest
    BY <2>1, PackBestInv
  <2>2. CASE StartWide \/ StartNormal
    BY <2>2, NewScheduleInv
  <2>3. CASE UNCHANGED vars
    BY <2>3, StutterInv
  <2> QED
    BY <2>1, <2>2, <2>3 DEF Next, Round, Packed
<1> QED
  BY <1>1, <1>2, PTL DEF Spec

\* Every variable of the packer keeps its type; in particular every time it predicts
\* is a natural number and every thread it picks exists in the pool.
THEOREM PackTypeCorrect == Spec => []TypeOK
<1>1. PInv => TypeOK
  BY DEF PInv
<1> QED
  BY <1>1, Invariance, PTL

\* Whatever the graph, the costs and the priorities, the packer puts an mtask behind
\* everything it depends on: in a later schedule, on another thread, or later on the
\* same thread.  This is what module ExecGraph assumes of a schedule.
THEOREM PackOrder == Spec => []OrderKept
<1>1. PInv => OrderKept
  BY PlaceForms DEF PInv
<1> QED
  BY <1>1, Invariance, PTL

\* Whatever the graph, no set of mtasks waits in a circle: the spinning threads of a
\* packed schedule cannot wait for each other for ever.
THEOREM PackDeadlockFree == Spec => []NoCircularWait
<1>1. PInv => NoCircularWait
  BY DEF PInv
<1> QED
  BY <1>1, Invariance, PTL

--------------------------------------------------------------------------------
(* Where an mtask is, which schedules are empty, and wide mtasks. *)

\* The invariants in terms of places alone.
Once ==
    \A m, k, t, i, k2, t2, i2 :
        At(m, k, t, i) /\ At(m, k2, t2, i2) => k = k2 /\ t = t2 /\ i = i2
ListedAnywhere ==
    \A k \in DOMAIN result : \A m : m \in result[k].mtasks <=> \E t, i : At(m, k, t, i)

\* What a round does that assigns candidate c.
Packs(c) ==
    LET b == c[2]  th == c[1]  L == Len(result)
        thread == Schedule.threads[th]  end == TimeBegin(c) + input.cost[b]
    IN  /\ b \in MTask /\ b \in Eligible /\ th \in BusyThreads
        /\ thread \in Seq(MTask) /\ L \in DOMAIN result
        /\ b \notin Assigned /\ Preds(b) \subseteq Assigned
        /\ \A k, t, i : ~At(b, k, t, i)
        /\ input' = input /\ Assigned' = Assigned \cup {b}
        /\ \A m, k, t, i : At(m, k, t, i)' <=>
              At(m, k, t, i) \/ (m = b /\ k = L /\ t = th /\ i = Len(thread) + 1)
        /\ DOMAIN result' = DOMAIN result /\ Len(result') = L
        /\ \A k \in DOMAIN result : k # L => result'[k] = result[k]
        /\ result'[L].mtasks = Schedule.mtasks \cup {b}
        /\ DOMAIN result'[L].threads = DOMAIN Schedule.threads
        /\ result'[L].endTime = Max({Schedule.endTime, end})
        /\ (mode = "wideScheduling") <=> (mode' = "wideScheduling")
        /\ TimeBegin(c) \in Nat /\ end \in Nat
        /\ predictStart' = [predictStart EXCEPT ![b] = TimeBegin(c)]
        /\ completion' = [completion EXCEPT ![b] = end]
        /\ nextp' = IF thread = <<>> THEN nextp
                    ELSE [nextp EXCEPT ![thread[Len(thread)]] = b]
        /\ busyUntil' = [busyUntil EXCEPT ![th] = end]

LEMMA PackBestStep ==
    ASSUME PInv, PackBest
    PROVE  \E c \in Candidates : Packs(c)
<1>0. input \in Inputs /\ TypeOK
  BY DEF PInv
<1>1. PICK c \in Candidates :
        /\ ScheduleOn(c[2], c[1], TimeBegin(c))
        /\ mode' = IF mode = "scheduling" /\ \E m \in ready : Wide(m)
                   THEN "wideDiscovered" ELSE mode
        /\ input' = input
  BY DEF PackBest
<1> DEFINE b == c[2]  th == c[1]  L == Len(result)
           thread == Schedule.threads[th]  end == TimeBegin(c) + input.cost[b]
           new == [threads |-> [Schedule.threads EXCEPT ![th] = Append(thread, b)],
                   mtasks |-> Schedule.mtasks \cup {b},
                   endTime |-> Max({Schedule.endTime, end})]
<1>2. /\ b \in ready /\ b \in MTask /\ th \in BusyThreads
      /\ thread \in Seq(MTask) /\ L \in DOMAIN result
  BY <1>0, CandidateFields
<1>3. b \in Eligible
  BY DEF Candidates
<1>4. b \notin Assigned /\ Preds(b) \subseteq Assigned
  BY <1>2 DEF PInv, PredsAssigned
<1>5. \A k, t, i : ~At(b, k, t, i)
  BY <1>2, <1>4 DEF PInv, PlacedAnywhere
<1>6. Assigned' = Assigned \cup {b}
  <2>1. threadId' = [threadId EXCEPT ![b] = th]
    BY <1>1 DEF ScheduleOn
  <2>2. MTask' = MTask
    BY <1>1 DEF MTask, MTasksOf
  <2> QED
    BY <1>0, <1>2, <2>1, <2>2, BusyRange DEF Assigned, TypeOK
<1>7. \A m, k, t, i : At(m, k, t, i)' <=>
          At(m, k, t, i) \/ (m = b /\ k = L /\ t = th /\ i = Len(thread) + 1)
  BY <1>0, <1>1, PlacesAfterScheduleOn
<1>8. result' = [result EXCEPT ![L] = new]
  BY <1>1 DEF ScheduleOn
<1>9. /\ DOMAIN result' = DOMAIN result /\ Len(result') = L
      /\ result'[L] = new
      /\ \A k \in DOMAIN result : k # L => result'[k] = result[k]
  <2>1. result \in Seq(Schedules(NThreads) \cup Schedules(WideSize(input)))
    BY <1>0 DEF TypeOK
  <2> HIDE DEF new, L
  <2> QED
    BY <1>2, <1>8, <2>1 DEF L
<1>10. /\ result'[L].mtasks = Schedule.mtasks \cup {b}
       /\ DOMAIN result'[L].threads = DOMAIN Schedule.threads
       /\ result'[L].endTime = Max({Schedule.endTime, end})
  <2> HIDE DEF b, th, thread, L, end
  <2> QED
    BY <1>9
<1>11. (mode = "wideScheduling") <=> (mode' = "wideScheduling")
  BY <1>1
<1>12. TimeBegin(c) \in Nat /\ input.cost[b] \in Nat
  BY <1>0, <1>2, TimeBeginNat, InputFields
<1>13. end \in Nat
  BY <1>12
<1>14. /\ predictStart' = [predictStart EXCEPT ![b] = TimeBegin(c)]
       /\ completion' = [completion EXCEPT ![b] = end]
       /\ nextp' = IF thread = <<>> THEN nextp
                   ELSE [nextp EXCEPT ![thread[Len(thread)]] = b]
       /\ busyUntil' = [busyUntil EXCEPT ![th] = end]
  BY <1>1 DEF ScheduleOn
<1>15. Packs(c)
  <2> HIDE DEF new
  <2> QED
    BY <1>1, <1>2, <1>3, <1>4, <1>5, <1>6, <1>7, <1>9, <1>10, <1>11, <1>12, <1>13, <1>14
       DEF Packs
<1> QED
  BY <1>15

\* What a round does that begins a schedule of n threads.
Opens(n) ==
    /\ n \in Nat
    /\ input' = input /\ state' = state /\ ready' = ready /\ Assigned' = Assigned
    /\ \A m, k, t, i : At(m, k, t, i)' <=> At(m, k, t, i)
    /\ DOMAIN result' = 1 .. Len(result')
    /\ result'[Len(result')] = ThreadSchedule(n)
    /\ \/ Assigned = {} /\ Len(result') = 1
       \/ /\ Assigned # {} \/ mode = "wideScheduling"
          /\ Len(result') = Len(result) + 1
          /\ \A k \in DOMAIN result : result'[k] = result[k]
    /\ busyUntil' = [t \in BusyThreads |-> Schedule.endTime]
    /\ ready # {} /\ Eligible = {}
    /\ \/ mode # "wideScheduling" /\ mode' = "wideScheduling" /\ n = WideSize(input)
       \/ mode = "wideScheduling" /\ mode' = "scheduling"

LEMMA NewScheduleStep ==
    ASSUME PInv, StartWide \/ StartNormal
    PROVE  \E n \in {NThreads, WideSize(input)} : Opens(n)
<1>0. input \in Inputs /\ TypeOK
  BY DEF PInv
<1>1. PICK n \in {NThreads, WideSize(input)} :
        /\ \/ NewSchedule(result, n) /\ (Assigned # {} \/ mode = "wideScheduling")
           \/ Assigned = {} /\ NewSchedule(<<>>, n)
        /\ ready # {} /\ Eligible = {}
        /\ \/ mode # "wideScheduling" /\ mode' = "wideScheduling" /\ n = WideSize(input)
           \/ mode = "wideScheduling" /\ mode' = "scheduling"
  <2>1. CASE StartWide
    BY <2>1 DEF StartWide
  <2>2. CASE StartNormal
    BY <2>2 DEF StartNormal
  <2> QED
    BY <2>1, <2>2
<1>2. n \in Nat
  BY <1>0, NewScheduleType
<1>3. /\ input' = input /\ state' = state /\ ready' = ready
      /\ busyUntil' = [t \in BusyThreads |-> Schedule.endTime]
  BY <1>1 DEF NewSchedule
<1>4. Assigned' = Assigned
  BY <1>3 DEF Assigned, MTask, MTasksOf, state
<1>5. \A m, k, t, i : At(m, k, t, i)' <=> At(m, k, t, i)
  <2>1. CASE NewSchedule(result, n)
    BY <1>0, <1>2, <2>1, PlacesAfterNewSchedule
  <2>2. CASE Assigned = {} /\ NewSchedule(<<>>, n)
    <3>1. \A m, k, t, i : ~At(m, k, t, i)'
      BY <1>2, <2>2, PlacesAfterFirstSchedule
    <3>2. \A m, k, t, i : ~At(m, k, t, i)
      BY <1>0, <2>2, AtMTask DEF PInv, PlacedAnywhere
    <3> QED
      BY <3>1, <3>2
  <2> QED
    BY <1>1, <2>1, <2>2
<1>6. /\ DOMAIN result' = 1 .. Len(result')
      /\ result'[Len(result')] = ThreadSchedule(n)
      /\ \/ Assigned = {} /\ Len(result') = 1
         \/ /\ Assigned # {} \/ mode = "wideScheduling"
            /\ Len(result') = Len(result) + 1
            /\ \A k \in DOMAIN result : result'[k] = result[k]
  <2>1. CASE NewSchedule(result, n) /\ (Assigned # {} \/ mode = "wideScheduling")
    <3>1. result' = Append(result, ThreadSchedule(n))
      BY <2>1 DEF NewSchedule
    <3>2. result \in Seq(Schedules(NThreads) \cup Schedules(WideSize(input)))
      BY <1>0 DEF TypeOK
    <3> QED
      BY <2>1, <3>1, <3>2
  <2>2. CASE Assigned = {} /\ NewSchedule(<<>>, n)
    <3>1. result' = Append(<<>>, ThreadSchedule(n))
      BY <2>2 DEF NewSchedule
    <3> QED
      BY <2>2, <3>1
  <2> QED
    BY <1>1, <2>1, <2>2
<1> QED
  BY <1>1, <1>2, <1>3, <1>4, <1>5, <1>6 DEF Opens

\* An mtask has one place, and the schedules list what is placed.
QInv == Once /\ ListedAnywhere /\ Filled /\ OneWidth /\ WideAlone

\* A schedule of WideSize threads needs no more workers than the pool has.
LEMMA WideFits ==
    ASSUME input \in Inputs, NEW m \in MTask
    PROVE  Cardinality(0 .. WideSize(input) - 1) * input.threads[m] <= NHierThreads
<1> DEFINE T == {1} \cup {input.threads[p] : p \in MTask}
           w == WideSize(input)  M == Max(T)  t == input.threads[m]
<1>1. w \in 1 .. NHierThreads /\ NHierThreads \in Nat /\ IsFiniteSet(MTask)
  BY InputFields, ThreadsAssumption DEF ThreadsAssumption
<1>2. input.threads \in [MTask -> Nat]
  BY InputAssumption DEF InputAssumption, MTask
<1>3. IsFiniteSet(T)
  <2> DEFINE R == {input.threads[p] : p \in MTask}
             f == [p \in MTask |-> input.threads[p]]
  <2>1. f \in Surjection(MTask, R)
    BY DEF Surjection
  <2>2. IsFiniteSet(R)
    BY <1>1, <2>1, FS_Surjection
  <2>3. T = R \cup {1}
    OBVIOUS
  <2> HIDE DEF R
  <2> QED
    BY <2>2, <2>3, FS_AddElement
<1>4. T \in SUBSET Nat /\ T # {} /\ 1 \in T /\ t \in T
  BY <1>2
<1>5. M \in Nat /\ 1 <= M /\ t <= M /\ t \in Nat
  <2> HIDE DEF T, t
  <2> QED
    BY <1>3, <1>4, MaxOfNats
<1>6. w = NHierThreads \div M
  BY DEF WideSize, MaxThreadWorkers, MTask
<1>7. Cardinality(0 .. w - 1) = w
  <2>1. 0 \in Int /\ w - 1 \in Int /\ w \in Nat
    BY <1>1
  <2>2. Cardinality(0 .. w - 1) = IF 0 > w - 1 THEN 0 ELSE w - 1 - 0 + 1
    BY <2>1, FS_Interval
  <2> HIDE DEF w
  <2> QED
    BY <1>1, <2>2
<1> HIDE DEF w, M, t, T
<1>8. w * M <= NHierThreads
  BY <1>1, <1>5, <1>6
<1>9. w * t <= w * M
  BY <1>1, <1>5
<1>10. w * t \in Nat /\ w * M \in Nat
  BY <1>1, <1>5
<1> QED
  BY <1>1, <1>7, <1>8, <1>9, <1>10 DEF w, t

\* Assigning an mtask keeps them.
LEMMA PackBestQ ==
    ASSUME PInv, QInv, PackBest
    PROVE  QInv'
<1>0. PICK c \in Candidates : Packs(c)
  BY PackBestStep
<1> DEFINE b == c[2]  th == c[1]  L == Len(result)  I == Len(Schedule.threads[th]) + 1
<1>1. /\ input' = input /\ Assigned' = Assigned \cup {b} /\ b \in MTask /\ L \in DOMAIN result
      /\ \A k, t, i : ~At(b, k, t, i)
      /\ \A m, k, t, i : At(m, k, t, i)' <=>
            At(m, k, t, i) \/ (m = b /\ k = L /\ t = th /\ i = I)
  BY <1>0 DEF Packs
<1>2. /\ DOMAIN result' = DOMAIN result /\ Len(result') = L
      /\ \A k \in DOMAIN result : k # L => result'[k] = result[k]
      /\ result'[L].mtasks = result[L].mtasks \cup {b}
      /\ DOMAIN result'[L].threads = DOMAIN result[L].threads
  BY <1>0 DEF Packs, Schedule
<1>3. /\ (mode = "wideScheduling") <=> (mode' = "wideScheduling")
      /\ Wide(b) <=> mode = "wideScheduling"
  BY <1>0 DEF Packs, Eligible
<1> HIDE DEF b, th, I
<1>4. Once'
  <2>1. Once
    BY DEF QInv
  <2> QED
    BY <1>1, <2>1 DEF Once
<1>5. ListedAnywhere'
  <2> SUFFICES ASSUME NEW k \in DOMAIN result, NEW m
               PROVE  m \in result'[k].mtasks <=> \E t, i : At(m, k, t, i)'
    BY <1>2 DEF ListedAnywhere
  <2>1. m \in result[k].mtasks <=> \E t, i : At(m, k, t, i)
    BY DEF QInv, ListedAnywhere
  <2>2. CASE k = L /\ m = b
    BY <1>1, <1>2, <2>2
  <2>3. CASE ~(k = L /\ m = b)
    <3>1. m \in result'[k].mtasks <=> m \in result[k].mtasks
      BY <1>2, <2>3
    <3>2. \A t, i : At(m, k, t, i)' <=> At(m, k, t, i)
      BY <1>1, <2>3
    <3> QED
      BY <2>1, <3>1, <3>2
  <2> QED
    BY <2>2, <2>3
<1>6. Filled'
  <2>1. \A k \in DOMAIN result : result[k].mtasks = {} => k = L
    BY DEF QInv, Filled
  <2>2. result'[L].mtasks # {}
    BY <1>2
  <2> QED
    BY <1>2, <2>1, <2>2 DEF Filled, Schedule
<1>7. OneWidth'
  <2>1. /\ \A m \in result[L].mtasks : Wide(m) <=> mode = "wideScheduling"
        /\ mode = "wideScheduling" => DOMAIN result[L].threads = 0 .. WideSize(input) - 1
    BY DEF QInv, OneWidth, Schedule
  <2>2. /\ \A m \in result'[L].mtasks : Wide(m) <=> mode = "wideScheduling"
        /\ \A m : Wide(m)' <=> Wide(m)
    BY <1>1, <1>2, <1>3, <2>1 DEF Wide
  <2>3. WideSize(input)' = WideSize(input)
    BY <1>1
  <2> QED
    BY <1>2, <1>3, <2>1, <2>2, <2>3 DEF OneWidth, Schedule
<1>8. WideAlone'
  <2> SUFFICES ASSUME NEW k \in DOMAIN result, NEW m \in result'[k].mtasks
               PROVE  /\ \A p \in result'[k].mtasks : Wide(m) <=> Wide(p)
                      /\ Wide(m) => Cardinality(DOMAIN result'[k].threads) * input.threads[m]
                                      <= NHierThreads
    BY <1>1, <1>2 DEF WideAlone, Wide
  <2>1. CASE k # L
    BY <1>2, <2>1 DEF QInv, WideAlone
  <2>2. CASE k = L
    <3>1. \A p \in result'[L].mtasks : Wide(p) <=> mode = "wideScheduling"
      BY <1>2, <1>3 DEF QInv, OneWidth, Schedule
    <3>2. Wide(m) => DOMAIN result'[k].threads = 0 .. WideSize(input) - 1
      BY <1>2, <2>2, <3>1 DEF QInv, OneWidth, Schedule
    <3>3. m \in MTask /\ input \in Inputs
      BY <1>1, <1>2, <2>2, ScheduleFields DEF PInv
    <3>4. Cardinality(0 .. WideSize(input) - 1) * input.threads[m] <= NHierThreads
      BY <3>3, WideFits
    <3> QED
      BY <2>2, <3>1, <3>2, <3>4
  <2> QED
    BY <2>1, <2>2
<1> QED
  BY <1>4, <1>5, <1>6, <1>7, <1>8 DEF QInv

\* So does beginning a schedule.
LEMMA NewScheduleQ ==
    ASSUME PInv, QInv, StartWide \/ StartNormal
    PROVE  QInv'
<1>0. PICK n \in {NThreads, WideSize(input)} : Opens(n)
  BY NewScheduleStep
<1> DEFINE L == Len(result)  N == Len(result')
<1>1. /\ input' = input /\ ready' = ready /\ Assigned' = Assigned
      /\ \A m, k, t, i : At(m, k, t, i)' <=> At(m, k, t, i)
      /\ DOMAIN result' = 1 .. N
      /\ result'[N] = ThreadSchedule(n)
      /\ ready # {} /\ Eligible = {} /\ n \in Nat
  BY <1>0 DEF Opens
<1>2. \/ Assigned = {} /\ N = 1
      \/ /\ Assigned # {} \/ mode = "wideScheduling"
         /\ N = L + 1 /\ \A k \in DOMAIN result : result'[k] = result[k]
  BY <1>0 DEF Opens
<1>3. \/ mode # "wideScheduling" /\ mode' = "wideScheduling" /\ n = WideSize(input)
      \/ mode = "wideScheduling" /\ mode' = "scheduling"
  BY <1>0 DEF Opens
<1>4. /\ input \in Inputs /\ TypeOK /\ MTask' = MTask
      /\ DOMAIN result = 1 .. L /\ L \in Nat \ {0} /\ ready \subseteq MTask
  <2>1. input \in Inputs /\ TypeOK
    BY DEF PInv
  <2>2. L \in DOMAIN result
    BY <2>1 DEF TypeOK
  <2> QED
    BY <1>1, <2>1, <2>2, ScheduleFields DEF MTask, MTasksOf, TypeOK
<1>5. result'[N].mtasks = {} /\ DOMAIN result'[N].threads = 0 .. n - 1
  BY <1>1 DEF ThreadSchedule
<1>6. \A m : Wide(m)' <=> Wide(m)
  BY <1>1 DEF Wide
<1> HIDE DEF N
<1>7. Once'
  BY <1>1 DEF QInv, Once
\* an empty last schedule is the one that is dropped
<1>8. Assigned # {} \/ mode = "wideScheduling" => result[L].mtasks # {}
  BY <1>1, <1>3, <1>4 DEF QInv, Filled, Schedule
\* nothing is in the new schedule
<1>9. \A m, t, i : ~At(m, N, t, i)
  <2>1. CASE Assigned = {} /\ N = 1
    BY <1>4, <2>1, AtMTask DEF PInv, PlacedAnywhere
  <2>2. CASE N = L + 1
    BY <1>4, <2>2 DEF At
  <2> QED
    BY <1>2, <2>1, <2>2
<1>10. ASSUME NEW k \in 1 .. N, k # N
       PROVE  k \in DOMAIN result /\ result'[k] = result[k] /\ N = L + 1
  BY <1>2, <1>4, <1>10
<1>11. ListedAnywhere'
  <2> SUFFICES ASSUME NEW k \in 1 .. N, NEW m
               PROVE  m \in result'[k].mtasks <=> \E t, i : At(m, k, t, i)
    BY <1>1 DEF ListedAnywhere
  <2>1. CASE k = N
    BY <1>5, <1>9, <2>1
  <2>2. CASE k # N
    BY <1>10, <2>2 DEF QInv, ListedAnywhere
  <2> QED
    BY <2>1, <2>2
<1>12. Filled'
  <2>1. \A k \in 1 .. N : result'[k].mtasks = {} => k = N
    <3> SUFFICES ASSUME NEW k \in 1 .. N, k # N, result'[k].mtasks = {} PROVE FALSE
      OBVIOUS
    <3>1. k \in DOMAIN result /\ result[k].mtasks = {} /\ N = L + 1
      BY <1>10
    <3>2. k = L
      BY <3>1 DEF QInv, Filled
    <3>3. N # 1
      BY <1>4, <3>1
    <3>4. Assigned # {} \/ mode = "wideScheduling"
      BY <1>2, <3>3
    <3> QED
      BY <1>8, <3>1, <3>2, <3>4
  <2>2. Eligible' # {}
    BY <1>1, <1>3, <1>6 DEF Eligible
  <2> QED
    BY <1>1, <2>1, <2>2 DEF Filled, N
<1>13. OneWidth'
  <2>1. WideSize(input)' = WideSize(input)
    BY <1>1
  <2>2. Schedule' = result'[N]
    BY DEF Schedule, N
  <2> QED
    BY <1>3, <1>5, <2>1, <2>2 DEF OneWidth
<1>14. WideAlone'
  <2> SUFFICES ASSUME NEW k \in 1 .. N, NEW m \in result'[k].mtasks
               PROVE  /\ \A p \in result'[k].mtasks : Wide(m) <=> Wide(p)
                      /\ Wide(m) => Cardinality(DOMAIN result'[k].threads) * input.threads[m]
                                      <= NHierThreads
    BY <1>1 DEF WideAlone, Wide
  <2>1. k # N
    BY <1>5
  <2> QED
    BY <1>10, <2>1 DEF QInv, WideAlone
<1> QED
  BY <1>7, <1>11, <1>12, <1>13, <1>14 DEF QInv

\* A step that changes nothing keeps them.
LEMMA StutterQ ==
    ASSUME QInv, UNCHANGED vars
    PROVE  QInv'
<1>1. /\ input' = input /\ result' = result /\ threadId' = threadId
      /\ ready' = ready /\ mode' = mode
  BY DEF vars, state
<1>2. /\ MTask' = MTask /\ WideSize(input)' = WideSize(input) /\ Assigned' = Assigned
      /\ Eligible' = Eligible /\ Schedule' = Schedule
  BY <1>1 DEF MTask, MTasksOf, WideSize, MaxThreadWorkers, Assigned, Eligible, Wide, Schedule
<1>3. \A m, k, t, i : At(m, k, t, i)' <=> At(m, k, t, i)
  BY <1>1 DEF At
<1>4. \A m : Wide(m)' <=> Wide(m)
  BY <1>1 DEF Wide
<1>5. Once' /\ ListedAnywhere'
  BY <1>1, <1>3 DEF QInv, Once, ListedAnywhere
<1>6. Filled' /\ OneWidth'
  BY <1>1, <1>2, <1>4 DEF QInv, Filled, OneWidth
<1>7. WideAlone'
  BY <1>1, <1>4 DEF QInv, WideAlone
<1> QED
  BY <1>5, <1>6, <1>7 DEF QInv

\* Some mtask of a graph depends on nothing: the edges go upwards.
LEMMA InitQ == Init => QInv
<1> SUFFICES ASSUME Init PROVE QInv
  OBVIOUS
<1>1. input \in Inputs /\ result = <<ThreadSchedule(NThreads)>> /\ mode = "scheduling"
  BY DEF Init
<1>2. \A m, k, t, i : ~At(m, k, t, i)
  <2>1. \A t \in DOMAIN ThreadSchedule(NThreads).threads :
            ThreadSchedule(NThreads).threads[t] = <<>>
    BY DEF ThreadSchedule
  <2> QED
    BY <1>1, <2>1 DEF At
<1>3. /\ DOMAIN result = {1} /\ Len(result) = 1 /\ result[1].mtasks = {}
      /\ Schedule.mtasks = {}
  BY <1>1 DEF ThreadSchedule, Schedule
<1>4. Assigned = {}
  BY DEF Init, Assigned
<1>5. MTask = {} \/ ready # {}
  <2>1. input.n \in Nat /\ MTask = 1 .. input.n
    BY <1>1, InputFields
  <2>2. input.edges \subseteq {e \in MTask \X MTask : e[1] < e[2]}
    BY <1>1, InputAssumption DEF InputAssumption, MTask
  <2>3. CASE input.n = 0
    BY <2>1, <2>3
  <2>4. CASE input.n # 0
    <3>1. 1 \in MTask
      BY <2>1, <2>4
    <3>2. Preds(1) = {}
      <4> SUFFICES ASSUME NEW p \in MTask, <<p, 1>> \in input.edges PROVE FALSE
        BY DEF Preds
      <4>1. p < 1
        BY <2>2
      <4> QED
        BY <2>1, <4>1
    <3> QED
      BY <3>1, <3>2 DEF Init
  <2> QED
    BY <2>3, <2>4
<1>6. Once /\ ListedAnywhere /\ WideAlone
  BY <1>2, <1>3 DEF Once, ListedAnywhere, WideAlone
<1>7. Filled /\ OneWidth
  BY <1>1, <1>3, <1>4, <1>5 DEF Filled, OneWidth
<1> QED
  BY <1>6, <1>7 DEF QInv

THEOREM PlacesInvariance == Spec => [](PInv /\ QInv)
<1>1. Init => QInv
  BY InitQ
<1>2. PInv /\ QInv /\ [Next]_vars => QInv'
  <2> SUFFICES ASSUME PInv, QInv, [Next]_vars PROVE QInv'
    OBVIOUS
  <2>1. CASE PackBest
    BY <2>1, PackBestQ
  <2>2. CASE StartWide \/ StartNormal
    BY <2>2, NewScheduleQ
  <2>3. CASE UNCHANGED vars
    BY <2>3, StutterQ
  <2> QED
    BY <2>1, <2>2, <2>3 DEF Next, Round, Packed
<1> QED
  BY <1>1, <1>2, Invariance, PTL DEF Spec

\* Whatever the graph, the packer puts every mtask on one thread of one schedule, and
\* no schedule of a graph with mtasks stays empty (the assertion of implementExecGraph
\* that a non-empty graph yields thread functions).
THEOREM PackOnce == Spec => []PackedOnce
<1>1. PInv /\ QInv => PackedOnce
  <2> SUFFICES ASSUME PInv, QInv PROVE PackedOnce
    OBVIOUS
  <2>1. ASSUME NEW m \in MTask
        PROVE  Cardinality(Places(m)) = IF m \in Assigned THEN 1 ELSE 0
    <3>1. CASE m \in Assigned
      <4>1. PICK k, t, i : At(m, k, t, i)
        BY <3>1 DEF PInv, PlacedAnywhere
      <4>2. <<k, t, i>> \in Places(m)
        BY <4>1 DEF Places, At
      <4>3. \A q \in Places(m) : q = <<k, t, i>>
        <5> SUFFICES ASSUME NEW q \in Places(m) PROVE q = <<k, t, i>>
          OBVIOUS
        <5>1. PICK k2 \in DOMAIN result : \E t2 \in DOMAIN result[k2].threads :
                  \E i2 \in DOMAIN result[k2].threads[t2] : q = <<k2, t2, i2>>
          BY DEF Places
        <5>2. PICK t2, i2 : q = <<k2, t2, i2>>
          BY <5>1
        <5>3. At(m, k2, t2, i2)
          BY <5>2 DEF Places
        <5> QED
          BY <4>1, <5>2, <5>3 DEF QInv, Once
      <4>4. Places(m) = {<<k, t, i>>}
        BY <4>2, <4>3
      <4> QED
        BY <3>1, <4>4, FS_Singleton
    <3>2. CASE m \notin Assigned
      <4>1. \A k, t, i : ~At(m, k, t, i)
        BY <3>2 DEF PInv, PlacedAnywhere
      <4>2. Places(m) = {}
        BY <4>1 DEF Places
      <4> QED
        BY <3>2, <4>2, FS_EmptySet
    <3> QED
      BY <3>1, <3>2
  <2>2. \A k \in DOMAIN result :
            result[k].mtasks = {} => MTask = {} \/ (ready # {} /\ k = Len(result))
    BY DEF QInv, Filled, Schedule
  <2> QED
    BY <2>1, <2>2 DEF PackedOnce
<1> QED
  BY <1>1, PlacesInvariance, PTL

\* Whatever the graph and the widths, hierarchical blocks share no schedule with other
\* mtasks and the pool has the workers for all that may run at once.
THEOREM PackWideAlone == Spec => []WideAlone
<1>1. QInv => WideAlone
  BY DEF QInv
<1> QED
  BY <1>1, PlacesInvariance, PTL

--------------------------------------------------------------------------------
(* The predicted times. *)

\* A thread is busy until the mtasks on it and all mtasks of earlier schedules are over.
BusyOfPlaces ==
    \A m, k, t, i : At(m, k, t, i) =>
        /\ k = Len(result) => completion[m] <= busyUntil[t]
        /\ k < Len(result) => \A th \in BusyThreads : completion[m] <= busyUntil[th]

CInv == BusyOfPlaces /\ EndClock /\ FollowClock

\* PredictedTimes in terms of places alone.
PositiveCosts == \A m \in MTask : input.cost[m] > 0
TimesOfPlaces ==
    PositiveCosts =>
        \A m, p \in Assigned : <<p, m>> \in input.edges \/ SameThread(p, m) =>
            completion[p] <= predictStart[m]

\* No thread believes an mtask over before it is, if every mtask costs something: not
\* even when the padding is cut back because of the mtask that follows.
LEMMA NotBeforeEnd ==
    ASSUME input \in Inputs, TypeOK, FollowClock, PositiveCosts,
           NEW s, NEW p \in MTask, p \in s.mtasks, NEW th
    PROVE  completion[p] <= CompletionTime(s, p, th)
<1> DEFINE pad == (SandbagNumerator * input.cost[p]) \div SandbagDenom
           follow == completion[nextp[p]]
<1>1. input.cost[p] \in Nat /\ completion[p] \in Nat /\ nextp[p] \in MTask \cup {None}
  BY InputFields DEF TypeOK
<1>2. pad \in Nat
  BY <1>1, PadNat
<1>3. nextp[p] # None => follow \in Nat /\ completion[p] + 1 <= follow
  <2> SUFFICES ASSUME nextp[p] # None
               PROVE  follow \in Nat /\ completion[p] + 1 <= follow
    OBVIOUS
  <2>1. nextp[p] \in MTask
    BY <1>1
  <2>2. /\ follow \in Nat /\ input.cost[nextp[p]] \in Nat /\ input.cost[nextp[p]] > 0
        /\ completion[p] + input.cost[nextp[p]] <= follow
    BY <2>1, InputFields DEF TypeOK, FollowClock, PositiveCosts
  <2> QED
    BY <1>1, <2>2
<1> HIDE DEF pad, follow
<1>4. CompletionTime(s, p, th) =
        CASE p \notin s.mtasks -> 0
          [] p \in s.mtasks /\ threadId[p] = th -> completion[p]
          [] OTHER -> IF nextp[p] # None /\ completion[p] + pad >= follow /\ follow > 1
                      THEN follow - 1 ELSE completion[p] + pad
  BY DEF CompletionTime, pad, follow
<1> QED
  BY <1>1, <1>2, <1>3, <1>4

\* What an assigned mtask has before it on its thread does not change.
LEMMA BeforeAfterPack ==
    ASSUME PInv, NEW c \in Candidates, Packs(c), NEW m \in Assigned, NEW p,
           SameThread(p, m)'
    PROVE  SameThread(p, m) /\ p \in Assigned
<1> DEFINE b == c[2]  th == c[1]  L == Len(result)  I == Len(Schedule.threads[th]) + 1
<1>1. /\ b \notin Assigned /\ Schedule.threads[th] \in Seq(MTask)
      /\ \A x, k, t, i : At(x, k, t, i)' <=>
            At(x, k, t, i) \/ (x = b /\ k = L /\ t = th /\ i = I)
  BY DEF Packs
<1>2. PICK k, t, i, j : i < j /\ At(p, k, t, i)' /\ At(m, k, t, j)'
  BY DEF SameThread
<1>3. At(m, k, t, j)
  BY <1>1, <1>2
<1>4. At(p, k, t, i)
  <2> SUFFICES ASSUME k = L, t = th, i = I PROVE FALSE
    BY <1>1, <1>2
  <2>1. j \in DOMAIN Schedule.threads[th]
    BY <1>3 DEF At, Schedule
  <2> QED
    BY <1>1, <1>2, <2>1
<1>5. p \in Assigned
  BY <1>4, AtMTask DEF PInv, PlacedAnywhere
<1> QED
  BY <1>2, <1>3, <1>4, <1>5 DEF SameThread

\* Assigning an mtask keeps the clocks and the prediction.
LEMMA PackBestC ==
    ASSUME PInv, QInv, CInv, TimesOfPlaces, PackBest
    PROVE  CInv' /\ TimesOfPlaces'
<1>0. PICK c \in Candidates : Packs(c)
  BY PackBestStep
<1> DEFINE b == c[2]  th == c[1]  L == Len(result)  thread == Schedule.threads[th]
           begin == TimeBegin(c)  end == begin + input.cost[b]
<1>1. /\ b \in MTask /\ th \in BusyThreads /\ thread \in Seq(MTask)
      /\ L \in DOMAIN result /\ b \notin Assigned /\ Preds(b) \subseteq Assigned
      /\ \A k, t, i : ~At(b, k, t, i)
      /\ input' = input /\ Assigned' = Assigned \cup {b}
      /\ \A m, k, t, i : At(m, k, t, i)' <=>
            At(m, k, t, i) \/ (m = b /\ k = L /\ t = th /\ i = Len(thread) + 1)
  BY <1>0 DEF Packs
<1>2. /\ Len(result') = L
      /\ Schedule'.mtasks = Schedule.mtasks \cup {b}
      /\ Schedule'.endTime = Max({Schedule.endTime, end})
      /\ begin \in Nat /\ end \in Nat
  BY <1>0 DEF Packs, Schedule
<1>3. /\ predictStart' = [predictStart EXCEPT ![b] = begin]
      /\ completion' = [completion EXCEPT ![b] = end]
      /\ nextp' = IF thread = <<>> THEN nextp
                  ELSE [nextp EXCEPT ![thread[Len(thread)]] = b]
      /\ busyUntil' = [busyUntil EXCEPT ![th] = end]
  BY <1>0 DEF Packs
<1>4. /\ input \in Inputs /\ TypeOK
      /\ completion \in [MTask -> Nat] /\ predictStart \in [MTask -> Nat]
      /\ nextp \in [MTask -> MTask \cup {None}] /\ busyUntil \in [BusyThreads -> Nat]
      /\ MTask' = MTask /\ BusyThreads' = BusyThreads
  BY <1>1 DEF PInv, TypeOK, MTask, MTasksOf, BusyThreads
<1>5. /\ busyUntil[th] <= begin /\ begin <= end
      /\ \A p \in Preds(b) : CompletionTime(Schedule, p, th) <= begin
      /\ input.cost[b] \in Nat
  <2>1. input.cost[b] \in Nat
    BY <1>1, <1>4, InputFields
  <2>2. begin <= end
    BY <1>2, <2>1
  <2> QED
    BY <1>1, <1>4, <2>1, <2>2, TimeBeginNat
<1>6. \A m, k, t, i : At(m, k, t, i) =>
          m \in MTask /\ m \in Assigned /\ k \in 1 .. L /\ t \in BusyThreads
  <2> SUFFICES ASSUME NEW m, NEW k, NEW t, NEW i, At(m, k, t, i)
               PROVE  m \in MTask /\ m \in Assigned /\ k \in 1 .. L /\ t \in BusyThreads
    OBVIOUS
  <2>1. m \in MTask /\ k \in 1 .. L
    BY <1>4, AtMTask
  <2>2. t \in BusyThreads
    BY <1>4, ScheduleFields DEF At
  <2> QED
    BY <2>1, <2>2 DEF PInv, PlacedAnywhere
<1>7. /\ \A m \in MTask : m # b => completion'[m] = completion[m]
                                   /\ predictStart'[m] = predictStart[m]
      /\ completion'[b] = end /\ predictStart'[b] = begin
      /\ busyUntil'[th] = end
      /\ \A t \in BusyThreads : t # th => busyUntil'[t] = busyUntil[t]
      /\ \A t \in BusyThreads : busyUntil[t] <= busyUntil'[t]
  <2>1. /\ \A m \in MTask : m # b => completion'[m] = completion[m]
                                     /\ predictStart'[m] = predictStart[m]
        /\ completion'[b] = end /\ predictStart'[b] = begin
    <3> HIDE DEF b, begin, end
    <3> QED
      BY <1>1, <1>3, <1>4
  <2>2. /\ busyUntil'[th] = end
        /\ \A t \in BusyThreads : t # th => busyUntil'[t] = busyUntil[t]
    <3> HIDE DEF th, end
    <3> QED
      BY <1>1, <1>3, <1>4
  <2>3. \A t \in BusyThreads : busyUntil[t] <= busyUntil'[t]
    <3> TAKE t \in BusyThreads
    <3>1. busyUntil[t] \in Nat
      BY <1>4
    <3> HIDE DEF th, begin, end
    <3> QED
      BY <1>2, <1>5, <2>2, <3>1
  <2> QED
    BY <2>1, <2>2, <2>3
<1> HIDE DEF b, th, thread, begin, end
\* every mtask of earlier schedules is over when the new one begins, and so is every
\* mtask of its thread
<1>8. ASSUME NEW m, NEW k, NEW t, NEW i, At(m, k, t, i), k # L \/ t = th
      PROVE  completion[m] <= begin
  <2>1. m \in MTask /\ k \in 1 .. L /\ L \in Nat
    BY <1>1, <1>4, <1>6, <1>8, ScheduleFields
  <2>2. completion[m] <= busyUntil[th]
    <3>1. CASE k = L
      BY <1>8, <3>1 DEF CInv, BusyOfPlaces
    <3>2. CASE k # L
      <4>1. k < L
        BY <2>1, <3>2
      <4> QED
        BY <1>1, <1>8, <4>1 DEF CInv, BusyOfPlaces
    <3> QED
      BY <3>1, <3>2
  <2>3. completion[m] \in Nat /\ busyUntil[th] \in Nat
    BY <1>1, <1>4, <2>1
  <2> QED
    BY <1>2, <1>5, <2>2, <2>3
<1>9. BusyOfPlaces'
  <2> SUFFICES ASSUME NEW m, NEW k, NEW t, NEW i, At(m, k, t, i)'
               PROVE  /\ k = L => completion'[m] <= busyUntil'[t]
                      /\ k < L => \A x \in BusyThreads : completion'[m] <= busyUntil'[x]
    BY <1>2, <1>4 DEF BusyOfPlaces
  <2>1. CASE m = b /\ k = L /\ t = th
    BY <1>2, <1>7, <2>1
  <2>2. CASE At(m, k, t, i)
    <3>1. m \in MTask /\ m # b /\ t \in BusyThreads
      BY <1>1, <1>6, <2>2
    <3>2. completion'[m] = completion[m] /\ completion[m] \in Nat
      BY <1>4, <1>7, <3>1
    <3>3. ASSUME NEW x \in BusyThreads
          PROVE  busyUntil[x] \in Nat /\ busyUntil'[x] \in Nat /\ busyUntil[x] <= busyUntil'[x]
      <4>1. busyUntil[x] \in Nat
        BY <1>4
      <4>2. busyUntil'[x] \in Nat
        BY <1>2, <1>7, <4>1
      <4> QED
        BY <1>7, <4>1, <4>2
    <3>4. k = L => completion[m] <= busyUntil[t]
      BY <2>2 DEF CInv, BusyOfPlaces
    <3>5. k < L => \A x \in BusyThreads : completion[m] <= busyUntil[x]
      BY <2>2 DEF CInv, BusyOfPlaces
    <3>6. k = L => completion'[m] <= busyUntil'[t]
      BY <3>1, <3>2, <3>3, <3>4
    <3>7. ASSUME k < L, NEW x \in BusyThreads PROVE completion'[m] <= busyUntil'[x]
      BY <3>2, <3>3, <3>5, <3>7
    <3> QED
      BY <3>6, <3>7
  <2> QED
    BY <1>1, <2>1, <2>2
<1>10. EndClock'
  <2> DEFINE E == Schedule.endTime  E2 == Schedule'.endTime
  <2>1. E \in Nat
    BY <1>1, <1>4, ScheduleFields DEF Schedule
  <2>2. E2 \in Nat /\ E <= E2 /\ end <= E2
    <3>1. {E, end} = {E} \cup {end}
      OBVIOUS
    <3>2. IsFiniteSet({E} \cup {end})
      BY FS_Singleton, FS_AddElement
    <3>3. {E, end} \in SUBSET Nat /\ {E, end} # {}
      BY <1>2, <2>1
    <3>4. Max({E, end}) \in {E, end} /\ \A y \in {E, end} : y <= Max({E, end})
      <4> HIDE DEF E
      <4> QED
        BY <3>1, <3>2, <3>3, MaxOfNats
    <3> HIDE DEF E
    <3>5. E2 = Max({E, end})
      BY <1>2 DEF E
    <3> QED
      BY <1>2, <2>1, <3>4, <3>5
  <2> HIDE DEF E, E2
  <2> SUFFICES ASSUME NEW m \in Assigned \cup {b} PROVE completion'[m] <= E2
    BY <1>1 DEF EndClock, E2
  <2>3. CASE m = b
    BY <1>7, <2>2, <2>3
  <2>4. CASE m \in Assigned
    <3>1. m \in MTask /\ m # b
      BY <1>1, <2>4 DEF Assigned
    <3>2. completion'[m] = completion[m] /\ completion[m] \in Nat
      BY <1>4, <1>7, <3>1
    <3>3. CASE Schedule.mtasks # {}
      <4>1. completion[m] <= E
        BY <2>4, <3>3 DEF CInv, EndClock, E
      <4> QED
        BY <2>1, <2>2, <3>2, <4>1
    <3>4. CASE Schedule.mtasks = {}
      <4>1. PICK k, t, i : At(m, k, t, i)
        BY <2>4, <3>1 DEF PInv, PlacedAnywhere
      <4>2. k # L
        BY <1>1, <3>4, <4>1 DEF QInv, ListedAnywhere, Schedule
      <4>3. completion[m] <= begin
        BY <1>8, <4>1, <4>2
      <4> QED
        BY <1>2, <1>5, <2>2, <3>2, <4>3
    <3> QED
      BY <3>3, <3>4
  <2> QED
    BY <2>3, <2>4
<1>11. FollowClock'
  <2> SUFFICES ASSUME NEW m \in MTask, nextp'[m] # None
               PROVE  /\ m \in Assigned \cup {b} /\ nextp'[m] \in Assigned \cup {b}
                      /\ completion'[m] + input.cost[nextp'[m]] <= completion'[nextp'[m]]
    BY <1>1, <1>4 DEF FollowClock
  <2> DEFINE last == thread[Len(thread)]
  <2>1. CASE thread # <<>> /\ m = last
    <3>1. Len(thread) \in DOMAIN thread
      BY <1>1, <2>1
    <3>2. At(m, L, th, Len(thread))
      <4>1. th \in DOMAIN Schedule.threads
        BY <1>0 DEF Candidates, th
      <4> QED
        BY <1>1, <2>1, <3>1, <4>1 DEF At, Schedule, thread
    <3>3. m \in Assigned /\ m # b
      BY <1>1, <1>6, <3>2
    <3>4. nextp'[m] = b
      <4> HIDE DEF last
      <4> QED
        BY <1>3, <1>4, <2>1 DEF last
    <3>5. completion[m] <= begin
      BY <1>8, <3>2
    <3>6. completion'[m] = completion[m] /\ completion[m] \in Nat /\ completion'[b] = end
      BY <1>4, <1>7, <3>3
    <3>7. completion[m] + input.cost[b] <= end
      BY <1>2, <1>5, <3>5, <3>6 DEF end
    <3> QED
      BY <3>3, <3>4, <3>6, <3>7
  <2>2. CASE ~(thread # <<>> /\ m = last)
    <3>1. nextp'[m] = nextp[m]
      <4> HIDE DEF last
      <4> QED
        BY <1>3, <1>4, <2>2 DEF last
    <3>2. /\ m \in Assigned /\ nextp[m] \in Assigned
          /\ completion[m] + input.cost[nextp[m]] <= completion[nextp[m]]
      BY <3>1 DEF CInv, FollowClock
    <3>3. nextp[m] \in MTask /\ nextp[m] # b /\ m # b
      BY <1>1, <3>2 DEF Assigned
    <3>4. completion'[m] = completion[m] /\ completion'[nextp[m]] = completion[nextp[m]]
      BY <1>7, <3>3
    <3> QED
      BY <3>1, <3>2, <3>4
  <2> QED
    BY <2>1, <2>2
<1>12. TimesOfPlaces'
  <2> SUFFICES ASSUME PositiveCosts, NEW m \in Assigned \cup {b}, NEW p \in Assigned \cup {b},
                      <<p, m>> \in input.edges \/ SameThread(p, m)'
               PROVE  completion'[p] <= predictStart'[m]
    BY <1>1, <1>4 DEF TimesOfPlaces, PositiveCosts
  <2>1. CASE m \in Assigned
    <3>1. p \in Assigned /\ (<<p, m>> \in input.edges \/ SameThread(p, m))
      <4>1. CASE <<p, m>> \in input.edges
        <5>1. p \in Preds(m)
          BY <1>4, <4>1, InputFields DEF Preds
        <5> QED
          BY <2>1, <4>1, <5>1 DEF PInv, PredsAssigned
      <4>2. CASE SameThread(p, m)'
        BY <1>0, <2>1, <4>2, BeforeAfterPack
      <4> QED
        BY <4>1, <4>2
    <3>2. completion[p] <= predictStart[m]
      BY <2>1, <3>1 DEF TimesOfPlaces
    <3>3. p \in MTask /\ p # b /\ m \in MTask /\ m # b
      BY <1>1, <2>1, <3>1 DEF Assigned
    <3> QED
      BY <1>7, <3>2, <3>3
  <2>2. CASE m = b
    <3>0. p # b
      <4>1. <<b, b>> \notin input.edges
        BY <1>1, <1>4, InputFields
      <4>2. ~SameThread(b, b)'
        <5> SUFFICES ASSUME NEW k, NEW t, NEW i, NEW j, i < j,
                            At(b, k, t, i)', At(b, k, t, j)'
                     PROVE  FALSE
          BY DEF SameThread
        <5>1. i = Len(thread) + 1 /\ j = Len(thread) + 1
          BY <1>1
        <5> QED
          BY <1>1, <5>1
      <4> QED
        BY <2>2, <4>1, <4>2
    <3>1. p \in Assigned /\ p \in MTask
      BY <3>0 DEF Assigned
    <3>2. completion[p] <= begin
      <4>1. CASE <<p, b>> \in input.edges
        <5>1. p \in Preds(b)
          BY <1>4, <4>1, InputFields DEF Preds
        <5>2. PICK k, t, i : At(p, k, t, i)
          BY <3>1 DEF PInv, PlacedAnywhere
        <5>3. CASE k = L
          <6>1. p \in Schedule.mtasks
            BY <1>1, <5>2, <5>3 DEF QInv, ListedAnywhere, Schedule
          <6>2. completion[p] <= CompletionTime(Schedule, p, th)
            BY <1>4, <3>1, <6>1, NotBeforeEnd DEF CInv
          <6>3. CompletionTime(Schedule, p, th) <= begin
            BY <1>5, <5>1
          <6>4. CompletionTime(Schedule, p, th) \in Nat /\ completion[p] \in Nat
            BY <1>4, <3>1, CompletionTimeNat
          <6> QED
            BY <1>2, <6>2, <6>3, <6>4
        <5>4. CASE k # L
          BY <1>8, <5>2, <5>4
        <5> QED
          BY <5>3, <5>4
      <4>2. CASE SameThread(p, b)'
        <5>1. PICK k, t, i, j : At(p, k, t, i)' /\ At(b, k, t, j)'
          BY <4>2 DEF SameThread
        <5>2. k = L /\ t = th
          BY <1>1, <5>1
        <5>3. At(p, k, t, i)
          BY <1>1, <3>0, <5>1
        <5> QED
          BY <1>8, <5>2, <5>3
      <4> QED
        BY <2>2, <4>1, <4>2
    <3> QED
      BY <1>7, <2>2, <3>0, <3>1, <3>2
  <2> QED
    BY <2>1, <2>2
<1> QED
  BY <1>9, <1>10, <1>11, <1>12 DEF CInv

\* So does beginning a schedule: it begins when everything before it is over.
LEMMA NewScheduleC ==
    ASSUME PInv, QInv, CInv, TimesOfPlaces, StartWide \/ StartNormal
    PROVE  CInv' /\ TimesOfPlaces'
<1>0. PICK n \in {NThreads, WideSize(input)} : Opens(n)
  BY NewScheduleStep
<1> DEFINE N == Len(result')
<1>1. /\ input' = input /\ Assigned' = Assigned
      /\ predictStart' = predictStart /\ completion' = completion /\ nextp' = nextp
      /\ \A m, k, t, i : At(m, k, t, i)' <=> At(m, k, t, i)
      /\ busyUntil' = [t \in BusyThreads |-> Schedule.endTime]
      /\ result'[N] = ThreadSchedule(n)
      /\ ready # {} /\ Eligible = {}
  BY <1>0 DEF Opens, state
<1>2. /\ input \in Inputs /\ TypeOK /\ MTask' = MTask /\ BusyThreads' = BusyThreads
      /\ ready \subseteq MTask
  BY <1>1 DEF PInv, TypeOK, MTask, MTasksOf, BusyThreads
\* all assigned mtasks are over at the end of the last schedule
<1>3. \A m \in Assigned : completion[m] <= Schedule.endTime
  <2>1. Assigned = {} \/ Schedule.mtasks # {}
    BY <1>1, <1>2 DEF QInv, Filled
  <2> QED
    BY <2>1 DEF CInv, EndClock
<1>4. \A m, k, t, i : At(m, k, t, i) => m \in Assigned /\ t \in BusyThreads
  <2> SUFFICES ASSUME NEW m, NEW k, NEW t, NEW i, At(m, k, t, i)
               PROVE  m \in Assigned /\ t \in BusyThreads
    OBVIOUS
  <2>1. m \in MTask
    BY <1>2, AtMTask
  <2>2. t \in BusyThreads
    BY <1>2, ScheduleFields DEF At
  <2> QED
    BY <2>1, <2>2 DEF PInv, PlacedAnywhere
<1>5. BusyOfPlaces'
  BY <1>1, <1>2, <1>3, <1>4 DEF BusyOfPlaces
<1>6. EndClock'
  <2>1. Schedule'.mtasks = {}
    BY <1>1 DEF ThreadSchedule, Schedule
  <2> QED
    BY <2>1 DEF EndClock
<1>7. FollowClock'
  BY <1>1, <1>2 DEF CInv, FollowClock
<1>8. TimesOfPlaces'
  <2>1. \A p, m : SameThread(p, m)' <=> SameThread(p, m)
    BY <1>1 DEF SameThread
  <2> QED
    BY <1>1, <1>2, <2>1 DEF TimesOfPlaces, PositiveCosts
<1> QED
  BY <1>5, <1>6, <1>7, <1>8 DEF CInv

\* A step that changes nothing keeps them.
LEMMA StutterC ==
    ASSUME CInv, TimesOfPlaces, UNCHANGED vars
    PROVE  CInv' /\ TimesOfPlaces'
<1>1. /\ input' = input /\ result' = result /\ threadId' = threadId
      /\ completion' = completion /\ nextp' = nextp /\ predictStart' = predictStart
      /\ busyUntil' = busyUntil
  BY DEF vars, state
<1>2. MTask' = MTask /\ Assigned' = Assigned /\ Schedule' = Schedule
  BY <1>1 DEF MTask, MTasksOf, Assigned, Schedule
<1>3. \A m, k, t, i : At(m, k, t, i)' <=> At(m, k, t, i)
  BY <1>1 DEF At
<1>4. BusyOfPlaces' /\ EndClock' /\ FollowClock'
  BY <1>1, <1>2, <1>3 DEF CInv, BusyOfPlaces, EndClock, FollowClock, BusyThreads
<1>5. \A p, m : SameThread(p, m)' <=> SameThread(p, m)
  BY <1>3 DEF SameThread
<1>6. TimesOfPlaces'
  BY <1>1, <1>2, <1>5 DEF TimesOfPlaces, PositiveCosts
<1> QED
  BY <1>4, <1>6 DEF CInv

LEMMA InitC == Init => CInv /\ TimesOfPlaces
<1> SUFFICES ASSUME Init PROVE CInv /\ TimesOfPlaces
  OBVIOUS
<1>1. \A m, k, t, i : ~At(m, k, t, i)
  <2>1. result = <<ThreadSchedule(NThreads)>>
    BY DEF Init
  <2>2. \A t \in DOMAIN ThreadSchedule(NThreads).threads :
            ThreadSchedule(NThreads).threads[t] = <<>>
    BY DEF ThreadSchedule
  <2> QED
    BY <2>1, <2>2 DEF At
<1>2. Assigned = {}
  BY DEF Init, Assigned
<1>3. FollowClock
  BY DEF Init, FollowClock
<1> QED
  BY <1>1, <1>2, <1>3 DEF CInv, BusyOfPlaces, EndClock, TimesOfPlaces

THEOREM ClockInvariance == Spec => [](PInv /\ QInv /\ CInv /\ TimesOfPlaces)
<1>1. Init => CInv /\ TimesOfPlaces
  BY InitC
<1>2. PInv /\ QInv /\ CInv /\ TimesOfPlaces /\ [Next]_vars => CInv' /\ TimesOfPlaces'
  <2> SUFFICES ASSUME PInv, QInv, CInv, TimesOfPlaces, [Next]_vars
               PROVE  CInv' /\ TimesOfPlaces'
    OBVIOUS
  <2>1. CASE PackBest
    BY <2>1, PackBestC
  <2>2. CASE StartWide \/ StartNormal
    BY <2>2, NewScheduleC
  <2>3. CASE UNCHANGED vars
    BY <2>3, StutterC
  <2> QED
    BY <2>1, <2>2, <2>3 DEF Next, Round, Packed
<1> QED
  BY <1>1, <1>2, PlacesInvariance, PTL DEF Spec

\* Whatever the graph, the positive costs and the padding of foreign mtasks, the packer
\* predicts that an mtask begins when all it waits for is over: completionTime, which
\* cuts the padding back and forgets other schedules, never reports an end too early.
THEOREM PackPrediction == Spec => []PredictedTimes
<1>1. PInv /\ TimesOfPlaces => PredictedTimes
  <2> SUFFICES ASSUME PInv, TimesOfPlaces PROVE PredictedTimes
    OBVIOUS
  <2>1. \A m, p : WaitsFor(m, p) <=> <<p, m>> \in input.edges \/ SameThread(p, m)
    BY PlaceForms DEF PInv
  <2> QED
    BY <2>1 DEF TimesOfPlaces, PositiveCosts, PredictedTimes
<1> QED
  BY <1>1, ClockInvariance, PTL
================================================================================
