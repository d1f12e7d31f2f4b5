------------------------------ MODULE Services_proofs ------------------------------
(***************************************************************************)
(* Theorems about Services, and with it about Quota, ChatResidency,         *)
(* ConfigStore, Mcp, Interceptor, LlmClient, QidMigration and Skills.  Each    *)
(* of them has an inductive invariant IInv of its own; the lemmas about it  *)
(* come first.                                                              *)
(***************************************************************************)
EXTENDS Services, Sequences, FiniteSets, Functions, TLAPS

-------------------------------------------------------------------------------
(* Quota.                                                                  *)

PlusBoth(c, d, k, l, n) == [c EXCEPT ![d][k] = @ + n, ![d][l] = @ + n]
LEMMA QuAddedTwice ==
  ASSUME NEW c \in Quota!Counters, NEW d \in 1..Days, NEW k \in Quota!Scopes, NEW l \in Quota!Scopes, k # l, NEW n \in Nat,
         NEW b, b = PlusBoth(c, d, k, l, n)
  PROVE
         /\ b \in Quota!Counters
         /\ \A e \in 1..Days, j \in Quota!Scopes :
              b[e][j] = IF e = d /\ j \in {k, l} THEN c[e][j] + n ELSE c[e][j]
<1>1. c[d] \in [Quota!Scopes -> Nat] /\ c[d][k] \in Nat /\ c[d][k] + n \in Nat /\ c[d][l] + n \in Nat
  BY DEF Quota!Counters
<1>2. PICK f : f = [c[d] EXCEPT ![k] = @ + n, ![l] = @ + n]
  OBVIOUS
<1>3. f \in [Quota!Scopes -> Nat] /\ \A j \in Quota!Scopes : f[j] = IF j \in {k, l} THEN c[d][j] + n ELSE c[d][j]
  BY <1>1, <1>2
<1>4. PlusBoth(c, d, k, l, n) = [c EXCEPT ![d] = f]
  BY <1>2 DEF Quota!Counters, PlusBoth
<1> QED BY <1>3, <1>4 DEF Quota!Counters
LEMMA QuCounted ==
  ASSUME count \in Quota!Counters, day \in 1..Days, NEW k \in Quota!Scopes, NEW n \in Nat, Quota!Counted(k, n)
  PROVE
         /\ count' \in Quota!Counters
         /\ \A e \in 1..Days, j \in Quota!Scopes : (e # day \/ j # k) => count'[e][j] = count[e][j]
         /\ count'[day][k] <= count[day][k] + n
         /\ Faults = {} => count'[day][k] = count[day][k] + n
<1>1. count[day] \in [Quota!Scopes -> Nat] /\ count[day][k] \in Nat
  BY DEF Quota!Counters
<1>2. CASE "writes" \in Faults /\ UNCHANGED count
  BY <1>1, <1>2
<1>3. ASSUME NEW seen \in Quota!Seen(k), count' = [count EXCEPT ![day][k] = seen + n]
      PROVE  /\ count' \in Quota!Counters
             /\ \A e \in 1..Days, j \in Quota!Scopes : (e # day \/ j # k) => count'[e][j] = count[e][j]
             /\ count'[day][k] <= count[day][k] + n
             /\ Faults = {} => count'[day][k] = count[day][k] + n
  <2>1. seen \in Nat /\ seen <= count[day][k] /\ (Faults = {} => seen = count[day][k])
    BY <1>1 DEF Quota!Seen
  <2>2. PICK f : f = [count[day] EXCEPT ![k] = seen + n]
    OBVIOUS
  <2>3. f \in [Quota!Scopes -> Nat] /\ f[k] = seen + n /\ \A j \in Quota!Scopes : j # k => f[j] = count[day][j]
    BY <1>1, <2>1, <2>2
  <2>4. count' = [count EXCEPT ![day] = f]
    BY <1>3, <2>2
  <2> QED BY <1>1, <2>1, <2>3, <2>4 DEF Quota!Counters
<1> QED BY <1>2, <1>3 DEF Quota!Counted
LEMMA QuInit == ASSUME Quota!QuotaAssumption, Quota!Init PROVE Quota!IInv
<1> USE DEF Quota!QuotaAssumption, Quota!Init, Quota!None
<1>1. Quota!TypeOK
  BY DEF Quota!TypeOK, Quota!Counters, Quota!Scopes
<1>2. Quota!HalfIsRest /\ Quota!FutureIsZero /\ Quota!CountsAreUse /\ Quota!LetThroughBelow
  BY DEF Quota!Scopes, Quota!HalfIsRest, Quota!FutureIsZero, Quota!CountsAreUse,
     Quota!LetThroughBelow
<1>3. \A s \in Sessions : count[day][s] = 0
  BY DEF Quota!Scopes
<1>4. Quota!OneRuns /\ Quota!PassedByTheLast
  BY <1>3 DEF Quota!OneRuns, Quota!PassedByTheLast
<1> QED BY <1>1, <1>2, <1>4 DEF Quota!IInv

LEMMA QuStep == ASSUME Quota!QuotaAssumption, Quota!IInv, Quota!Next PROVE Quota!IInv'
<1>0. /\ Quota!TypeOK /\ Quota!HalfIsRest /\ Quota!FutureIsZero /\ Quota!OneRuns
      /\ Quota!CountsAreUse /\ Quota!LetThroughBelow /\ Quota!PassedByTheLast
      /\ KeepDays \in Nat /\ Days \in Nat /\ Cost \in [Requests -> Nat]
      /\ SessionOf \in [Requests -> Sessions] /\ Quota!None \notin Requests
      /\ "global" \notin Sessions
      /\ Checked \subseteq Requests /\ Serial \subseteq Requests /\ DailyLimit \in Nat
      /\ GlobalLimit \in Nat
  BY DEF Quota!IInv, Quota!QuotaAssumption
<1>t. /\ \A d \in 1..Days, k \in Quota!Scopes : count[d][k] \in Nat /\ used[d][k] \in Nat
      /\ day \in 1..Days /\ day \in Int /\ lost \in Nat /\ Days \in Int
      /\ "global" \in Quota!Scopes
      /\ uHalf # Quota!None => (uHalf \in Requests /\ Cost[uHalf] \in Nat /\ uStep[uHalf] = "runs")
      /\ Sessions \subseteq Quota!Scopes /\ count \in Quota!Counters /\ used \in Quota!Counters
  <2>1. \A d \in 1..Days, k \in Quota!Scopes : count[d][k] \in Nat /\ used[d][k] \in Nat
    BY <1>0 DEF Quota!TypeOK, Quota!Counters
  <2>2. uHalf # Quota!None => (uHalf \in Requests /\ Cost[uHalf] \in Nat /\ uStep[uHalf] = "runs")
    BY <1>0 DEF Quota!TypeOK, Quota!HalfIsRest
  <2> QED BY <1>0, <2>1, <2>2 DEF Quota!TypeOK, Quota!Scopes
<1>a. \A d \in 1..Days :
        /\ \A k \in Quota!Scopes : count[d][k] <= used[d][k]
        /\ (Faults = {} /\ d >= day - KeepDays) => \A s \in Sessions : count[d][s] = used[d][s]
        /\ (Faults = {} /\ d = day /\ uHalf = Quota!None) => count[d]["global"] + lost >= used[d]["global"]
  BY <1>0 DEF Quota!CountsAreUse
<1>b. /\ \A q, r \in Serial : SessionOf[q] = SessionOf[r] /\ uStep[q] = "runs" /\ uStep[r] = "runs" => q = r
      /\ \A r \in Requests : (Faults = {} /\ Quota!InOrder(SessionOf[r]) /\ DailyLimit > 0
                               /\ uStep[r] = "runs" /\ uHalf # r) => count[day][SessionOf[r]] < DailyLimit
  BY <1>0 DEF Quota!OneRuns
<1>c. (Faults = {} /\ DailyLimit > 0) => \A s \in Sessions : Quota!InOrder(s) =>
        \/ count[day][s] < DailyLimit
        \/ \E r \in Requests : SessionOf[r] = s /\ count[day][s] < DailyLimit + Cost[r]
  BY <1>0 DEF Quota!PassedByTheLast
<1>1. CASE Quota!Restart
  <2>a. /\ uHalf' = Quota!None /\ day' = day /\ used' = used /\ opened' = opened
        /\ lost' = IF uHalf = Quota!None THEN lost ELSE lost + Cost[uHalf]
        /\ uStep' = [r \in Requests |-> IF uStep[r] = "runs" THEN "killed" ELSE uStep[r]]
    BY <1>1 DEF Quota!Restart
  <2>g. PICK gone \in SUBSET (Quota!Old \X Quota!Scopes) :
          count' = [d \in 1..Days |-> [k \in Quota!Scopes |-> IF <<d, k>> \in gone THEN 0 ELSE count[d][k]]]
    BY <1>1 DEF Quota!Restart
  <2>b. /\ \A d \in 1..Days, k \in Quota!Scopes : count'[d][k] \in {0, count[d][k]}
        /\ \A d \in 1..Days, k \in Quota!Scopes : d >= day - KeepDays => count'[d][k] = count[d][k]
    <3>1. \A d \in 1..Days, k \in Quota!Scopes : d >= day - KeepDays => <<d, k>> \notin gone
      BY <1>0, <1>t DEF Quota!Old
    <3> QED BY <2>g, <3>1
  <2>d. \A k \in Quota!Scopes : count'[day][k] = count[day][k]
    BY <1>0, <1>t, <2>b
  <2>1. Quota!TypeOK'
    <3>1. count' \in Quota!Counters
      BY <1>t, <2>g DEF Quota!Counters
    <3>2. uStep' \in [Requests -> {"new", "denied", "runs", "done", "killed"}]
      BY <1>0, <2>a DEF Quota!TypeOK
    <3>3. lost' \in Nat
      BY <1>t, <2>a
    <3> QED BY <1>0, <2>a, <3>1, <3>2, <3>3 DEF Quota!TypeOK
  <2>2. Quota!HalfIsRest'
    BY <2>a DEF Quota!HalfIsRest
  <2>3. Quota!FutureIsZero'
    BY <1>0, <2>a, <2>b DEF Quota!FutureIsZero
  <2>4. Quota!CountsAreUse'
    <3> SUFFICES ASSUME NEW d \in 1..Days
                 PROVE  /\ \A k \in Quota!Scopes : count'[d][k] <= used[d][k]
                        /\ (Faults = {} /\ d >= day - KeepDays) => \A s \in Sessions : count'[d][s] = used[d][s]
                        /\ (Faults = {} /\ d = day) => count'[d]["global"] + lost' >= used[d]["global"]
      BY <2>a DEF Quota!CountsAreUse
    <3>1. \A k \in Quota!Scopes : count'[d][k] <= used[d][k]
      BY <1>a, <1>t, <2>b
    <3>2. (Faults = {} /\ d >= day - KeepDays) => \A s \in Sessions : count'[d][s] = used[d][s]
      BY <1>a, <1>t, <2>b
    <3>3. (Faults = {} /\ d = day) => count'[d]["global"] + lost' >= used[d]["global"]
      <4>1. CASE uHalf = Quota!None
        BY <1>a, <1>t, <2>a, <2>d, <4>1
      <4>2. CASE uHalf # Quota!None
        BY <1>0, <1>t, <2>a, <2>d, <4>2 DEF Quota!HalfIsRest
      <4> QED BY <4>1, <4>2
    <3> QED BY <3>1, <3>2, <3>3
  <2>5. Quota!LetThroughBelow'
    <3>1. \A r \in Checked : uStep'[r] \in {"runs", "done", "killed"} => uStep[r] \in {"runs", "done", "killed"}
      BY <1>0, <2>a
    <3>2. lost' \in Nat /\ lost' >= lost
      BY <1>t, <2>a
    <3>3. \A r \in Checked : opened[r].global \in Nat /\ opened[r].own \in Nat
      BY <1>0 DEF Quota!TypeOK
    <3> QED BY <1>0, <1>t, <3>1, <3>2, <3>3, <2>a DEF Quota!LetThroughBelow
  <2>6. Quota!OneRuns'
    <3>1. \A r \in Requests : uStep'[r] # "runs"
      BY <2>a
    <3> QED BY <1>0, <3>1 DEF Quota!OneRuns
  <2>7. Quota!PassedByTheLast'
    BY <1>c, <1>t, <2>a, <2>d DEF Quota!PassedByTheLast
  <2> QED BY <2>1, <2>2, <2>3, <2>4, <2>5, <2>6, <2>7 DEF Quota!IInv
<1>2. CASE Quota!Midnight
  <2>a. uHalf = Quota!None /\ day < Days /\ day' = day + 1 /\ UNCHANGED <<count, uStep, uHalf, used, opened, lost>>
    BY <1>2 DEF Quota!Midnight
  <2>z. day' \in 1..Days /\ \A k \in Quota!Scopes : count'[day'][k] = 0 /\ used'[day'][k] = 0
    BY <1>0, <1>t, <2>a DEF Quota!FutureIsZero
  <2>1. Quota!TypeOK' /\ Quota!HalfIsRest'
    BY <1>0, <1>t, <2>a DEF Quota!TypeOK, Quota!HalfIsRest
  <2>2. Quota!FutureIsZero'
    BY <1>t, <1>0, <2>a DEF Quota!FutureIsZero
  <2>3. Quota!CountsAreUse'
    <3> SUFFICES ASSUME NEW d \in 1..Days
                 PROVE  /\ \A k \in Quota!Scopes : count'[d][k] <= used'[d][k]
                        /\ (Faults = {} /\ d >= day' - KeepDays) => \A s \in Sessions : count'[d][s] = used'[d][s]
                        /\ (Faults = {} /\ d = day') => count'[d]["global"] + lost' >= used'[d]["global"]
      BY DEF Quota!CountsAreUse
    <3>1. d >= day' - KeepDays => d >= day - KeepDays
      BY <1>0, <1>t, <2>a
    <3>2. d = day' => count'[d]["global"] + lost' >= used'[d]["global"]
      BY <1>t, <2>a, <2>z
    <3>3. \A k \in Quota!Scopes : count'[d][k] <= used'[d][k]
      BY <1>a, <2>a
    <3>4. (Faults = {} /\ d >= day' - KeepDays) => \A s \in Sessions : count'[d][s] = used'[d][s]
      BY <1>a, <2>a, <3>1
    <3> QED BY <3>2, <3>3, <3>4
  <2>4. Quota!LetThroughBelow'
    BY <1>0, <2>a DEF Quota!LetThroughBelow
  <2>5. Quota!OneRuns'
    BY <1>b, <1>t, <1>0, <2>a, <2>z DEF Quota!OneRuns
  <2>6. Quota!PassedByTheLast'
    BY <1>0, <1>t, <2>z DEF Quota!PassedByTheLast
  <2> QED BY <2>1, <2>2, <2>3, <2>4, <2>5, <2>6 DEF Quota!IInv
<1>3. ASSUME NEW r \in Requests, Quota!Check(r) PROVE Quota!IInv'
  <2>a. uStep[r] = "new" /\ Quota!Free(r) /\ uHalf = Quota!None /\ UNCHANGED <<day, count, uHalf, used, lost>>
    BY <1>3 DEF Quota!Check
  <2>s. SessionOf[r] \in Quota!Scopes /\ SessionOf[r] \in Sessions
    BY <1>0, <1>t
  <2>b. PICK own \in Quota!Seen(SessionOf[r]), global \in Quota!Seen("global") :
          uStep' = [uStep EXCEPT ![r] = IF r \in Checked /\ Quota!Denied(own, global) THEN "denied" ELSE "runs"]
    BY <1>3 DEF Quota!Check
  <2>c. opened' = [opened EXCEPT ![r] = [own |-> used[day][SessionOf[r]], global |-> used[day]["global"]]]
    BY <1>3 DEF Quota!Check
  <2>d. Faults = {} => own = count[day][SessionOf[r]] /\ global = count[day]["global"]
    BY <2>b DEF Quota!Seen
  <2>e. (r \in Checked /\ uStep'[r] = "runs") => ~Quota!Denied(own, global)
    BY <1>0, <2>b DEF Quota!TypeOK
  <2>f. \A q \in Requests : q # r => uStep'[q] = uStep[q] /\ opened'[q] = opened[q]
    BY <1>0, <2>b, <2>c DEF Quota!TypeOK
  <2>g. opened'[r].own = used[day][SessionOf[r]] /\ opened'[r].global = used[day]["global"]
    BY <1>0, <2>c DEF Quota!TypeOK
  <2>h. /\ Faults = {} => used[day][SessionOf[r]] = count[day][SessionOf[r]]
        /\ Faults = {} => used[day]["global"] <= count[day]["global"] + lost
    BY <1>0, <1>a, <1>t, <2>a, <2>s
  <2>1. Quota!TypeOK'
    <3>1. opened' \in [Requests -> [own : Nat, global : Nat]]
      BY <1>0, <1>t, <2>c, <2>s DEF Quota!TypeOK
    <3>2. uStep' \in [Requests -> {"new", "denied", "runs", "done", "killed"}]
      BY <1>0, <2>b DEF Quota!TypeOK
    <3> QED BY <1>0, <2>a, <3>1, <3>2 DEF Quota!TypeOK
  <2>2. Quota!HalfIsRest' /\ Quota!FutureIsZero' /\ Quota!CountsAreUse' /\ Quota!PassedByTheLast'
    BY <1>0, <2>a DEF Quota!HalfIsRest, Quota!FutureIsZero, Quota!CountsAreUse,
       Quota!PassedByTheLast
  <2>4. Quota!LetThroughBelow'
    <3> SUFFICES ASSUME Faults = {}, NEW q \in Checked, uStep'[q] \in {"runs", "done", "killed"}
                 PROVE  /\ DailyLimit > 0 => opened'[q].own < DailyLimit
                        /\ GlobalLimit > 0 => opened'[q].global < GlobalLimit + lost
      BY <2>a DEF Quota!LetThroughBelow
    <3>1. CASE q = r
      <4>1. uStep'[q] = "runs"
        BY <1>0, <2>b, <3>1 DEF Quota!TypeOK
      <4>2. /\ DailyLimit > 0 => count[day][SessionOf[r]] < DailyLimit
            /\ GlobalLimit > 0 => count[day]["global"] < GlobalLimit
        <5>1. ~Quota!Denied(own, global)
          BY <2>e, <3>1, <4>1
        <5>2. own \in Nat /\ global \in Nat /\ own = count[day][SessionOf[r]] /\ global = count[day]["global"]
          BY <1>t, <2>d, <2>s
        <5> QED BY <1>0, <5>1, <5>2 DEF Quota!Denied
      <4> QED BY <1>0, <1>t, <2>g, <2>h, <2>s, <3>1, <4>2
    <3>2. CASE q # r
      BY <1>0, <2>f, <3>2 DEF Quota!LetThroughBelow
    <3> QED BY <3>1, <3>2
  <2>5. Quota!OneRuns'
    <3>1. ASSUME NEW p \in Serial, NEW q \in Serial, SessionOf[p] = SessionOf[q], uStep'[p] = "runs", uStep'[q] = "runs"
          PROVE  p = q
      <4>1. p = r => (q = r \/ uStep[q] = "runs")
        BY <1>0, <2>f, <3>1
      <4>2. q = r => (p = r \/ uStep[p] = "runs")
        BY <1>0, <2>f, <3>1
      <4>3. p # r /\ q # r => p = q
        BY <1>0, <1>b, <2>f, <3>1
      <4> QED BY <2>a, <3>1, <4>1, <4>2, <4>3 DEF Quota!Free
    <3>2. ASSUME NEW q \in Requests, Faults = {}, Quota!InOrder(SessionOf[q]), DailyLimit > 0, uStep'[q] = "runs"
          PROVE  count[day][SessionOf[q]] < DailyLimit
      <4>1. CASE q = r
        <5>1. q \in Checked
          BY <3>2 DEF Quota!InOrder
        <5>2. own \in Nat /\ own = count[day][SessionOf[r]]
          BY <1>t, <2>d, <2>s, <3>2
        <5> QED BY <1>0, <2>e, <3>2, <4>1, <5>1, <5>2 DEF Quota!Denied
      <4>2. CASE q # r
        BY <1>0, <1>b, <2>a, <2>f, <3>2, <4>2
      <4> QED BY <4>1, <4>2
    <3> QED BY <2>a, <3>1, <3>2 DEF Quota!OneRuns
  <2> QED BY <2>1, <2>2, <2>4, <2>5 DEF Quota!IInv
<1>4. ASSUME NEW r \in Requests, Quota!CountSession(r) PROVE Quota!IInv'
  <2>0. r # Quota!None /\ Cost[r] \in Nat /\ SessionOf[r] \in Sessions /\ SessionOf[r] # "global" /\ uStep[r] = "runs"
        /\ uHalf = Quota!None /\ UNCHANGED <<day, opened, lost>>
        /\ SessionOf[r] \in Quota!Scopes
    BY <1>0, <1>4, <1>t DEF Quota!CountSession
  <2>1. CASE Cost[r] = 0
    <3>a. uStep' = [uStep EXCEPT ![r] = "done"] /\ UNCHANGED <<day, opened, lost, count, used, uHalf>>
      BY <1>4, <2>1 DEF Quota!CountSession
    <3>1. Quota!TypeOK' /\ Quota!LetThroughBelow'
      BY <1>0, <2>0, <3>a DEF Quota!TypeOK, Quota!LetThroughBelow
    <3>2. Quota!HalfIsRest' /\ Quota!FutureIsZero' /\ Quota!CountsAreUse' /\ Quota!PassedByTheLast'
      BY <1>0, <2>0, <3>a DEF Quota!HalfIsRest, Quota!FutureIsZero, Quota!CountsAreUse,
         Quota!PassedByTheLast
    <3>3. \A q \in Requests : uStep'[q] = "runs" => uStep[q] = "runs"
      BY <1>0, <3>a DEF Quota!TypeOK
    <3>4. Quota!OneRuns'
      BY <1>0, <1>b, <3>3, <3>a DEF Quota!OneRuns
    <3> QED BY <3>1, <3>2, <3>4 DEF Quota!IInv
  <2>2. CASE Cost[r] # 0
    <3>a. /\ uHalf' = r /\ UNCHANGED <<day, opened, lost, uStep>>
          /\ Quota!Counted(SessionOf[r], Cost[r])
          /\ used' = PlusBoth(used, day, SessionOf[r], "global", Cost[r])
      BY <1>4, <2>2 DEF Quota!CountSession, PlusBoth
    <3>b. /\ count' \in Quota!Counters
          /\ \A d \in 1..Days, k \in Quota!Scopes : (d # day \/ k # SessionOf[r]) => count'[d][k] = count[d][k]
          /\ count'[day][SessionOf[r]] <= count[day][SessionOf[r]] + Cost[r]
          /\ Faults = {} => count'[day][SessionOf[r]] = count[day][SessionOf[r]] + Cost[r]
      BY <1>t, <2>0, <3>a, QuCounted
    <3>n. \A d \in 1..Days, k \in Quota!Scopes : count'[d][k] \in Nat
      BY <3>b DEF Quota!Counters
    <3>c. /\ used' \in Quota!Counters
          /\ \A d \in 1..Days, k \in Quota!Scopes :
               used'[d][k] = IF d = day /\ k \in {SessionOf[r], "global"} THEN used[d][k] + Cost[r] ELSE used[d][k]
      <4>1. SessionOf[r] \in Quota!Scopes /\ SessionOf[r] # "global" /\ "global" \in Quota!Scopes /\ Cost[r] \in Nat /\ day \in 1..Days /\ used \in Quota!Counters
        BY <1>t, <2>0
      <4>2. used' \in Quota!Counters
        BY <4>1, <3>a, QuAddedTwice
      <4>3. \A d \in 1..Days, k \in Quota!Scopes :
               used'[d][k] = IF d = day /\ k \in {SessionOf[r], "global"} THEN used[d][k] + Cost[r] ELSE used[d][k]
        BY <4>1, <3>a, QuAddedTwice
      <4> QED BY <4>2, <4>3
    <3>1. Quota!TypeOK'
      BY <1>0, <3>a, <3>b, <3>c DEF Quota!TypeOK
    <3>2. Quota!HalfIsRest'
      <4>1. /\ used'[day]["global"] = used[day]["global"] + Cost[r]
            /\ count'[day]["global"] = count[day]["global"]
        BY <1>t, <2>0, <3>b, <3>c
      <4>2. /\ count'[day]["global"] + Cost[r] <= used'[day]["global"]
            /\ Faults = {} => used'[day]["global"] <= count'[day]["global"] + Cost[r] + lost
        BY <1>a, <1>t, <2>0, <4>1
      <4> QED BY <2>0, <3>a, <4>2 DEF Quota!HalfIsRest
    <3>3. Quota!FutureIsZero' /\ Quota!LetThroughBelow'
      BY <1>0, <1>t, <2>0, <3>a, <3>b, <3>c DEF Quota!FutureIsZero, Quota!LetThroughBelow
    <3>4. Quota!CountsAreUse'
      <4> SUFFICES ASSUME NEW d \in 1..Days
                   PROVE  /\ \A k \in Quota!Scopes : count'[d][k] <= used'[d][k]
                          /\ (Faults = {} /\ d >= day - KeepDays) => \A s \in Sessions : count'[d][s] = used'[d][s]
        BY <2>0, <3>a DEF Quota!CountsAreUse
      <4>1. ASSUME NEW k \in Quota!Scopes PROVE count'[d][k] <= used'[d][k]
        <5>1. CASE d = day /\ k = SessionOf[r]
          BY <1>a, <1>t, <2>0, <3>b, <3>c, <3>n, <5>1
        <5>2. CASE ~(d = day /\ k = SessionOf[r])
          BY <1>a, <1>t, <2>0, <3>b, <3>c, <5>2
        <5> QED BY <5>1, <5>2
      <4>2. ASSUME NEW s \in Sessions, Faults = {}, d >= day - KeepDays
            PROVE  count'[d][s] = used'[d][s]
        <5>0. s \in Quota!Scopes /\ s # "global" /\ count[d][s] = used[d][s]
          BY <1>0, <1>a, <1>t, <4>2
        <5>1. CASE d = day /\ s = SessionOf[r]
          BY <2>0, <3>b, <3>c, <4>2, <5>0, <5>1
        <5>2. CASE ~(d = day /\ s = SessionOf[r])
          BY <2>0, <3>b, <3>c, <5>0, <5>2
        <5> QED BY <5>1, <5>2
      <4> QED BY <4>1, <4>2
    <3>5. Quota!OneRuns'
      <4>1. ASSUME NEW q \in Requests, Faults = {}, Quota!InOrder(SessionOf[q]), DailyLimit > 0, uStep[q] = "runs", q # r
            PROVE  count'[day][SessionOf[q]] < DailyLimit
        <5>1. SessionOf[q] \in Sessions /\ SessionOf[q] \in Quota!Scopes /\ count[day][SessionOf[q]] < DailyLimit /\ q # Quota!None
          BY <1>0, <1>b, <1>t, <2>0, <4>1
        <5>2. SessionOf[q] # SessionOf[r]
          <6>1. SessionOf[q] = SessionOf[r] => q \in Serial /\ r \in Serial
            BY <4>1 DEF Quota!InOrder
          <6> QED BY <1>b, <2>0, <4>1, <6>1
        <5> QED BY <1>t, <3>b, <5>1, <5>2
      <4> QED BY <1>b, <3>a, <4>1 DEF Quota!OneRuns
    <3>6. Quota!PassedByTheLast'
      <4> SUFFICES ASSUME Faults = {}, DailyLimit > 0, NEW s \in Sessions, Quota!InOrder(s)
                   PROVE  \/ count'[day][s] < DailyLimit
                          \/ \E q \in Requests : SessionOf[q] = s /\ count'[day][s] < DailyLimit + Cost[q]
        BY <3>a DEF Quota!PassedByTheLast
      <4>1. CASE s = SessionOf[r]
        <5>1. count[day][s] < DailyLimit
          BY <1>b, <2>0, <4>1
        <5>2. count'[day][s] < DailyLimit + Cost[r]
          BY <1>0, <1>t, <2>0, <3>b, <4>1, <5>1
        <5> QED BY <4>1, <5>2
      <4>2. CASE s # SessionOf[r]
        BY <1>c, <1>t, <3>b, <4>2
      <4> QED BY <4>1, <4>2
    <3> QED BY <3>1, <3>2, <3>3, <3>4, <3>5, <3>6 DEF Quota!IInv
  <2> QED BY <2>1, <2>2
<1>5. ASSUME NEW r \in Requests, Quota!CountGlobal(r) PROVE Quota!IInv'
  <2>0. /\ r # Quota!None /\ Cost[r] \in Nat /\ uHalf = r /\ uHalf' = Quota!None
        /\ UNCHANGED <<day, used, opened, lost>>
        /\ Quota!Counted("global", Cost[r]) /\ uStep' = [uStep EXCEPT ![r] = "done"]
        /\ uStep[r] = "runs"
    BY <1>0, <1>5, <1>t DEF Quota!CountGlobal
  <2>b. /\ count' \in Quota!Counters
        /\ \A d \in 1..Days, k \in Quota!Scopes : (d # day \/ k # "global") => count'[d][k] = count[d][k]
        /\ count'[day]["global"] <= count[day]["global"] + Cost[r]
        /\ Faults = {} => count'[day]["global"] = count[day]["global"] + Cost[r]
    BY <1>t, <2>0, QuCounted
  <2>n. \A d \in 1..Days, k \in Quota!Scopes : count'[d][k] \in Nat
    BY <2>b DEF Quota!Counters
  <2>s. \A d \in 1..Days, s \in Sessions : count'[d][s] = count[d][s]
    BY <1>0, <1>t, <2>b
  <2>1. Quota!TypeOK' /\ Quota!HalfIsRest'
    BY <1>0, <2>0, <2>b DEF Quota!TypeOK, Quota!HalfIsRest
  <2>2. Quota!FutureIsZero' /\ Quota!LetThroughBelow'
    BY <1>0, <1>t, <2>0, <2>b DEF Quota!FutureIsZero, Quota!LetThroughBelow, Quota!TypeOK
  <2>h. /\ count[day]["global"] + Cost[r] <= used[day]["global"]
        /\ Faults = {} => used[day]["global"] <= count[day]["global"] + Cost[r] + lost
    BY <1>0, <2>0 DEF Quota!HalfIsRest
  <2>3. Quota!CountsAreUse'
    <3> SUFFICES ASSUME NEW d \in 1..Days
                 PROVE  /\ \A k \in Quota!Scopes : count'[d][k] <= used[d][k]
                        /\ (Faults = {} /\ d >= day - KeepDays) => \A s \in Sessions : count'[d][s] = used[d][s]
                        /\ (Faults = {} /\ d = day) => count'[d]["global"] + lost >= used[d]["global"]
      BY <2>0 DEF Quota!CountsAreUse
    <3>1. \A k \in Quota!Scopes : count'[d][k] <= used[d][k]
      BY <1>a, <1>t, <2>0, <2>b, <2>h, <2>n
    <3>2. (Faults = {} /\ d = day) => count'[d]["global"] + lost >= used[d]["global"]
      BY <1>t, <2>0, <2>b, <2>h, <2>n
    <3> QED BY <1>a, <2>s, <3>1, <3>2
  <2>4. \A q \in Requests : uStep'[q] = "runs" => uStep[q] = "runs" /\ q # r
    BY <1>0, <2>0 DEF Quota!TypeOK
  <2>5. Quota!OneRuns'
    BY <1>0, <1>b, <1>t, <2>0, <2>4, <2>s DEF Quota!OneRuns
  <2>6. Quota!PassedByTheLast'
    BY <1>c, <1>t, <2>0, <2>s DEF Quota!PassedByTheLast
  <2> QED BY <2>1, <2>2, <2>3, <2>5, <2>6 DEF Quota!IInv
<1>6. ASSUME NEW s \in Sessions \cup {"all"}, Quota!Reset(s) PROVE Quota!IInv'
  <2>a. uHalf = Quota!None /\ UNCHANGED <<day, uStep, uHalf, opened, lost>>
    BY <1>6 DEF Quota!Reset
  <2>1. PICK gone : /\ count' = [count EXCEPT ![day] = [k \in Quota!Scopes |-> IF k \in gone THEN 0 ELSE @[k]]]
                    /\ used'  = [used EXCEPT ![day] = [k \in Quota!Scopes |-> IF k \in gone THEN 0 ELSE @[k]]]
    BY <1>6 DEF Quota!Reset
  <2>2. count' \in Quota!Counters /\ used' \in Quota!Counters
    BY <1>0, <2>1 DEF Quota!TypeOK, Quota!Counters
  <2>3. \A d \in 1..Days, k \in Quota!Scopes :
          /\ count'[d][k] = IF d = day /\ k \in gone THEN 0 ELSE count[d][k]
          /\ used'[d][k] = IF d = day /\ k \in gone THEN 0 ELSE used[d][k]
    BY <1>0, <2>1 DEF Quota!TypeOK, Quota!Counters
  <2>4. Quota!TypeOK' /\ Quota!HalfIsRest' /\ Quota!LetThroughBelow'
    BY <1>0, <2>2, <2>a DEF Quota!TypeOK, Quota!HalfIsRest, Quota!LetThroughBelow
  <2>5. Quota!FutureIsZero'
    BY <1>0, <2>3, <2>a DEF Quota!FutureIsZero
  <2>6. Quota!CountsAreUse'
    <3> SUFFICES ASSUME NEW d \in 1..Days
                 PROVE  /\ \A k \in Quota!Scopes : count'[d][k] <= used'[d][k]
                        /\ (Faults = {} /\ d >= day - KeepDays) => \A q \in Sessions : count'[d][q] = used'[d][q]
                        /\ (Faults = {} /\ d = day) => count'[d]["global"] + lost >= used'[d]["global"]
      BY <2>a DEF Quota!CountsAreUse
    <3> QED BY <1>a, <1>t, <2>3, <2>a
  <2>c. \A q \in Sessions : count'[day][q] \in {0, count[day][q]}
    BY <1>t, <2>3
  <2>7. Quota!OneRuns'
    <3>1. ASSUME NEW q \in Requests, Faults = {}, Quota!InOrder(SessionOf[q]), DailyLimit > 0, uStep[q] = "runs", uHalf # q
          PROVE  count'[day][SessionOf[q]] < DailyLimit
      <4>1. SessionOf[q] \in Sessions /\ count[day][SessionOf[q]] < DailyLimit
        BY <1>0, <1>b, <3>1
      <4> QED BY <1>0, <2>c, <3>1, <4>1
    <3> QED BY <1>b, <2>a, <3>1 DEF Quota!OneRuns
  <2>8. Quota!PassedByTheLast'
    <3> SUFFICES ASSUME Faults = {}, DailyLimit > 0, NEW q \in Sessions, Quota!InOrder(q)
                 PROVE  \/ count'[day][q] < DailyLimit
                        \/ \E r \in Requests : SessionOf[r] = q /\ count'[day][q] < DailyLimit + Cost[r]
      BY <2>a DEF Quota!PassedByTheLast
    <3> QED BY <1>0, <1>c, <2>c
  <2> QED BY <2>4, <2>5, <2>6, <2>7, <2>8 DEF Quota!IInv
<1>7. QED BY <1>1, <1>2, <1>3, <1>4, <1>5, <1>6 DEF Quota!Next

LEMMA QuStutter == ASSUME Quota!IInv, UNCHANGED Quota!vars PROVE Quota!IInv'
<1>1. UNCHANGED <<day, count, uStep, uHalf, used, opened, lost>>
  BY DEF Quota!vars
<1>2. Quota!TypeOK' /\ Quota!HalfIsRest' /\ Quota!FutureIsZero' /\ Quota!CountsAreUse' /\ Quota!LetThroughBelow'
  BY <1>1 DEF Quota!IInv, Quota!TypeOK, Quota!HalfIsRest, Quota!FutureIsZero,
     Quota!CountsAreUse, Quota!LetThroughBelow
<1>3. Quota!OneRuns' /\ Quota!PassedByTheLast'
  BY <1>1 DEF Quota!IInv, Quota!OneRuns, Quota!PassedByTheLast
<1> QED BY <1>2, <1>3 DEF Quota!IInv

LEMMA QuKeeps == ASSUME Quota!IInv PROVE Quota!TypeOK /\ Quota!CountsAreUse /\ Quota!LetThroughBelow /\ Quota!PassedByTheLast
BY DEF Quota!IInv

-------------------------------------------------------------------------------
(* ChatResidency.                                                          *)

CrTouch(b, i, t) == [b EXCEPT ![i].last = t]
CrWindow(b, i, w) == [b EXCEPT ![i].window = w]

LEMMA CrTouched ==
  ASSUME NEW b \in Seq(Chats!Bot), NEW i \in 1..Len(b), NEW t \in 0..MaxTime, NEW r, r = CrTouch(b, i, t)
  PROVE  /\ r \in Seq(Chats!Bot) /\ Len(r) = Len(b)
         /\ \A j \in 1..Len(b) : r[j].window = b[j].window
<1>0. b[i] \in Chats!Bot
  OBVIOUS
<1>1. [b[i] EXCEPT !.last = t] \in Chats!Bot /\ [b[i] EXCEPT !.last = t].window = b[i].window
  BY <1>0 DEF Chats!Bot
<1>2. r = [b EXCEPT ![i] = [b[i] EXCEPT !.last = t]]
  BY DEF CrTouch
<1> QED BY <1>1, <1>2

LEMMA CrWindowed ==
  ASSUME NEW b \in Seq(Chats!Bot), NEW i \in 1..Len(b), NEW w \in Seq(Mentions), NEW r, r = CrWindow(b, i, w)
  PROVE  /\ r \in Seq(Chats!Bot) /\ Len(r) = Len(b)
         /\ \A j \in 1..Len(b) : r[j].window = IF j = i THEN w ELSE b[j].window
<1>0. b[i] \in Chats!Bot
  OBVIOUS
<1>1. [b[i] EXCEPT !.window = w] \in Chats!Bot /\ [b[i] EXCEPT !.window = w].window = w
  BY <1>0 DEF Chats!Bot
<1>2. r = [b EXCEPT ![i] = [b[i] EXCEPT !.window = w]]
  BY DEF CrWindow
<1> QED BY <1>1, <1>2

\* One fact each.
LEMMA CrWindowedLen ==
  ASSUME NEW b \in Seq(Chats!Bot), NEW i \in 1..Len(b), NEW w \in Seq(Mentions)
  PROVE  Len(CrWindow(b, i, w)) = Len(b)
BY DEF CrWindow

LEMMA CrWindowedAt ==
  ASSUME NEW b \in Seq(Chats!Bot), NEW i \in 1..Len(b), NEW w \in Seq(Mentions), NEW j \in 1..Len(b)
  PROVE  CrWindow(b, i, w)[j].window = IF j = i THEN w ELSE b[j].window
<1>1. b[i] \in Chats!Bot /\ b[j] \in Chats!Bot
  OBVIOUS
<1>2. [b[i] EXCEPT !.window = w].window = w
  BY <1>1 DEF Chats!Bot
<1> QED BY <1>1, <1>2 DEF CrWindow

CrAssumption == Chats!ResidencyAssumption
CrKept == Len(bots') = Len(bots) /\ \A j \in 1..Len(bots) : bots'[j].window = bots[j].window

LEMMA CrTouches ==
  ASSUME Chats!TypeOK, NEW g \in Groups, bots' = Chats!Touched(g)
  PROVE  bots' \in Seq(Chats!Bot) /\ CrKept
<1>1. bots \in Seq(Chats!Bot) /\ chats[g] \in 0..Len(bots) /\ cNow \in 0..MaxTime
  BY DEF Chats!TypeOK
<1>2. CASE chats[g] = 0
  BY <1>1, <1>2 DEF Chats!Touched, CrKept
<1>3. CASE chats[g] # 0
  <2>1. chats[g] \in 1..Len(bots)
    BY <1>1, <1>3
  <2>2. bots' = CrTouch(bots, chats[g], cNow)
    BY <1>3 DEF Chats!Touched, CrTouch
  <2>3. bots' \in Seq(Chats!Bot) /\ Len(bots') = Len(bots)
    BY <1>1, <2>1, <2>2, CrTouched
  <2>4. \A j \in 1..Len(bots) : bots'[j].window = bots[j].window
    BY <1>1, <2>1, <2>2, CrTouched
  <2> QED BY <2>3, <2>4 DEF CrKept
<1> QED BY <1>2, <1>3

LEMMA CrTypes ==
  ASSUME CrAssumption, Chats!TypeOK, Chats!SweepHasEntry, Chats!DriversHaveBots, Chats!Next
  PROVE  Chats!TypeOK' /\ Len(bots') >= Len(bots)
<1>0. /\ GroupOf \in [Chats!Actors -> Groups] /\ Mentions \subseteq Chats!Actors
      /\ Chatter \subseteq Chats!Actors
      /\ MaxTime \in Nat /\ MaxCrashes \in Nat
  BY DEF CrAssumption, Chats!ResidencyAssumption, Chats!Actors
<1>t. /\ bots \in Seq(Chats!Bot) /\ chats \in [Groups -> 0..Len(bots)]
      /\ cRows \in [Groups -> Seq(Mentions)] /\ pending \in [Groups -> Seq(Mentions)]
      /\ lock \in [Groups -> Chats!Actors \cup {Chats!Janitor, Chats!Free}]
      /\ cCount \in [Groups -> Nat] /\ stored \in [Groups -> Nat] /\ loaded \subseteq Groups
      /\ pc \in [Chats!Actors -> Chats!Places] /\ mine \in [Chats!Actors -> 0..Len(bots)]
      /\ batch \in [Chats!Actors -> Seq(Mentions)]
      /\ sweep \in Chats!Sweeps /\ cNow \in 0..MaxTime /\ cCrashes \in 0..MaxCrashes
      /\ Len(bots) \in Nat
  BY DEF Chats!TypeOK
<1>b. bots \in Seq(Chats!Bot)
  BY <1>t
<1>r. cRows \in [Groups -> Seq(Mentions)]
  BY <1>t
<1>g. \A a \in Chats!Actors : Chats!Group(a) \in Groups
  BY <1>0 DEF Chats!Group
<1>p. \A a \in Chats!Actors : \A p \in Chats!Places : [pc EXCEPT ![a] = p] \in [Chats!Actors -> Chats!Places]
  BY <1>t
<1>k. ASSUME UNCHANGED <<chats, mine, sweep>>, bots' \in Seq(Chats!Bot), Len(bots') >= Len(bots)
      PROVE  chats' \in [Groups -> 0..Len(bots')] /\ mine' \in [Chats!Actors -> 0..Len(bots')] /\ sweep' \in Chats!Sweeps'
  <2>1. Len(bots') \in Nat
    BY <1>k
  <2>2. 0..Len(bots) \subseteq 0..Len(bots') /\ 1..Len(bots) \subseteq 1..Len(bots')
    BY <1>t, <1>k, <2>1
  <2>3. Chats!Entries \subseteq Chats!Entries'
    BY <2>2 DEF Chats!Entries
  <2>4. sweep' \in Chats!Sweeps'
    BY <1>t, <1>k, <2>2, <2>3 DEF Chats!Sweeps
  <2> QED BY <1>t, <1>k, <2>2, <2>4
\* What leaves the ChatBots and the janitor alone.
<1>q. ASSUME UNCHANGED <<bots, chats, mine, sweep, Chats!timeVars>>, cRows' \in [Groups -> Seq(Mentions)],
             pending' \in [Groups -> Seq(Mentions)], lock' \in [Groups -> Chats!Actors \cup {Chats!Janitor, Chats!Free}],
             cCount' \in [Groups -> Nat], stored' \in [Groups -> Nat], loaded' \subseteq Groups,
             pc' \in [Chats!Actors -> Chats!Places], batch' \in [Chats!Actors -> Seq(Mentions)]
      PROVE  Chats!TypeOK' /\ Len(bots') >= Len(bots)
  <2>1. sweep' \in Chats!Sweeps'
    BY <1>t, <1>q DEF Chats!Sweeps, Chats!Entries, Chats!timeVars
  <2>2. /\ bots' \in Seq(Chats!Bot) /\ chats' \in [Groups -> 0..Len(bots')]
        /\ mine' \in [Chats!Actors -> 0..Len(bots')]
        /\ cNow' \in 0..MaxTime /\ cCrashes' \in 0..MaxCrashes /\ Len(bots') >= Len(bots)
    BY <1>t, <1>q DEF Chats!timeVars
  <2> QED BY <1>q, <2>1, <2>2 DEF Chats!TypeOK
<1>1. ASSUME NEW m \in Mentions, Chats!Handle(m) PROVE Chats!TypeOK' /\ Len(bots') >= Len(bots)
  <2>m. m \in Chats!Actors /\ Chats!Group(m) \in Groups
    BY <1>0, <1>g
  <2>1. CASE Chats!Begin(m)
    <3>1. bots' \in Seq(Chats!Bot) /\ Len(bots') = Len(bots)
      BY <2>1, <2>m, CrTouches DEF Chats!Begin, CrKept
    <3>2. lock' \in [Groups -> Chats!Actors \cup {Chats!Janitor, Chats!Free}] /\ pc' \in [Chats!Actors -> Chats!Places]
      BY <2>1, <2>m, <1>t DEF Chats!Begin, Chats!Lock, Chats!Goto, Chats!Places
    <3> QED BY <1>k, <1>t, <2>1, <3>1, <3>2 DEF Chats!Begin, Chats!TypeOK, Chats!countVars,
       Chats!timeVars
  <2>2. CASE Chats!Refused(m)
    BY <1>q, <1>t, <2>2, <2>m DEF Chats!Refused, Chats!chatVars, Chats!countVars, Chats!Goto,
       Chats!Places
  <2>3. CASE Chats!Queue(m)
    <3>1. pending' \in [Groups -> Seq(Mentions)]
      BY <1>t, <2>3, <2>m DEF Chats!Queue
    <3> QED BY <1>q, <1>t, <2>3, <2>m, <3>1 DEF Chats!Queue, Chats!countVars, Chats!Goto,
       Chats!Places
  <2>4. CASE Chats!TouchQueued(m)
    <3>1. bots' \in Seq(Chats!Bot) /\ Len(bots') = Len(bots)
      BY <2>4, <2>m, CrTouches DEF Chats!TouchQueued, CrKept
    <3>2. pc' \in [Chats!Actors -> Chats!Places]
      BY <2>4, <2>m, <1>t DEF Chats!TouchQueued, Chats!Goto, Chats!Places
    <3> QED BY <1>k, <1>t, <2>4, <3>1, <3>2 DEF Chats!TouchQueued, Chats!TypeOK,
       Chats!countVars, Chats!timeVars
  <2>5. CASE Chats!GetChat(m)
    <3>1. pc' \in [Chats!Actors -> Chats!Places]
      BY <2>5, <2>m, <1>t DEF Chats!GetChat, Chats!Goto, Chats!Places
    <3>2. CASE chats[Chats!Group(m)] # 0
      <4>1. bots' \in Seq(Chats!Bot) /\ Len(bots') = Len(bots)
        BY <2>5, <3>2, <2>m, CrTouches DEF Chats!GetChat, CrKept
      <4>2. chats' = chats /\ mine' = [mine EXCEPT ![m] = chats[Chats!Group(m)]]
        BY <2>5, <3>2 DEF Chats!GetChat
      <4>3. mine' \in [Chats!Actors -> 0..Len(bots')] /\ chats' \in [Groups -> 0..Len(bots')]
        BY <1>t, <2>m, <4>1, <4>2
      <4>4. sweep' \in Chats!Sweeps'
        BY <1>t, <2>5, <4>1 DEF Chats!GetChat, Chats!Sweeps, Chats!Entries
      <4> QED BY <1>t, <2>5, <3>1, <4>1, <4>3, <4>4 DEF Chats!GetChat, Chats!TypeOK,
         Chats!countVars, Chats!timeVars
    <3>3. CASE chats[Chats!Group(m)] = 0
      <4>0. [window |-> cRows[Chats!Group(m)], last |-> cNow] \in Chats!Bot
        BY <1>t, <2>m DEF Chats!Bot
      <4>1. bots' \in Seq(Chats!Bot) /\ Len(bots') = Len(bots) + 1
        <5>1. bots' = Append(bots, [window |-> cRows[Chats!Group(m)], last |-> cNow])
          BY <2>5, <3>3 DEF Chats!GetChat
        <5>2. bots \in Seq(Chats!Bot)
          BY <1>t
        <5> QED BY <5>1, <5>2, <4>0
      <4>2. chats' = [chats EXCEPT ![Chats!Group(m)] = Len(bots) + 1] /\ mine' = [mine EXCEPT ![m] = Len(bots) + 1]
        BY <1>t, <2>m, <2>5, <3>3 DEF Chats!GetChat
      <4>5. 0..Len(bots) \subseteq 0..Len(bots') /\ Len(bots) + 1 \in 0..Len(bots') /\ Chats!Entries \subseteq Chats!Entries'
        BY <1>t, <4>1 DEF Chats!Entries
      <4>6. mine' \in [Chats!Actors -> 0..Len(bots')]
        BY <1>t, <2>m, <4>5, <4>2
      <4>7. chats' \in [Groups -> 0..Len(bots')]
        BY <1>t, <2>m, <4>5, <4>2
      <4>3. mine' \in [Chats!Actors -> 0..Len(bots')] /\ chats' \in [Groups -> 0..Len(bots')]
        BY <4>6, <4>7
      <4>4. sweep' \in Chats!Sweeps'
        BY <1>t, <2>5, <4>5 DEF Chats!GetChat, Chats!Sweeps
      <4> QED BY <1>t, <2>5, <3>1, <4>1, <4>3, <4>4 DEF Chats!GetChat, Chats!TypeOK,
         Chats!countVars, Chats!timeVars
    <3> QED BY <3>2, <3>3
  <2>6. CASE Chats!ApplyClear(m)
    <3>0. mine[m] \in 1..Len(bots)
      BY <1>t, <2>6, <2>m DEF Chats!ApplyClear, Chats!DriversHaveBots, Chats!Drives
    <3>1. bots' \in Seq(Chats!Bot) /\ Len(bots') = Len(bots) /\ cRows' \in [Groups -> Seq(Mentions)]
      <4>1. CASE Threshold > 0 /\ cCount'[Chats!Group(m)] >= Threshold
        <5>1. bots' = CrWindow(bots, mine[m], <<>>) /\ cRows' = [cRows EXCEPT ![Chats!Group(m)] = <<>>]
          BY <2>6, <4>1 DEF Chats!ApplyClear, Chats!ClearHistory, CrWindow
        <5>2. <<>> \in Seq(Mentions)
          OBVIOUS
        <5>3. bots' \in Seq(Chats!Bot)
          BY <1>b, <3>0, <5>1, <5>2, CrWindowed
        <5>4. Len(bots') = Len(bots)
          BY <1>b, <3>0, <5>1, <5>2, CrWindowedLen
        <5>5. cRows' \in [Groups -> Seq(Mentions)]
          BY <1>r, <2>m, <5>1, <5>2
        <5> QED BY <5>3, <5>4, <5>5
      <4>2. CASE ~(Threshold > 0 /\ cCount'[Chats!Group(m)] >= Threshold)
        BY <1>t, <2>6, <4>2 DEF Chats!ApplyClear
      <4> QED BY <4>1, <4>2
    <3>2. pc' \in [Chats!Actors -> Chats!Places]
      BY <2>6, <2>m, <1>t DEF Chats!ApplyClear, Chats!Goto, Chats!Places
    <3>3. Chats!Restored(Chats!Group(m)) \in Nat
      BY <1>t, <2>m DEF Chats!Restored
    <3>4. cCount' \in [Groups -> Nat] /\ loaded' \subseteq Groups
      BY <1>t, <2>m, <2>6, <3>3 DEF Chats!ApplyClear
    <3> QED BY <1>k, <1>t, <2>6, <3>1, <3>2, <3>4 DEF Chats!ApplyClear, Chats!TypeOK,
       Chats!timeVars
  <2>7. CASE Chats!ApplyReset(m)
    <3>1. batch' \in [Chats!Actors -> Seq(Mentions)] /\ pc' \in [Chats!Actors -> Chats!Places]
      BY <1>t, <2>7, <2>m DEF Chats!ApplyReset, Chats!Goto, Chats!Places
    <3>2. cCount' \in [Groups -> Nat] /\ stored' \in [Groups -> Nat]
      BY <1>t, <2>7, <2>m DEF Chats!ApplyReset, Chats!Reset
    <3> QED BY <1>q, <1>t, <2>7, <3>1, <3>2 DEF Chats!ApplyReset, Chats!chatVars
  <2>8. CASE Chats!Drain(m)
    <3>1. pending' \in [Groups -> Seq(Mentions)] /\ batch' \in [Chats!Actors -> Seq(Mentions)] /\ pc' \in [Chats!Actors -> Chats!Places]
      BY <1>t, <2>8, <2>m DEF Chats!Drain, Chats!Goto, Chats!Places
    <3> QED BY <1>q, <1>t, <2>8, <3>1 DEF Chats!Drain, Chats!countVars
  <2>9. CASE Chats!Turn(m)
    <3>0. mine[m] \in 1..Len(bots)
      BY <1>t, <2>9, <2>m DEF Chats!Turn, Chats!DriversHaveBots, Chats!Drives
    <3>a. bots[mine[m]] \in Chats!Bot
      BY <1>t, <3>0
    <3>b. bots[mine[m]].window \o batch[m] \in Seq(Mentions)
      BY <1>t, <3>a, <2>m DEF Chats!Bot
    <3>1. bots' \in Seq(Chats!Bot) /\ Len(bots') = Len(bots)
      <4>1. bots' = CrWindow(bots, mine[m], bots[mine[m]].window \o batch[m])
        BY <2>9 DEF Chats!Turn, CrWindow
      <4>2. bots' \in Seq(Chats!Bot)
        BY <1>b, <3>0, <3>b, <4>1, CrWindowed
      <4>3. Len(bots') = Len(bots)
        BY <1>b, <3>0, <3>b, <4>1, CrWindowedLen
      <4> QED BY <4>2, <4>3
    <3>2. pc' \in [Chats!Actors -> Chats!Places] /\ batch' \in [Chats!Actors -> Seq(Mentions)]
      BY <2>9, <2>m, <1>t DEF Chats!Turn, Chats!Goto, Chats!Places
    <3>3. cRows' \in [Groups -> Seq(Mentions)]
      BY <2>9, <2>m, <1>t DEF Chats!Turn
    <3>4. UNCHANGED <<chats, pending, lock, cCount, stored, loaded, mine, sweep, cNow, cCrashes>>
      BY <2>9 DEF Chats!Turn, Chats!countVars, Chats!timeVars
    <3>5. chats' \in [Groups -> 0..Len(bots')] /\ mine' \in [Chats!Actors -> 0..Len(bots')] /\ sweep' \in Chats!Sweeps'
      BY <1>k, <1>t, <3>1, <3>4
    <3> QED BY <1>t, <3>1, <3>2, <3>3, <3>4, <3>5 DEF Chats!TypeOK
  <2>10. CASE Chats!Leave(m)
    BY <1>q, <1>t, <2>10, <2>m DEF Chats!Leave, Chats!chatVars, Chats!countVars, Chats!Goto,
       Chats!Unlock, Chats!Places
  <2> QED BY <1>1, <2>1, <2>2, <2>3, <2>4, <2>5, <2>6, <2>7, <2>8, <2>9, <2>10 DEF Chats!Handle
<1>2. ASSUME NEW u \in Chatter, Chats!Ignore(u) PROVE Chats!TypeOK' /\ Len(bots') >= Len(bots)
  <2>m. u \in Chats!Actors /\ Chats!Group(u) \in Groups
    BY <1>0, <1>g
  <2>1. CASE Chats!Incr(u)
    <3>3. Chats!Restored(Chats!Group(u)) + 1 \in Nat
      BY <1>t, <2>m DEF Chats!Restored
    <3>4. cCount' \in [Groups -> Nat] /\ loaded' \subseteq Groups /\ stored' \in [Groups -> Nat]
      BY <1>t, <2>m, <2>1, <3>3 DEF Chats!Incr, Chats!Persisted
    <3>5. pc' \in [Chats!Actors -> Chats!Places]
      BY <1>t, <2>m, <2>1 DEF Chats!Incr, Chats!Goto, Chats!Places
    <3> QED BY <1>q, <1>t, <2>1, <3>4, <3>5 DEF Chats!Incr, Chats!chatVars
  <2>2. CASE Chats!Find(u)
    <3>1. mine' \in [Chats!Actors -> 0..Len(bots)] /\ pc' \in [Chats!Actors -> Chats!Places]
      BY <1>t, <2>m, <2>2 DEF Chats!Find, Chats!Goto, Chats!Places
    <3>2. UNCHANGED <<bots, chats, cRows, pending, lock, cCount, stored, loaded, batch, sweep, cNow, cCrashes>>
      BY <2>2 DEF Chats!Find, Chats!chatVars, Chats!countVars, Chats!timeVars
    <3>3. sweep' \in Chats!Sweeps'
      BY <1>t, <3>2 DEF Chats!Sweeps, Chats!Entries
    <3> QED BY <1>t, <3>1, <3>2, <3>3 DEF Chats!TypeOK
  <2>3. CASE Chats!TryLock(u)
    <3>1. lock' \in [Groups -> Chats!Actors \cup {Chats!Janitor, Chats!Free}] /\ pc' \in [Chats!Actors -> Chats!Places]
      BY <1>t, <2>m, <2>3 DEF Chats!TryLock, Chats!Lock, Chats!Goto, Chats!Places
    <3> QED BY <1>q, <1>t, <2>3, <3>1 DEF Chats!TryLock, Chats!chatVars, Chats!countVars
  <2>4. CASE Chats!Clear(u)
    <3>0. mine[u] \in 1..Len(bots)
      BY <1>t, <2>4, <2>m DEF Chats!Clear, Chats!DriversHaveBots
    <3>1. bots' = CrWindow(bots, mine[u], <<>>) /\ cRows' = [cRows EXCEPT ![Chats!Group(u)] = <<>>]
      BY <2>4 DEF Chats!Clear, Chats!ClearHistory, CrWindow
    <3>e. <<>> \in Seq(Mentions)
      OBVIOUS
    <3>a. bots' \in Seq(Chats!Bot)
      BY <1>b, <3>0, <3>1, <3>e, CrWindowed
    <3>2. bots' \in Seq(Chats!Bot) /\ Len(bots') = Len(bots)
      BY <1>b, <3>0, <3>1, <3>e, <3>a, CrWindowedLen
    <3>b. cRows' \in [Groups -> Seq(Mentions)]
      BY <1>r, <2>m, <3>1, <3>e
    <3>3. cRows' \in [Groups -> Seq(Mentions)] /\ pc' \in [Chats!Actors -> Chats!Places]
      BY <1>t, <2>m, <2>4, <3>b DEF Chats!Clear, Chats!Goto, Chats!Places
    <3>4. UNCHANGED <<chats, pending, lock, cCount, stored, loaded, mine, batch, sweep, cNow, cCrashes>>
      BY <2>4 DEF Chats!Clear, Chats!countVars, Chats!timeVars
    <3>5. chats' \in [Groups -> 0..Len(bots')] /\ mine' \in [Chats!Actors -> 0..Len(bots')] /\ sweep' \in Chats!Sweeps'
      BY <1>k, <1>t, <3>2, <3>4
    <3> QED BY <1>t, <3>2, <3>3, <3>4, <3>5 DEF Chats!TypeOK
  <2>5. CASE Chats!UnlockCleared(u)
    BY <1>q, <1>t, <2>5, <2>m DEF Chats!UnlockCleared, Chats!chatVars, Chats!countVars,
       Chats!Goto, Chats!Unlock, Chats!Places
  <2>6. CASE Chats!ResetCleared(u)
    BY <1>q, <1>t, <2>6, <2>m DEF Chats!ResetCleared, Chats!chatVars, Chats!Goto, Chats!Reset,
       Chats!Places
  <2> QED BY <1>2, <2>1, <2>2, <2>3, <2>4, <2>5, <2>6 DEF Chats!Ignore
<1>3. CASE Chats!Evicts
  <2>1. ASSUME UNCHANGED <<Chats!chatVars, Chats!countVars, Chats!procVars, Chats!timeVars>>, sweep' \in Chats!Sweeps,
               lock' \in [Groups -> Chats!Actors \cup {Chats!Janitor, Chats!Free}]
        PROVE  Chats!TypeOK' /\ Len(bots') >= Len(bots)
    <3>1. UNCHANGED <<bots, chats, cRows, pending, cCount, stored, loaded, pc, mine, batch, cNow, cCrashes>>
      BY <2>1 DEF Chats!chatVars, Chats!countVars, Chats!procVars, Chats!timeVars
    <3>2. sweep' \in Chats!Sweeps'
      BY <2>1, <3>1 DEF Chats!Sweeps, Chats!Entries
    <3> QED BY <1>t, <2>1, <3>1, <3>2 DEF Chats!TypeOK
  <2>2. \A i \in Chats!Entries : bots[i[2]].last \in 0..MaxTime
    <3> SUFFICES ASSUME NEW i \in Chats!Entries PROVE bots[i[2]].last \in 0..MaxTime
      OBVIOUS
    <3>1. bots[i[2]] \in Chats!Bot
      BY <1>t DEF Chats!Entries
    <3> QED BY <3>1 DEF Chats!Bot
  <2>3. Chats!Off \in Chats!Sweeps
    BY <1>0, <1>t DEF Chats!Off, Chats!Sweeps
  <2>4. CASE Chats!Sweep
    <3>1. {<<g, chats[g]>> : g \in {h \in Groups : chats[h] # 0}} \subseteq Chats!Entries
      BY <1>t DEF Chats!Entries
    <3>2. sweep' \in Chats!Sweeps
      BY <1>t, <2>3, <2>4, <3>1 DEF Chats!Sweep, Chats!Sweeping, Chats!Sweeps, Chats!Off
    <3> QED BY <1>t, <2>1, <2>4, <3>2 DEF Chats!Sweep, Chats!Sweeping
  <2>5. CASE Chats!Look
    <3>1. PICK i \in sweep.todo : \/ sweep' = [[sweep EXCEPT !.todo = @ \ {i}] EXCEPT !.at = "lock", !.group = i[1], !.bot = i[2], !.seen = bots[i[2]].last]
                                  \/ sweep' = [sweep EXCEPT !.todo = @ \ {i}]
      BY <2>5 DEF Chats!Look, Chats!Sweeping
    <3>2. i \in Chats!Entries /\ i[1] \in Groups /\ i[2] \in 0..Len(bots)
      BY <1>t DEF Chats!Sweeps, Chats!Entries
    <3>3. sweep' \in Chats!Sweeps
      BY <1>t, <2>2, <3>1, <3>2 DEF Chats!Sweeps
    <3> QED BY <1>t, <2>1, <2>5, <3>3 DEF Chats!Look, Chats!Sweeping
  <2>6. CASE Chats!Overflow
    <3>1. sweep' \in Chats!Sweeps
      <4>1. CASE sweep' = Chats!Off
        BY <2>3, <4>1
      <4>2. CASE \E keep \in SUBSET sweep.all : sweep' = [sweep EXCEPT !.full = TRUE, !.todo = sweep.all \ keep]
        BY <1>t, <4>2 DEF Chats!Sweeps
      <4> QED BY <2>6, <4>1, <4>2 DEF Chats!Overflow, Chats!Sweeping
    <3> QED BY <1>t, <2>1, <2>6, <3>1 DEF Chats!Overflow, Chats!Sweeping
  <2>7. CASE Chats!SweepEnds
    BY <1>t, <2>1, <2>3, <2>7 DEF Chats!SweepEnds, Chats!Sweeping
  <2>8. CASE Chats!LockToEvict
    <3>1. sweep' \in Chats!Sweeps /\ lock' \in [Groups -> Chats!Actors \cup {Chats!Janitor, Chats!Free}]
      BY <1>t, <2>8 DEF Chats!LockToEvict, Chats!Sweeping, Chats!Sweeps
    <3> QED BY <2>1, <2>8, <3>1 DEF Chats!LockToEvict, Chats!Sweeping
  <2>9. CASE Chats!Recheck
    <3>1. sweep' \in Chats!Sweeps
      BY <1>t, <2>9 DEF Chats!Recheck, Chats!Sweeping, Chats!Sweeps
    <3> QED BY <1>t, <2>1, <2>9, <3>1 DEF Chats!Recheck, Chats!Sweeping
  <2>10. CASE Chats!Delete
    <3>1. sweep' \in Chats!Sweeps
      BY <1>t, <2>10 DEF Chats!Delete, Chats!Sweeps
    <3>2. chats' \in [Groups -> 0..Len(bots)]
      <4>1. CASE chats' = chats
        BY <1>t, <4>1
      <4>2. CASE chats' = [chats EXCEPT ![sweep.group] = 0]
        <5>1. chats \in [Groups -> 0..Len(bots)] /\ 0 \in 0..Len(bots)
          BY <1>t
        <5> QED BY <4>2, <5>1
      <4> QED BY <2>10, <4>1, <4>2 DEF Chats!Delete
    <3>3. UNCHANGED <<bots, cRows, pending, lock, cCount, stored, loaded, pc, mine, batch, cNow, cCrashes>>
      BY <2>10 DEF Chats!Delete, Chats!countVars, Chats!procVars, Chats!timeVars
    <3>4. sweep' \in Chats!Sweeps'
      BY <3>1, <3>3 DEF Chats!Sweeps, Chats!Entries
    <3> QED BY <1>t, <3>2, <3>3, <3>4 DEF Chats!TypeOK
  <2>11. CASE Chats!UnlockEvicted
    <3>1. sweep' \in Chats!Sweeps /\ lock' \in [Groups -> Chats!Actors \cup {Chats!Janitor, Chats!Free}]
      BY <1>t, <2>11 DEF Chats!UnlockEvicted, Chats!Unlock, Chats!Sweeping, Chats!Sweeps
    <3> QED BY <2>1, <2>11, <3>1 DEF Chats!UnlockEvicted, Chats!Sweeping
  <2> QED BY <1>3, <2>4, <2>5, <2>6, <2>7, <2>8, <2>9, <2>10, <2>11 DEF Chats!Evicts
<1>4. CASE Chats!Tick
  <2>1. UNCHANGED <<bots, chats, cRows, pending, lock, cCount, stored, loaded, pc, mine, batch, sweep, cCrashes>>
    BY <1>4 DEF Chats!Tick, Chats!chatVars, Chats!countVars, Chats!procVars
  <2>2. sweep' \in Chats!Sweeps'
    BY <1>t, <2>1 DEF Chats!Sweeps, Chats!Entries
  <2>3. cNow' \in 0..MaxTime
    BY <1>0, <1>t, <1>4 DEF Chats!Tick
  <2> QED BY <1>t, <2>1, <2>2, <2>3 DEF Chats!TypeOK
<1>5. CASE Chats!Crash
  <2>1. sweep' \in Chats!Sweeps /\ chats' \in [Groups -> 0..Len(bots)]
    BY <1>0, <1>t, <1>5 DEF Chats!Crash, Chats!Off, Chats!Sweeps
  <2>2. /\ pending' \in [Groups -> Seq(Mentions)]
        /\ lock' \in [Groups -> Chats!Actors \cup {Chats!Janitor, Chats!Free}]
        /\ cCount' \in [Groups -> Nat] /\ loaded' \subseteq Groups
        /\ batch' \in [Chats!Actors -> Seq(Mentions)]
    BY <1>5 DEF Chats!Crash
  <2>3. pc' \in [Chats!Actors -> Chats!Places] /\ cCrashes' \in 0..MaxCrashes
    BY <1>0, <1>t, <1>5 DEF Chats!Crash, Chats!Places
  <2>4. UNCHANGED <<bots, cRows, stored, mine, cNow>>
    BY <1>5 DEF Chats!Crash
  <2>5. sweep' \in Chats!Sweeps'
    BY <2>1, <2>4 DEF Chats!Sweeps, Chats!Entries
  <2> QED BY <1>t, <2>1, <2>2, <2>3, <2>4, <2>5 DEF Chats!TypeOK
<1> QED BY <1>1, <1>2, <1>3, <1>4, <1>5 DEF Chats!Next

LEMMA CrLocks ==
  ASSUME CrAssumption, Chats!TypeOK, Chats!LocksAreHeld, Chats!SweepHasEntry, Chats!Next
  PROVE  Chats!LocksAreHeld' /\ Chats!SweepHasEntry'
<1>0. /\ \A a \in Chats!Actors : Chats!Group(a) \in Groups
      /\ Mentions \subseteq Chats!Actors /\ Chatter \subseteq Chats!Actors
      /\ Mentions \cap Chatter = {}
      /\ Chats!Actors = Mentions \cup Chatter
      /\ Chats!Janitor \notin Chats!Actors /\ Chats!Free \notin Chats!Actors
      /\ Chats!Janitor # Chats!Free
  BY DEF CrAssumption, Chats!ResidencyAssumption, Chats!Actors, Chats!Group, Chats!Janitor,
     Chats!Free
<1>t. /\ lock \in [Groups -> Chats!Actors \cup {Chats!Janitor, Chats!Free}]
      /\ pc \in [Chats!Actors -> Chats!Places] /\ sweep \in Chats!Sweeps
  BY DEF Chats!TypeOK
<1>l. /\ \A a \in Chats!Actors : Chats!Owns(a) <=> lock[Chats!Group(a)] = a
      /\ \A g \in Groups : lock[g] = Chats!Janitor <=> Chats!Evicting /\ sweep.group = g
  BY DEF Chats!LocksAreHeld
<1>a. ASSUME NEW a \in Chats!Actors, NEW p, Chats!Goto(a, p), UNCHANGED <<lock, sweep>>, Chats!Owns(a)' <=> Chats!Owns(a)
      PROVE  Chats!LocksAreHeld' /\ Chats!SweepHasEntry'
  <2>1. \A b \in Chats!Actors : Chats!Owns(b)' <=> Chats!Owns(b)
    BY <1>a, <1>t DEF Chats!Owns, Chats!Goto
  <2>2. Chats!Evicting' <=> Chats!Evicting
    BY <1>a DEF Chats!Evicting
  <2>3. Chats!SweepHasEntry'
    BY <1>a DEF Chats!SweepHasEntry
  <2> QED BY <1>a, <1>l, <2>1, <2>2, <2>3 DEF Chats!LocksAreHeld
<1>b. ASSUME NEW a \in Chats!Actors, NEW p, Chats!Goto(a, p), Chats!Lock(a), UNCHANGED sweep, Chats!Owns(a)'
      PROVE  Chats!LocksAreHeld' /\ Chats!SweepHasEntry'
  <2>1. \A b \in Chats!Actors : b # a => (Chats!Owns(b)' <=> Chats!Owns(b))
    BY <1>b, <1>t DEF Chats!Owns, Chats!Goto
  <2>2. Chats!Evicting' <=> Chats!Evicting
    BY <1>b DEF Chats!Evicting
  <2>3. Chats!SweepHasEntry'
    BY <1>b DEF Chats!SweepHasEntry
  <2>4. /\ lock[Chats!Group(a)] = Chats!Free /\ lock' = [lock EXCEPT ![Chats!Group(a)] = a]
        /\ Chats!Group(a) \in Groups
    BY <1>b, <1>0 DEF Chats!Lock
  <2>5. \A b \in Chats!Actors : Chats!Owns(b)' <=> lock'[Chats!Group(b)] = b
    BY <1>0, <1>b, <1>l, <1>t, <2>1, <2>4
  <2>6. \A g \in Groups : lock'[g] = Chats!Janitor <=> Chats!Evicting' /\ sweep'.group = g
    BY <1>0, <1>b, <1>l, <1>t, <2>2, <2>4
  <2> QED BY <2>3, <2>5, <2>6 DEF Chats!LocksAreHeld
<1>c. ASSUME NEW a \in Chats!Actors, NEW p, Chats!Goto(a, p), Chats!Unlock(Chats!Group(a)), UNCHANGED sweep, Chats!Owns(a), ~Chats!Owns(a)'
      PROVE  Chats!LocksAreHeld' /\ Chats!SweepHasEntry'
  <2>1. \A b \in Chats!Actors : b # a => (Chats!Owns(b)' <=> Chats!Owns(b))
    BY <1>c, <1>t DEF Chats!Owns, Chats!Goto
  <2>2. Chats!Evicting' <=> Chats!Evicting
    BY <1>c DEF Chats!Evicting
  <2>3. Chats!SweepHasEntry'
    BY <1>c DEF Chats!SweepHasEntry
  <2>4. /\ lock[Chats!Group(a)] = a /\ lock' = [lock EXCEPT ![Chats!Group(a)] = Chats!Free]
        /\ Chats!Group(a) \in Groups
    BY <1>c, <1>0, <1>l DEF Chats!Unlock
  <2>5. \A b \in Chats!Actors : Chats!Owns(b)' <=> lock'[Chats!Group(b)] = b
    BY <1>0, <1>c, <1>l, <1>t, <2>1, <2>4
  <2>6. \A g \in Groups : lock'[g] = Chats!Janitor <=> Chats!Evicting' /\ sweep'.group = g
    BY <1>0, <1>c, <1>l, <1>t, <2>2, <2>4
  <2> QED BY <2>3, <2>5, <2>6 DEF Chats!LocksAreHeld
<1>d. ASSUME UNCHANGED <<lock, pc, sweep>> PROVE Chats!LocksAreHeld' /\ Chats!SweepHasEntry'
  <2>1. \A b \in Chats!Actors : Chats!Owns(b)' <=> Chats!Owns(b)
    BY <1>d DEF Chats!Owns
  <2>2. Chats!Evicting' <=> Chats!Evicting
    BY <1>d DEF Chats!Evicting
  <2>3. Chats!SweepHasEntry'
    BY <1>d DEF Chats!SweepHasEntry
  <2> QED BY <1>d, <1>l, <2>1, <2>2, <2>3 DEF Chats!LocksAreHeld
\* The janitor moves, within or outside of the places where it has the lock.
<1>e. ASSUME UNCHANGED <<lock, pc>>, Chats!SweepHasEntry',
             \A g \in Groups : (Chats!Evicting' /\ sweep'.group = g) <=> (Chats!Evicting /\ sweep.group = g)
      PROVE  Chats!LocksAreHeld' /\ Chats!SweepHasEntry'
  <2>1. \A b \in Chats!Actors : Chats!Owns(b)' <=> Chats!Owns(b)
    BY <1>e DEF Chats!Owns
  <2> QED BY <1>e, <1>l, <2>1 DEF Chats!LocksAreHeld
<1>1. ASSUME NEW m \in Mentions, Chats!Handle(m)
      PROVE  Chats!LocksAreHeld' /\ Chats!SweepHasEntry'
  <2>m. m \in Chats!Actors /\ m \in Mentions /\ pc[m] \in Chats!Places
    BY <1>0, <1>t
  <2>p. \A p : Chats!Goto(m, p) => pc'[m] = p
    BY <1>t, <2>m DEF Chats!Goto
  <2>1. CASE Chats!Begin(m)
    BY <1>b, <2>1, <2>m, <2>p DEF Chats!Begin, Chats!Owns
  <2>2. CASE Chats!Refused(m)
    BY <1>a, <2>2, <2>m, <2>p DEF Chats!Refused, Chats!Owns
  <2>3. CASE Chats!Queue(m)
    BY <1>a, <2>3, <2>m, <2>p DEF Chats!Queue, Chats!Owns
  <2>4. CASE Chats!TouchQueued(m)
    BY <1>a, <2>4, <2>m, <2>p DEF Chats!TouchQueued, Chats!Owns
  <2>5. CASE Chats!GetChat(m)
    BY <1>a, <2>5, <2>m, <2>p DEF Chats!GetChat, Chats!Owns
  <2>6. CASE Chats!ApplyClear(m)
    BY <1>a, <2>6, <2>m, <2>p DEF Chats!ApplyClear, Chats!Owns
  <2>7. CASE Chats!ApplyReset(m)
    BY <1>a, <2>7, <2>m, <2>p DEF Chats!ApplyReset, Chats!Owns
  <2>8. CASE Chats!Drain(m)
    BY <1>a, <2>8, <2>m, <2>p DEF Chats!Drain, Chats!Owns
  <2>9. CASE Chats!Turn(m)
    BY <1>a, <2>9, <2>m, <2>p DEF Chats!Turn, Chats!Owns
  <2>10. CASE Chats!Leave(m)
    BY <1>c, <2>10, <2>m, <2>p DEF Chats!Leave, Chats!Owns
  <2> QED BY <1>1, <2>1, <2>2, <2>3, <2>4, <2>5, <2>6, <2>7, <2>8, <2>9, <2>10 DEF Chats!Handle
<1>2. ASSUME NEW u \in Chatter, Chats!Ignore(u)
      PROVE  Chats!LocksAreHeld' /\ Chats!SweepHasEntry'
  <2>m. u \in Chats!Actors /\ u \notin Mentions /\ pc[u] \in Chats!Places
    BY <1>0, <1>t
  <2>p. \A p : Chats!Goto(u, p) => pc'[u] = p
    BY <1>t, <2>m DEF Chats!Goto
  <2>1. CASE Chats!Incr(u)
    BY <1>a, <2>1, <2>m, <2>p DEF Chats!Incr, Chats!Owns
  <2>2. CASE Chats!Find(u)
    BY <1>a, <2>2, <2>m, <2>p DEF Chats!Find, Chats!Owns
  <2>3. CASE Chats!TryLock(u)
    <3>1. CASE Chats!Lock(u) /\ Chats!Goto(u, "clear")
      BY <1>b, <2>3, <2>m, <2>p, <3>1 DEF Chats!TryLock, Chats!Owns
    <3>2. CASE lock[Chats!Group(u)] # Chats!Free /\ Chats!Goto(u, "done") /\ UNCHANGED lock
      BY <1>a, <2>3, <2>m, <2>p, <3>2 DEF Chats!TryLock, Chats!Owns
    <3> QED BY <2>3, <3>1, <3>2 DEF Chats!TryLock
  <2>4. CASE Chats!Clear(u)
    BY <1>a, <2>4, <2>m, <2>p DEF Chats!Clear, Chats!Owns
  <2>5. CASE Chats!UnlockCleared(u)
    BY <1>c, <2>5, <2>m, <2>p DEF Chats!UnlockCleared, Chats!Owns
  <2>6. CASE Chats!ResetCleared(u)
    BY <1>a, <2>6, <2>m, <2>p DEF Chats!ResetCleared, Chats!Owns
  <2> QED BY <1>2, <2>1, <2>2, <2>3, <2>4, <2>5, <2>6 DEF Chats!Ignore
<1>3. CASE Chats!Evicts
  <2>s. UNCHANGED pc
    BY <1>3 DEF Chats!Evicts, Chats!Sweep, Chats!Look, Chats!Overflow, Chats!SweepEnds,
       Chats!LockToEvict, Chats!Recheck, Chats!Delete, Chats!UnlockEvicted, Chats!Sweeping,
       Chats!procVars
  <2>1. CASE Chats!Sweep \/ Chats!SweepEnds \/ Chats!Overflow
    <3>1. UNCHANGED lock /\ sweep.at \in {"off", "look"} /\ sweep'.at \in {"off", "look"}
      <4>1. CASE Chats!Sweep
        BY <4>1 DEF Chats!Sweep, Chats!Sweeping, Chats!Off
      <4>2. CASE Chats!SweepEnds
        BY <4>2 DEF Chats!SweepEnds, Chats!Sweeping, Chats!Off
      <4>3. CASE Chats!Overflow
        <5>1. \/ sweep' = Chats!Off
              \/ \E keep : sweep' = [sweep EXCEPT !.full = TRUE, !.todo = sweep.all \ keep]
          BY <4>3 DEF Chats!Overflow, Chats!Sweeping
        <5>2. sweep'.at \in {"off", "look"}
          <6>1. sweep.at = "look" /\ sweep \in Chats!Sweeps
            BY <1>t, <4>3 DEF Chats!Overflow
          <6>2. CASE sweep' = Chats!Off
            BY <6>2 DEF Chats!Off
          <6>3. ASSUME NEW keep, sweep' = [sweep EXCEPT !.full = TRUE, !.todo = sweep.all \ keep]
                PROVE sweep'.at \in {"off", "look"}
            BY <6>1, <6>3 DEF Chats!Sweeps
          <6> QED BY <5>1, <6>2, <6>3
        <5> QED BY <4>3, <5>2 DEF Chats!Overflow
      <4> QED BY <2>1, <4>1, <4>2, <4>3
    <3>2. ~Chats!Evicting /\ ~Chats!Evicting' /\ Chats!SweepHasEntry'
      BY <3>1 DEF Chats!Evicting, Chats!SweepHasEntry
    <3> QED BY <1>e, <2>s, <3>1, <3>2
  <2>2. CASE Chats!Look
    <3>1. PICK i \in sweep.todo : \/ sweep' = [[sweep EXCEPT !.todo = @ \ {i}] EXCEPT !.at = "lock", !.group = i[1], !.bot = i[2], !.seen = bots[i[2]].last]
                                  \/ sweep' = [sweep EXCEPT !.todo = @ \ {i}]
      BY <2>2 DEF Chats!Look, Chats!Sweeping
    <3>2. i \in Chats!Entries /\ i[1] \in Groups /\ i[2] # 0
      BY <1>t DEF Chats!Sweeps, Chats!Entries
    <3>3. sweep.at = "look" /\ UNCHANGED lock
      BY <2>2 DEF Chats!Look
    <3>4. sweep'.at \in {"look", "lock"} /\ (sweep'.at = "lock" => sweep'.group = i[1] /\ sweep'.bot = i[2])
      BY <1>t, <3>1, <3>3 DEF Chats!Sweeps
    <3>5. ~Chats!Evicting /\ ~Chats!Evicting' /\ Chats!SweepHasEntry'
      BY <3>2, <3>3, <3>4 DEF Chats!Evicting, Chats!SweepHasEntry
    <3> QED BY <1>e, <2>s, <3>3, <3>5
  <2>3. CASE Chats!LockToEvict
    <3>0. ~Chats!Evicting /\ sweep.at = "lock" /\ sweep.group \in Groups /\ sweep.bot # 0
      BY <2>3 DEF Chats!LockToEvict, Chats!Evicting, Chats!SweepHasEntry
    <3>1. CASE lock[sweep.group] = Chats!Free
      <4>1. lock' = [lock EXCEPT ![sweep.group] = Chats!Janitor] /\ sweep' = [sweep EXCEPT !.at = "check"]
        BY <2>3, <3>1 DEF Chats!LockToEvict, Chats!Sweeping
      <4>2. sweep'.at = "check" /\ sweep'.group = sweep.group /\ sweep'.bot = sweep.bot
        BY <1>t, <4>1 DEF Chats!Sweeps
      <4>3. Chats!SweepHasEntry' /\ Chats!Evicting'
        BY <3>0, <4>2 DEF Chats!SweepHasEntry, Chats!Evicting
      <4>4. \A b \in Chats!Actors : Chats!Owns(b)' <=> Chats!Owns(b)
        BY <2>s DEF Chats!Owns
      <4>5. \A b \in Chats!Actors : Chats!Owns(b) <=> lock'[Chats!Group(b)] = b
        BY <1>0, <1>l, <1>t, <3>0, <3>1, <4>1
      <4>6. \A g \in Groups : lock'[g] = Chats!Janitor <=> sweep'.group = g
        BY <1>0, <1>l, <1>t, <3>0, <3>1, <4>1, <4>2
      <4> QED BY <4>3, <4>4, <4>5, <4>6 DEF Chats!LocksAreHeld
    <3>2. CASE lock[sweep.group] # Chats!Free
      <4>1. UNCHANGED lock /\ sweep'.at = "look"
        BY <1>t, <2>3, <3>2 DEF Chats!LockToEvict, Chats!Sweeping, Chats!Sweeps
      <4>2. ~Chats!Evicting' /\ Chats!SweepHasEntry'
        BY <4>1 DEF Chats!Evicting, Chats!SweepHasEntry
      <4> QED BY <1>e, <2>s, <3>0, <4>1, <4>2
    <3> QED BY <3>1, <3>2
  <2>4. CASE Chats!Recheck \/ Chats!Delete
    <3>1. UNCHANGED lock /\ sweep.at \in {"check", "delete"} /\ sweep'.at \in {"delete", "unlock"}
          /\ sweep'.group = sweep.group /\ sweep'.bot = sweep.bot
      BY <1>t, <2>4 DEF Chats!Recheck, Chats!Delete, Chats!Sweeping, Chats!Sweeps
    <3>2. Chats!Evicting /\ Chats!Evicting' /\ Chats!SweepHasEntry'
      BY <3>1 DEF Chats!Evicting, Chats!SweepHasEntry
    <3> QED BY <1>e, <2>s, <3>1, <3>2
  <2>5. CASE Chats!UnlockEvicted
    <3>0. Chats!Evicting /\ sweep.group \in Groups
      BY <2>5 DEF Chats!UnlockEvicted, Chats!Evicting, Chats!SweepHasEntry
    <3>1. lock' = [lock EXCEPT ![sweep.group] = Chats!Free] /\ sweep'.at = "look"
      BY <1>t, <2>5 DEF Chats!UnlockEvicted, Chats!Unlock, Chats!Sweeping, Chats!Sweeps
    <3>2. Chats!SweepHasEntry' /\ ~Chats!Evicting'
      BY <3>1 DEF Chats!SweepHasEntry, Chats!Evicting
    <3>3. \A b \in Chats!Actors : Chats!Owns(b)' <=> Chats!Owns(b)
      BY <2>s DEF Chats!Owns
    <3>a. lock[sweep.group] = Chats!Janitor
      BY <1>l, <3>0
    <3>4. \A b \in Chats!Actors : Chats!Owns(b) <=> lock'[Chats!Group(b)] = b
      BY <1>0, <1>l, <1>t, <3>0, <3>1, <3>a
    <3>5. \A g \in Groups : lock'[g] # Chats!Janitor
      BY <1>0, <1>l, <1>t, <3>0, <3>1
    <3> QED BY <3>2, <3>3, <3>4, <3>5 DEF Chats!LocksAreHeld
  <2> QED BY <1>3, <2>1, <2>2, <2>3, <2>4, <2>5 DEF Chats!Evicts
<1>4. CASE Chats!Tick
  BY <1>d, <1>4 DEF Chats!Tick, Chats!procVars
<1>5. CASE Chats!Crash
  <2>1. /\ (\A g \in Groups : lock'[g] = Chats!Free) /\ sweep' = Chats!Off
        /\ \A a \in Chats!Actors : pc'[a] \in {"new", "done"}
    BY <1>5 DEF Chats!Crash
  <2>2. (\A a \in Chats!Actors : ~Chats!Owns(a)') /\ ~Chats!Evicting' /\ Chats!SweepHasEntry'
    <3>1. sweep'.at = "off"
      BY <2>1 DEF Chats!Off
    <3>2. ASSUME NEW a \in Chats!Actors PROVE ~Chats!Owns(a)'
      BY <2>1 DEF Chats!Owns
    <3> QED BY <3>1, <3>2 DEF Chats!Evicting, Chats!SweepHasEntry
  <2> QED BY <1>0, <2>1, <2>2, <1>5 DEF Chats!LocksAreHeld, Chats!Crash
<1> QED BY <1>1, <1>2, <1>3, <1>4, <1>5 DEF Chats!Next

CrInDriving == {"apply", "reset", "drain", "turn", "leave"}
LEMMA CrDrivers ==
  ASSUME CrAssumption, Chats!TypeOK, Chats!LocksAreHeld, Chats!SweepHasEntry, Chats!DriversHaveBots, Chats!Next
  PROVE  Chats!DriversHaveBots'
<1>0. /\ \A a \in Chats!Actors : Chats!Group(a) \in Groups
      /\ Mentions \subseteq Chats!Actors /\ Chatter \subseteq Chats!Actors
      /\ Mentions \cap Chatter = {}
      /\ Chats!Janitor \notin Chats!Actors
  BY DEF CrAssumption, Chats!ResidencyAssumption, Chats!Actors, Chats!Group, Chats!Janitor,
     Chats!Free
<1>t. /\ pc \in [Chats!Actors -> Chats!Places] /\ mine \in [Chats!Actors -> 0..Len(bots)]
      /\ chats \in [Groups -> 0..Len(bots)] /\ Len(bots) \in Nat
  BY DEF Chats!TypeOK
<1>d. /\ \A m \in Mentions : pc[m] \in CrInDriving => mine[m] # 0 /\ chats[Chats!Group(m)] = mine[m]
      /\ \A u \in Chatter : pc[u] \in {"found", "clear"} => mine[u] # 0
  BY DEF Chats!DriversHaveBots, Chats!Drives, CrInDriving
<1>l. \A m \in Mentions : pc[m] \in CrInDriving \/ pc[m] = "locked" => lock[Chats!Group(m)] = m
  BY <1>0 DEF Chats!LocksAreHeld, Chats!Owns, CrInDriving
<1>g. ASSUME \A m \in Mentions : pc'[m] \in CrInDriving => mine'[m] # 0 /\ chats'[Chats!Group(m)] = mine'[m],
             \A u \in Chatter : pc'[u] \in {"found", "clear"} => mine'[u] # 0
      PROVE  Chats!DriversHaveBots'
  BY <1>g DEF Chats!DriversHaveBots, Chats!Drives, CrInDriving
\* One that goes on, with the ChatBot it had.
<1>a. ASSUME NEW m \in Mentions, NEW p, Chats!Goto(m, p), UNCHANGED <<chats, mine>>,
             p \in CrInDriving => pc[m] \in CrInDriving
      PROVE  Chats!DriversHaveBots'
  <2>1. \A o \in Chats!Actors : pc'[o] = IF o = m THEN p ELSE pc[o]
    BY <1>0, <1>t, <1>a DEF Chats!Goto
  <2> QED BY <1>0, <1>a, <1>d, <1>g, <2>1
<1>b. ASSUME NEW u \in Chatter, NEW p, Chats!Goto(u, p), UNCHANGED <<chats, mine>>,
             p \in {"found", "clear"} => pc[u] \in {"found", "clear"}
      PROVE  Chats!DriversHaveBots'
  <2>1. \A o \in Chats!Actors : pc'[o] = IF o = u THEN p ELSE pc[o]
    BY <1>0, <1>t, <1>b DEF Chats!Goto
  <2> QED BY <1>0, <1>b, <1>d, <1>g, <2>1
<1>1. ASSUME NEW m \in Mentions, Chats!Handle(m) PROVE Chats!DriversHaveBots'
  <2>1. CASE Chats!Begin(m)
    BY <1>a, <2>1 DEF Chats!Begin, CrInDriving
  <2>2. CASE Chats!Refused(m)
    BY <1>a, <2>2 DEF Chats!Refused, Chats!chatVars, CrInDriving
  <2>3. CASE Chats!Queue(m)
    BY <1>a, <2>3 DEF Chats!Queue, CrInDriving
  <2>4. CASE Chats!TouchQueued(m)
    BY <1>a, <2>4 DEF Chats!TouchQueued, CrInDriving
  <2>5. CASE Chats!GetChat(m)
    <3>1. \A o \in Chats!Actors : pc'[o] = IF o = m THEN "apply" ELSE pc[o]
      BY <1>0, <1>t, <2>5 DEF Chats!GetChat, Chats!Goto
    <3>2. /\ chats' = IF chats[Chats!Group(m)] # 0 THEN chats ELSE [chats EXCEPT ![Chats!Group(m)] = Len(bots) + 1]
          /\ mine' = [mine EXCEPT ![m] = chats'[Chats!Group(m)]] /\ pc[m] = "locked"
      BY <2>5 DEF Chats!GetChat
    <3>3. chats'[Chats!Group(m)] # 0 /\ \A g \in Groups : g # Chats!Group(m) => chats'[g] = chats[g]
      BY <1>0, <1>t, <3>2
    <3>4. \A o \in Chats!Actors : mine'[o] = IF o = m THEN chats'[Chats!Group(m)] ELSE mine[o]
      BY <1>0, <1>t, <3>2
    <3>5. ASSUME NEW o \in Mentions, o # m, pc'[o] \in CrInDriving
          PROVE  mine'[o] # 0 /\ chats'[Chats!Group(o)] = mine'[o]
      <4>1. pc[o] \in CrInDriving /\ Chats!Group(o) # Chats!Group(m)
        BY <1>0, <1>l, <3>1, <3>2, <3>5
      <4> QED BY <1>0, <1>d, <3>3, <3>4, <3>5, <4>1
    <3>6. mine'[m] # 0 /\ chats'[Chats!Group(m)] = mine'[m]
      BY <1>0, <3>3, <3>4
    <3>7. \A u \in Chatter : pc'[u] \in {"found", "clear"} => mine'[u] # 0
      BY <1>0, <1>d, <3>1, <3>4
    <3> QED BY <1>g, <3>5, <3>6, <3>7
  <2>6. CASE Chats!ApplyClear(m)
    BY <1>a, <2>6 DEF Chats!ApplyClear, CrInDriving
  <2>7. CASE Chats!ApplyReset(m)
    BY <1>a, <2>7 DEF Chats!ApplyReset, Chats!chatVars, CrInDriving
  <2>8. CASE Chats!Drain(m)
    BY <1>a, <2>8 DEF Chats!Drain, CrInDriving
  <2>9. CASE Chats!Turn(m)
    BY <1>a, <2>9 DEF Chats!Turn, CrInDriving
  <2>10. CASE Chats!Leave(m)
    BY <1>a, <2>10 DEF Chats!Leave, Chats!chatVars, CrInDriving
  <2> QED BY <1>1, <2>1, <2>2, <2>3, <2>4, <2>5, <2>6, <2>7, <2>8, <2>9, <2>10 DEF Chats!Handle
<1>2. ASSUME NEW u \in Chatter, Chats!Ignore(u) PROVE Chats!DriversHaveBots'
  <2>1. CASE Chats!Incr(u)
    BY <1>b, <2>1 DEF Chats!Incr, Chats!chatVars
  <2>2. CASE Chats!Find(u)
    <3>1. \A o \in Chats!Actors : mine'[o] = IF o = u THEN chats[Chats!Group(u)] ELSE mine[o]
      BY <1>0, <1>t, <2>2 DEF Chats!Find
    <3>2. \A o \in Chats!Actors : pc'[o] = IF o = u THEN IF mine'[u] = 0 THEN "done" ELSE "found" ELSE pc[o]
      BY <1>0, <1>t, <2>2 DEF Chats!Find, Chats!Goto
    <3>3. UNCHANGED chats
      BY <2>2 DEF Chats!Find, Chats!chatVars
    <3> QED BY <1>0, <1>d, <1>g, <3>1, <3>2, <3>3
  <2>3. CASE Chats!TryLock(u)
    BY <1>b, <2>3 DEF Chats!TryLock, Chats!chatVars
  <2>4. CASE Chats!Clear(u)
    BY <1>b, <2>4 DEF Chats!Clear
  <2>5. CASE Chats!UnlockCleared(u)
    BY <1>b, <2>5 DEF Chats!UnlockCleared, Chats!chatVars
  <2>6. CASE Chats!ResetCleared(u)
    BY <1>b, <2>6 DEF Chats!ResetCleared, Chats!chatVars
  <2> QED BY <1>2, <2>1, <2>2, <2>3, <2>4, <2>5, <2>6 DEF Chats!Ignore
<1>3. CASE Chats!Evicts
  <2>s. UNCHANGED <<pc, mine>>
    BY <1>3 DEF Chats!Evicts, Chats!Sweep, Chats!Look, Chats!Overflow, Chats!SweepEnds,
       Chats!LockToEvict, Chats!Recheck, Chats!Delete, Chats!UnlockEvicted, Chats!Sweeping,
       Chats!procVars
  <2>1. CASE Chats!Delete
    <3>1. lock[sweep.group] = Chats!Janitor
      BY <2>1 DEF Chats!Delete, Chats!LocksAreHeld, Chats!SweepHasEntry, Chats!Evicting
    <3>2. ASSUME NEW m \in Mentions, pc[m] \in CrInDriving PROVE Chats!Group(m) # sweep.group
      BY <1>0, <1>l, <3>1, <3>2
    <3>3. \A g \in Groups : g # sweep.group => chats'[g] = chats[g]
      BY <1>t, <2>1 DEF Chats!Delete
    <3> QED BY <1>0, <1>d, <1>g, <2>s, <3>2, <3>3
  <2>2. CASE ~Chats!Delete
    <3>1. UNCHANGED chats
      BY <1>3, <2>2 DEF Chats!Evicts, Chats!Sweep, Chats!Look, Chats!Overflow, Chats!SweepEnds,
         Chats!LockToEvict, Chats!Recheck, Chats!UnlockEvicted, Chats!Sweeping, Chats!chatVars
    <3> QED BY <1>d, <1>g, <2>s, <3>1
  <2> QED BY <2>1, <2>2
<1>4. CASE Chats!Tick
  BY <1>4, <1>d, <1>g DEF Chats!Tick, Chats!procVars, Chats!chatVars
<1>5. CASE Chats!Crash
  <2>1. \A a \in Chats!Actors : pc'[a] \in {"new", "done"}
    BY <1>5 DEF Chats!Crash
  <2> QED BY <1>0, <1>g, <2>1 DEF CrInDriving
<1> QED BY <1>1, <1>2, <1>3, <1>4, <1>5 DEF Chats!Next

LEMMA CrWindows ==
  ASSUME CrAssumption, Chats!TypeOK, Chats!LocksAreHeld, Chats!SweepHasEntry, Chats!DriversHaveBots,
         Chats!NoStaleClear, Chats!WindowsAreOwn, Chats!RowsAreWindow, Chats!Next
  PROVE  Chats!WindowsAreOwn' /\ Chats!RowsAreWindow'
<1>0. /\ \A a \in Chats!Actors : Chats!Group(a) \in Groups
      /\ Mentions \subseteq Chats!Actors /\ Chatter \subseteq Chats!Actors
      /\ Mentions \cap Chatter = {}
      /\ Threshold \in Nat
  BY DEF CrAssumption, Chats!ResidencyAssumption, Chats!Actors, Chats!Group
<1>t. /\ pc \in [Chats!Actors -> Chats!Places] /\ mine \in [Chats!Actors -> 0..Len(bots)]
      /\ chats \in [Groups -> 0..Len(bots)] /\ Len(bots) \in Nat
      /\ cRows \in [Groups -> Seq(Mentions)] /\ batch \in [Chats!Actors -> Seq(Mentions)]
  BY DEF Chats!TypeOK
<1>b. bots \in Seq(Chats!Bot)
  BY DEF Chats!TypeOK
<1>1. /\ \A g, h \in Groups : chats[g] # 0 /\ chats[g] = chats[h] => g = h
      /\ MaxIdle + MaxSessions = 0 => sweep = Chats!Off
      /\ \A u \in Chatter : /\ Threshold = 0 => pc[u] = "new"
                            /\ pc[u] \in {"found", "clear"} => chats[Chats!Group(u)] = mine[u]
  BY DEF Chats!WindowsAreOwn
<1>2. \A g \in Groups : chats[g] # 0 => bots[chats[g]].window = cRows[g]
  BY DEF Chats!RowsAreWindow
<1>3. /\ \A m \in Mentions : pc[m] \in CrInDriving => mine[m] # 0 /\ chats[Chats!Group(m)] = mine[m]
      /\ \A u \in Chatter : pc[u] \in {"found", "clear"} => mine[u] # 0
  BY DEF Chats!DriversHaveBots, Chats!Drives, CrInDriving
\* Steps that change no window, and steps that change one with its rows.
<1>k. ASSUME UNCHANGED <<chats, cRows>>, CrKept PROVE Chats!RowsAreWindow'
  <2> SUFFICES ASSUME NEW g \in Groups, chats'[g] # 0 PROVE bots'[chats'[g]].window = cRows'[g]
    BY DEF Chats!RowsAreWindow
  <2>1. chats[g] \in 1..Len(bots)
    BY <1>k, <1>t
  <2> QED BY <1>k, <1>2, <2>1 DEF CrKept
<1>s. ASSUME UNCHANGED <<chats, cRows, bots>> PROVE Chats!RowsAreWindow'
  BY <1>s, <1>2 DEF Chats!RowsAreWindow
<1>w. ASSUME NEW g \in Groups, chats[g] # 0, NEW w \in Seq(Mentions), UNCHANGED chats,
             bots' = CrWindow(bots, chats[g], w), cRows' = [cRows EXCEPT ![g] = w]
      PROVE  Chats!RowsAreWindow'
  <2> SUFFICES ASSUME NEW h \in Groups, chats'[h] # 0 PROVE bots'[chats'[h]].window = cRows'[h]
    BY DEF Chats!RowsAreWindow
  <2>1. chats[g] \in 1..Len(bots) /\ chats[h] \in 1..Len(bots) /\ chats'[h] = chats[h]
    BY <1>w, <1>t
  <2>2. bots'[chats[h]].window = IF chats[h] = chats[g] THEN w ELSE bots[chats[h]].window
    BY <1>b, <1>w, <2>1, CrWindowedAt
  <2>3. cRows'[h] = IF h = g THEN w ELSE cRows[h]
    BY <1>t, <1>w
  <2> QED BY <1>1, <1>2, <1>w, <2>1, <2>2, <2>3
\* What concerns only mentions.
<1>m. ASSUME NEW m \in Mentions, NEW p, Chats!Goto(m, p), UNCHANGED <<chats, sweep>>,
             \A u \in Chatter : mine'[u] = mine[u]
      PROVE  Chats!WindowsAreOwn'
  <2>1. \A u \in Chatter : pc'[u] = pc[u]
    BY <1>0, <1>t, <1>m DEF Chats!Goto
  <2> QED BY <1>1, <1>m, <2>1 DEF Chats!WindowsAreOwn
<1>u. ASSUME NEW u \in Chatter, NEW p, Chats!Goto(u, p), UNCHANGED <<chats, sweep, mine>>,
             Threshold # 0, p \in {"found", "clear"} => pc[u] \in {"found", "clear"}
      PROVE  Chats!WindowsAreOwn'
  <2>1. \A v \in Chatter : pc'[v] = IF v = u THEN p ELSE pc[v]
    BY <1>0, <1>t, <1>u DEF Chats!Goto
  <2> QED BY <1>1, <1>u, <2>1 DEF Chats!WindowsAreOwn
<1>4. ASSUME NEW m \in Mentions, Chats!Handle(m)
      PROVE  Chats!WindowsAreOwn' /\ Chats!RowsAreWindow'
  <2>m. m \in Chats!Actors /\ Chats!Group(m) \in Groups
    BY <1>0
  <2>1. CASE Chats!Begin(m)
    <3>1. CrKept
      BY <2>1, <2>m, CrTouches DEF Chats!Begin
    <3> QED BY <1>k, <1>m, <2>1, <3>1 DEF Chats!Begin
  <2>2. CASE Chats!Refused(m)
    BY <1>s, <1>m, <2>2 DEF Chats!Refused, Chats!chatVars
  <2>3. CASE Chats!Queue(m)
    BY <1>s, <1>m, <2>3 DEF Chats!Queue
  <2>4. CASE Chats!TouchQueued(m)
    <3>1. CrKept
      BY <2>4, <2>m, CrTouches DEF Chats!TouchQueued
    <3> QED BY <1>k, <1>m, <2>4, <3>1 DEF Chats!TouchQueued
  <2>5. CASE Chats!GetChat(m)
    <3>0. /\ \A u \in Chatter : mine'[u] = mine[u] /\ pc'[u] = pc[u]
          /\ UNCHANGED <<cRows, sweep>>
      BY <1>0, <1>t, <2>5 DEF Chats!GetChat, Chats!Goto
    <3>1. CASE chats[Chats!Group(m)] # 0
      <4>1. UNCHANGED chats /\ bots' = Chats!Touched(Chats!Group(m)) /\ Chats!Goto(m, "apply")
        BY <2>5, <3>1 DEF Chats!GetChat
      <4>2. CrKept
        BY <2>m, <4>1, CrTouches
      <4> QED BY <1>k, <1>m, <3>0, <4>1, <4>2
    <3>2. CASE chats[Chats!Group(m)] = 0
      <4>0. [window |-> cRows[Chats!Group(m)], last |-> cNow] \in Chats!Bot
        BY <1>t, <2>m DEF Chats!Bot, Chats!TypeOK
      <4>1. /\ bots' = Append(bots, [window |-> cRows[Chats!Group(m)], last |-> cNow])
            /\ chats' = [chats EXCEPT ![Chats!Group(m)] = Len(bots) + 1]
        BY <2>5, <3>2 DEF Chats!GetChat
      <4>2. \A g \in Groups : chats'[g] = IF g = Chats!Group(m) THEN Len(bots) + 1 ELSE chats[g]
        BY <1>t, <4>1
      <4>3. /\ \A j \in 1..Len(bots) : bots'[j] = bots[j]
            /\ bots'[Len(bots) + 1] = [window |-> cRows[Chats!Group(m)], last |-> cNow]
        BY <1>b, <4>0, <4>1
      <4>4. \A g, h \in Groups : chats'[g] # 0 /\ chats'[g] = chats'[h] => g = h
        BY <1>1, <1>t, <4>2
      <4>5. \A u \in Chatter : pc[u] \in {"found", "clear"} => chats'[Chats!Group(u)] = mine[u]
        BY <1>0, <1>1, <1>3, <3>2, <4>2
      <4>6. Chats!WindowsAreOwn'
        BY <1>1, <3>0, <4>4, <4>5 DEF Chats!WindowsAreOwn
      <4>7. ASSUME NEW g \in Groups, chats'[g] # 0 PROVE bots'[chats'[g]].window = cRows'[g]
        <5>1. CASE g = Chats!Group(m)
          BY <3>0, <4>2, <4>3, <5>1
        <5>2. CASE g # Chats!Group(m)
          <6>1. chats'[g] = chats[g] /\ chats[g] \in 1..Len(bots)
            BY <1>t, <4>2, <4>7, <5>2
          <6> QED BY <1>2, <3>0, <4>3, <4>7, <6>1
        <5> QED BY <5>1, <5>2
      <4> QED BY <4>6, <4>7 DEF Chats!RowsAreWindow
    <3> QED BY <3>1, <3>2
  <2>6. CASE Chats!ApplyClear(m)
    <3>1. Chats!WindowsAreOwn'
      BY <1>m, <2>6 DEF Chats!ApplyClear
    <3>2. CASE Threshold > 0 /\ cCount'[Chats!Group(m)] >= Threshold
      <4>1. bots' = CrWindow(bots, chats[Chats!Group(m)], <<>>) /\ cRows' = [cRows EXCEPT ![Chats!Group(m)] = <<>>]
            /\ UNCHANGED chats /\ chats[Chats!Group(m)] # 0
        BY <1>3, <2>6, <3>2 DEF Chats!ApplyClear, Chats!ClearHistory, CrWindow, CrInDriving
      <4>2. <<>> \in Seq(Mentions)
        OBVIOUS
      <4> QED BY <1>w, <2>m, <3>1, <4>1, <4>2
    <3>3. CASE ~(Threshold > 0 /\ cCount'[Chats!Group(m)] >= Threshold)
      <4>1. UNCHANGED <<chats, cRows, bots>>
        BY <2>6, <3>3 DEF Chats!ApplyClear
      <4> QED BY <1>s, <3>1, <4>1
    <3> QED BY <3>2, <3>3
  <2>7. CASE Chats!ApplyReset(m)
    BY <1>s, <1>m, <2>7 DEF Chats!ApplyReset, Chats!chatVars
  <2>8. CASE Chats!Drain(m)
    BY <1>s, <1>m, <2>8 DEF Chats!Drain
  <2>9. CASE Chats!Turn(m)
    <3>1. Chats!WindowsAreOwn'
      BY <1>m, <2>9 DEF Chats!Turn
    <3>2. mine[m] # 0 /\ chats[Chats!Group(m)] = mine[m]
      BY <1>3, <2>9 DEF Chats!Turn, CrInDriving
    <3>3. bots[mine[m]].window = cRows[Chats!Group(m)] /\ cRows[Chats!Group(m)] \o batch[m] \in Seq(Mentions)
      BY <1>2, <1>t, <2>m, <3>2
    <3>4. /\ bots' = CrWindow(bots, mine[m], bots[mine[m]].window \o batch[m])
          /\ UNCHANGED chats
          /\ cRows' = [cRows EXCEPT ![Chats!Group(m)] = cRows[Chats!Group(m)] \o batch[m]]
      BY <2>9 DEF Chats!Turn, CrWindow
    <3>5. bots' = CrWindow(bots, chats[Chats!Group(m)], cRows[Chats!Group(m)] \o batch[m])
      BY <3>2, <3>3, <3>4
    <3> QED BY <1>w, <2>m, <3>1, <3>2, <3>3, <3>4, <3>5
  <2>10. CASE Chats!Leave(m)
    BY <1>s, <1>m, <2>10 DEF Chats!Leave, Chats!chatVars
  <2> QED BY <1>4, <2>1, <2>2, <2>3, <2>4, <2>5, <2>6, <2>7, <2>8, <2>9, <2>10 DEF Chats!Handle
<1>5. ASSUME NEW u \in Chatter, Chats!Ignore(u)
      PROVE  Chats!WindowsAreOwn' /\ Chats!RowsAreWindow'
  <2>m. u \in Chats!Actors /\ Chats!Group(u) \in Groups /\ (pc[u] # "new" => Threshold # 0)
    BY <1>0, <1>1
  <2>1. CASE Chats!Incr(u)
    BY <1>0, <1>s, <1>u, <2>1 DEF Chats!Incr, Chats!chatVars
  <2>2. CASE Chats!Find(u)
    <3>1. /\ \A v \in Chatter : mine'[v] = IF v = u THEN chats[Chats!Group(u)] ELSE mine[v]
          /\ \A v \in Chatter : v # u => pc'[v] = pc[v]
          /\ UNCHANGED <<chats, cRows, bots, sweep>> /\ Threshold # 0
      BY <1>0, <1>t, <2>m, <2>2 DEF Chats!Find, Chats!Goto, Chats!chatVars
    <3>2. Chats!WindowsAreOwn'
      BY <1>1, <3>1 DEF Chats!WindowsAreOwn
    <3> QED BY <1>s, <3>1, <3>2
  <2>3. CASE Chats!TryLock(u)
    BY <1>s, <1>u, <2>m, <2>3 DEF Chats!TryLock, Chats!chatVars
  <2>4. CASE Chats!Clear(u)
    <3>1. bots' = CrWindow(bots, chats[Chats!Group(u)], <<>>) /\ cRows' = [cRows EXCEPT ![Chats!Group(u)] = <<>>]
          /\ UNCHANGED chats /\ chats[Chats!Group(u)] # 0
      BY <1>1, <1>3, <2>4 DEF Chats!Clear, Chats!ClearHistory, CrWindow
    <3>2. <<>> \in Seq(Mentions)
      OBVIOUS
    <3>3. Chats!WindowsAreOwn'
      BY <1>u, <2>m, <2>4 DEF Chats!Clear
    <3> QED BY <1>w, <2>m, <3>1, <3>2, <3>3
  <2>5. CASE Chats!UnlockCleared(u)
    BY <1>s, <1>u, <2>m, <2>5 DEF Chats!UnlockCleared, Chats!chatVars
  <2>6. CASE Chats!ResetCleared(u)
    BY <1>s, <1>u, <2>m, <2>6 DEF Chats!ResetCleared, Chats!chatVars
  <2> QED BY <1>5, <2>1, <2>2, <2>3, <2>4, <2>5, <2>6 DEF Chats!Ignore
<1>6. CASE Chats!Evicts
  <2>0. MaxIdle + MaxSessions # 0
    <3> SUFFICES ASSUME MaxIdle + MaxSessions = 0 PROVE FALSE
      OBVIOUS
    <3>1. sweep.at = "off"
      BY <1>1 DEF Chats!Off
    <3> QED BY <1>6, <3>1 DEF Chats!Evicts, Chats!Sweep, Chats!Look, Chats!Overflow,
       Chats!SweepEnds, Chats!LockToEvict, Chats!Recheck, Chats!Delete, Chats!UnlockEvicted
  <2>1. \A u \in Chatter : pc[u] = "new"
    BY <1>1, <2>0 DEF Chats!NoStaleClear
  <2>s. UNCHANGED <<pc, mine, bots, cRows>>
    BY <1>6 DEF Chats!Evicts, Chats!Sweep, Chats!Look, Chats!Overflow, Chats!SweepEnds,
       Chats!LockToEvict, Chats!Recheck, Chats!Delete, Chats!UnlockEvicted, Chats!Sweeping,
       Chats!procVars, Chats!chatVars
  <2>2. \A g \in Groups : chats'[g] = chats[g] \/ chats'[g] = 0
    <3>1. CASE Chats!Delete
      BY <1>t, <3>1 DEF Chats!Delete
    <3>2. CASE ~Chats!Delete
      BY <1>6, <3>2 DEF Chats!Evicts, Chats!Sweep, Chats!Look, Chats!Overflow, Chats!SweepEnds,
         Chats!LockToEvict, Chats!Recheck, Chats!UnlockEvicted, Chats!Sweeping, Chats!chatVars
    <3> QED BY <3>1, <3>2
  <2>3. Chats!WindowsAreOwn'
    BY <1>1, <2>0, <2>1, <2>s, <2>2 DEF Chats!WindowsAreOwn
  <2>4. Chats!RowsAreWindow'
    BY <1>2, <2>s, <2>2 DEF Chats!RowsAreWindow
  <2> QED BY <2>3, <2>4
<1>7. CASE Chats!Tick
  <2>1. UNCHANGED <<bots, chats, cRows, pc, mine, sweep>>
    BY <1>7 DEF Chats!Tick, Chats!procVars, Chats!chatVars
  <2> QED BY <1>1, <1>s, <2>1 DEF Chats!WindowsAreOwn
<1>8. CASE Chats!Crash
  <2>1. /\ \A g \in Groups : chats'[g] = 0
        /\ \A u \in Chatter : pc'[u] = IF pc[u] = "new" THEN "new" ELSE "done"
        /\ sweep' = Chats!Off
    BY <1>0, <1>8 DEF Chats!Crash
  <2> QED BY <1>1, <2>1 DEF Chats!WindowsAreOwn, Chats!RowsAreWindow
<1> QED BY <1>4, <1>5, <1>6, <1>7, <1>8 DEF Chats!Next

LEMMA CrJoined ==
  ASSUME NEW s \in Seq(Mentions), NEW t \in Seq(Mentions), Chats!NoneTwice(s), Chats!NoneTwice(t), Chats!Apart(s, t)
  PROVE  Chats!NoneTwice(s \o t)
<1> SUFFICES ASSUME NEW i \in DOMAIN (s \o t), NEW j \in DOMAIN (s \o t), (s \o t)[i] = (s \o t)[j]
             PROVE  i = j
  BY DEF Chats!NoneTwice
<1>0. /\ Len(s) \in Nat /\ Len(t) \in Nat /\ i \in 1..(Len(s) + Len(t))
      /\ j \in 1..(Len(s) + Len(t))
      /\ DOMAIN s = 1..Len(s) /\ DOMAIN t = 1..Len(t)
  OBVIOUS
<1>1. \A k \in 1..(Len(s) + Len(t)) :
        /\ k <= Len(s) => k \in DOMAIN s /\ (s \o t)[k] = s[k]
        /\ k > Len(s) => k - Len(s) \in DOMAIN t /\ (s \o t)[k] = t[k - Len(s)]
  BY <1>0
<1>2. \A k \in DOMAIN s, l \in DOMAIN t : s[k] # t[l]
  BY DEF Chats!Apart, Chats!Range
<1>3. CASE i <= Len(s) /\ j <= Len(s)
  BY <1>0, <1>1, <1>3 DEF Chats!NoneTwice
<1>4. CASE i > Len(s) /\ j > Len(s)
  <2>1. i - Len(s) = j - Len(s)
    BY <1>0, <1>1, <1>4 DEF Chats!NoneTwice
  <2> QED BY <1>0, <2>1
<1>5. CASE i <= Len(s) /\ j > Len(s)
  BY <1>0, <1>1, <1>2, <1>5
<1>6. CASE i > Len(s) /\ j <= Len(s)
  BY <1>0, <1>1, <1>2, <1>6
<1> QED BY <1>0, <1>3, <1>4, <1>5, <1>6

LEMMA CrRangeJoined ==
  ASSUME NEW s \in Seq(Mentions), NEW t \in Seq(Mentions)
  PROVE  Chats!Range(s \o t) = Chats!Range(s) \cup Chats!Range(t)
<1>0. /\ Len(s) \in Nat /\ Len(t) \in Nat /\ DOMAIN (s \o t) = 1..(Len(s) + Len(t))
      /\ DOMAIN s = 1..Len(s) /\ DOMAIN t = 1..Len(t)
  OBVIOUS
<1>1. ASSUME NEW k \in DOMAIN (s \o t) PROVE (s \o t)[k] \in Chats!Range(s) \cup Chats!Range(t)
  <2>1. CASE k <= Len(s)
    BY <1>0, <2>1 DEF Chats!Range
  <2>2. CASE k > Len(s)
    <3>1. k - Len(s) \in DOMAIN t /\ (s \o t)[k] = t[k - Len(s)]
      BY <1>0, <2>2
    <3> QED BY <3>1 DEF Chats!Range
  <2> QED BY <1>0, <2>1, <2>2
<1>2. ASSUME NEW k \in DOMAIN s PROVE s[k] \in Chats!Range(s \o t)
  <2>1. k \in DOMAIN (s \o t) /\ (s \o t)[k] = s[k]
    BY <1>0
  <2> QED BY <2>1 DEF Chats!Range
<1>3. ASSUME NEW k \in DOMAIN t PROVE t[k] \in Chats!Range(s \o t)
  <2>1. k + Len(s) \in DOMAIN (s \o t) /\ (s \o t)[k + Len(s)] = t[k]
    BY <1>0
  <2> QED BY <2>1 DEF Chats!Range
<1> QED BY <1>1, <1>2, <1>3 DEF Chats!Range

LEMMA CrNone == Chats!NoneTwice(<<>>) /\ Chats!Range(<<>>) = {}
BY DEF Chats!Range, Chats!NoneTwice
LEMMA CrOne ==
  ASSUME NEW m \in Mentions
  PROVE  /\ <<>> \in Seq(Mentions) /\ Chats!Range(<<>>) = {} /\ Chats!NoneTwice(<<>>)
         /\ <<m>> \in Seq(Mentions) /\ Chats!Range(<<m>>) = {m} /\ Chats!NoneTwice(<<m>>)
BY DEF Chats!Range, Chats!NoneTwice
LEMMA CrAppend ==
  ASSUME NEW s \in Seq(Mentions), NEW m \in Mentions, Chats!NoneTwice(s), m \notin Chats!Range(s)
  PROVE  Chats!NoneTwice(Append(s, m)) /\ Chats!Range(Append(s, m)) = Chats!Range(s) \cup {m}
<1>1. Append(s, m) = s \o <<m>>
  OBVIOUS
<1>2. <<m>> \in Seq(Mentions) /\ Chats!Range(<<m>>) = {m} /\ Chats!NoneTwice(<<m>>) /\ Chats!Apart(s, <<m>>)
  BY CrOne DEF Chats!Apart
<1>3. Chats!NoneTwice(s \o <<m>>)
  BY <1>2, CrJoined
<1>4. Chats!Range(s \o <<m>>) = Chats!Range(s) \cup Chats!Range(<<m>>)
  BY <1>2, CrRangeJoined
<1> QED BY <1>1, <1>2, <1>3, <1>4

LEMMA CrPlaces ==
  ASSUME CrAssumption, Chats!TypeOK, Chats!LocksAreHeld, Chats!NoStaleClear => Chats!WindowsAreOwn, Chats!InOnePlace, Chats!IsSomewhere, Chats!Next
  PROVE  Chats!InOnePlace' /\ Chats!IsSomewhere'
<1>0. /\ \A a \in Chats!Actors : Chats!Group(a) \in Groups
      /\ Mentions \subseteq Chats!Actors /\ Chatter \subseteq Chats!Actors
      /\ Mentions \cap Chatter = {}
      /\ Threshold \in Nat /\ MaxCrashes \in Nat
  BY DEF CrAssumption, Chats!ResidencyAssumption, Chats!Actors, Chats!Group
<1>t. /\ pc \in [Chats!Actors -> Chats!Places] /\ cCrashes \in Nat
      /\ cRows \in [Groups -> Seq(Mentions)] /\ pending \in [Groups -> Seq(Mentions)]
      /\ batch \in [Chats!Actors -> Seq(Mentions)]
  BY <1>0 DEF Chats!TypeOK
<1>s. \A s \in Seq(Mentions) : Chats!Range(s) \subseteq Mentions
  BY DEF Chats!Range
<1>1. \A g \in Groups :
        /\ Chats!NoneTwice(cRows[g]) /\ \A x \in Chats!Range(cRows[g]) : x \in Mentions /\ Chats!Group(x) = g /\ Chats!Settled(x)
        /\ Chats!NoneTwice(pending[g]) /\ \A x \in Chats!Range(pending[g]) : x \in Mentions /\ Chats!Group(x) = g /\ Chats!Settled(x)
        /\ Chats!Apart(cRows[g], pending[g])
  BY <1>s, <1>t DEF Chats!InOnePlace, Chats!HasOnce
<1>2. \A o \in Mentions :
        /\ batch[o] # <<>> => pc[o] \in {"drain", "turn"}
        /\ Chats!NoneTwice(batch[o]) /\ \A x \in Chats!Range(batch[o]) : x \in Mentions /\ Chats!Group(x) = Chats!Group(o) /\ Chats!Settled(x)
        /\ Chats!Apart(cRows[Chats!Group(o)], batch[o])
        /\ Chats!Apart(pending[Chats!Group(o)], batch[o])
  BY <1>s, <1>t, <1>0 DEF Chats!InOnePlace, Chats!HasOnce
<1>3. ASSUME Threshold = 0, cCrashes = 0, NEW x \in Mentions, Chats!Settled(x)
      PROVE  \/ x \in Chats!Range(cRows[Chats!Group(x)]) \/ x \in Chats!Range(pending[Chats!Group(x)])
             \/ \E o \in Mentions : Chats!Group(o) = Chats!Group(x) /\ x \in Chats!Range(batch[o])
  BY <1>3 DEF Chats!IsSomewhere
<1>l. \A o, n \in Mentions : Chats!Group(o) = Chats!Group(n) /\ pc[o] \in {"drain", "turn"} /\ pc[n] \in {"drain", "turn"} => o = n
  BY <1>0 DEF Chats!LocksAreHeld, Chats!Owns
<1>f. ASSUME \A g \in Groups :
               /\ Chats!NoneTwice(cRows'[g]) /\ \A x \in Chats!Range(cRows'[g]) : Chats!Group(x) = g /\ Chats!Settled(x)'
               /\ Chats!NoneTwice(pending'[g]) /\ \A x \in Chats!Range(pending'[g]) : Chats!Group(x) = g /\ Chats!Settled(x)'
               /\ Chats!Apart(cRows'[g], pending'[g]),
             \A o \in Mentions :
               /\ batch'[o] # <<>> => pc'[o] \in {"drain", "turn"}
               /\ Chats!NoneTwice(batch'[o]) /\ \A x \in Chats!Range(batch'[o]) : Chats!Group(x) = Chats!Group(o) /\ Chats!Settled(x)'
               /\ Chats!Apart(cRows'[Chats!Group(o)], batch'[o])
               /\ Chats!Apart(pending'[Chats!Group(o)], batch'[o])
      PROVE  Chats!InOnePlace'
  BY <1>f DEF Chats!InOnePlace, Chats!HasOnce
<1>i. ASSUME Threshold = 0 /\ cCrashes' = 0 => \A x \in Mentions : Chats!Settled(x)' =>
               \/ x \in Chats!Range(cRows'[Chats!Group(x)]) \/ x \in Chats!Range(pending'[Chats!Group(x)])
               \/ \E o \in Mentions : Chats!Group(o) = Chats!Group(x) /\ x \in Chats!Range(batch'[o])
      PROVE  Chats!IsSomewhere'
  BY <1>i DEF Chats!IsSomewhere
\* Nothing moves.
<1>p. ASSUME UNCHANGED <<cRows, pending, batch, cCrashes>>, \A x \in Mentions : Chats!Settled(x)' <=> Chats!Settled(x),
             \A o \in Mentions : batch[o] # <<>> => pc'[o] \in {"drain", "turn"}
      PROVE  Chats!InOnePlace' /\ Chats!IsSomewhere'
  <2>1. Chats!InOnePlace'
    BY <1>1, <1>2, <1>f, <1>p
  <2>2. Chats!IsSomewhere'
    BY <1>3, <1>i, <1>p
  <2> QED BY <2>1, <2>2
<1>q. ASSUME UNCHANGED <<cRows, pending, batch, cCrashes, pc>>
      PROVE  Chats!InOnePlace' /\ Chats!IsSomewhere'
  BY <1>p, <1>q, <1>2 DEF Chats!Settled
<1>m. ASSUME NEW m \in Mentions, NEW p, Chats!Goto(m, p), UNCHANGED <<cRows, pending, batch, cCrashes>>,
             p \in {"drain", "turn", "leave", "done", "queued"} <=> Chats!Settled(m),
             pc[m] \in {"drain", "turn"} => batch[m] = <<>> \/ p \in {"drain", "turn"}
      PROVE  Chats!InOnePlace' /\ Chats!IsSomewhere'
  <2>1. \A x \in Mentions : pc'[x] = IF x = m THEN p ELSE pc[x]
    BY <1>0, <1>t, <1>m DEF Chats!Goto
  <2>2. \A x \in Mentions : Chats!Settled(x)' <=> Chats!Settled(x)
    BY <1>m, <2>1 DEF Chats!Settled
  <2>3. \A o \in Mentions : batch[o] # <<>> => pc'[o] \in {"drain", "turn"}
    BY <1>2, <1>m, <2>1
  <2> QED BY <1>m, <1>p, <2>2, <2>3
<1>4. ASSUME NEW m \in Mentions, Chats!Handle(m) PROVE Chats!InOnePlace' /\ Chats!IsSomewhere'
  <2>m. m \in Chats!Actors /\ Chats!Group(m) \in Groups
    BY <1>0
  <2>p. ASSUME NEW p, Chats!Goto(m, p)
        PROVE  \A x \in Mentions : pc'[x] = IF x = m THEN p ELSE pc[x]
    BY <1>0, <1>t, <2>p DEF Chats!Goto
  <2>1. CASE Chats!Begin(m)
    BY <1>m, <2>1 DEF Chats!Begin, Chats!Settled, Chats!timeVars
  <2>2. CASE Chats!Refused(m)
    BY <1>m, <2>2 DEF Chats!Refused, Chats!Settled, Chats!chatVars, Chats!timeVars
  <2>3. CASE Chats!Queue(m)
    <3>1. /\ pending' = [pending EXCEPT ![Chats!Group(m)] = Append(pending[Chats!Group(m)], m)]
          /\ UNCHANGED <<cRows, batch, cCrashes>> /\ pc[m] = "refused"
      BY <2>3 DEF Chats!Queue, Chats!timeVars
    <3>2. \A x \in Mentions : pc'[x] = IF x = m THEN "queued" ELSE pc[x]
      BY <2>3, <2>p DEF Chats!Queue
    <3>3. ~Chats!Settled(m) /\ Chats!Settled(m)' /\ \A x \in Mentions : x # m => (Chats!Settled(x)' <=> Chats!Settled(x))
      BY <3>1, <3>2 DEF Chats!Settled
    <3>a. \A x \in Mentions : Chats!Settled(x) => Chats!Settled(x)'
      BY <3>3
    <3>4. \A g \in Groups : m \notin Chats!Range(cRows[g]) /\ m \notin Chats!Range(pending[g])
      BY <1>1, <3>3
    <3>5. \A o \in Mentions : m \notin Chats!Range(batch[o])
      BY <1>2, <3>3
    <3>6. \A g \in Groups : pending'[g] = IF g = Chats!Group(m) THEN Append(pending[g], m) ELSE pending[g]
      BY <1>t, <2>m, <3>1
    <3>7. /\ Chats!NoneTwice(Append(pending[Chats!Group(m)], m))
          /\ Chats!Range(Append(pending[Chats!Group(m)], m)) = Chats!Range(pending[Chats!Group(m)]) \cup {m}
      BY <1>1, <1>t, <2>m, <3>4, CrAppend
    <3>b. \A g \in Groups : Chats!NoneTwice(pending'[g])
      BY <1>1, <3>6, <3>7
    <3>c. \A g \in Groups : \A x : x \in Chats!Range(pending'[g]) <=> x \in Chats!Range(pending[g]) \/ (g = Chats!Group(m) /\ x = m)
      BY <3>6, <3>7
    <3>8. /\ \A g \in Groups : Chats!NoneTwice(pending'[g])
          /\ \A g \in Groups : \A x : x \in Chats!Range(pending'[g]) <=> x \in Chats!Range(pending[g]) \/ (g = Chats!Group(m) /\ x = m)
      BY <3>b, <3>c
    <3>9. Chats!InOnePlace'
      <4>1. ASSUME NEW g \in Groups
            PROVE  /\ Chats!NoneTwice(cRows'[g]) /\ \A x \in Chats!Range(cRows'[g]) : Chats!Group(x) = g /\ Chats!Settled(x)'
                   /\ Chats!NoneTwice(pending'[g]) /\ \A x \in Chats!Range(pending'[g]) : Chats!Group(x) = g /\ Chats!Settled(x)'
                   /\ Chats!Apart(cRows'[g], pending'[g])
        <5>1. Chats!NoneTwice(cRows'[g]) /\ Chats!NoneTwice(pending'[g])
          BY <1>1, <3>1, <3>8
        <5>2. \A x \in Chats!Range(cRows'[g]) : Chats!Group(x) = g /\ Chats!Settled(x)'
          BY <1>1, <3>1, <3>a
        <5>3. \A x \in Chats!Range(pending'[g]) : Chats!Group(x) = g /\ Chats!Settled(x)'
          BY <1>1, <3>3, <3>8, <3>a
        <5>4. Chats!Apart(cRows'[g], pending'[g])
          BY <1>1, <3>1, <3>4, <3>8 DEF Chats!Apart
        <5> QED BY <5>1, <5>2, <5>3, <5>4
      <4>2. ASSUME NEW o \in Mentions
            PROVE  /\ batch'[o] # <<>> => pc'[o] \in {"drain", "turn"}
                   /\ Chats!NoneTwice(batch'[o]) /\ \A x \in Chats!Range(batch'[o]) : Chats!Group(x) = Chats!Group(o) /\ Chats!Settled(x)'
                   /\ Chats!Apart(cRows'[Chats!Group(o)], batch'[o])
                   /\ Chats!Apart(pending'[Chats!Group(o)], batch'[o])
        <5>1. batch'[o] # <<>> => pc'[o] \in {"drain", "turn"}
          BY <1>2, <3>1, <3>2
        <5>2. Chats!NoneTwice(batch'[o]) /\ \A x \in Chats!Range(batch'[o]) : Chats!Group(x) = Chats!Group(o) /\ Chats!Settled(x)'
          BY <1>2, <3>1, <3>a
        <5>3. Chats!Apart(cRows'[Chats!Group(o)], batch'[o])
          BY <1>2, <3>1
        <5>4. Chats!Apart(pending'[Chats!Group(o)], batch'[o])
          <6>1. Chats!Group(o) \in Groups /\ batch'[o] = batch[o] /\ m \notin Chats!Range(batch[o])
            BY <1>0, <3>1, <3>5
          <6>2. Chats!Range(pending[Chats!Group(o)]) \cap Chats!Range(batch[o]) = {}
            BY <1>2 DEF Chats!Apart
          <6>3. \A x : x \in Chats!Range(pending'[Chats!Group(o)]) => x \in Chats!Range(pending[Chats!Group(o)]) \/ x = m
            BY <3>8, <6>1
          <6> QED BY <6>1, <6>2, <6>3 DEF Chats!Apart
        <5> QED BY <5>1, <5>2, <5>3, <5>4
      <4> QED BY <1>f, <4>1, <4>2
    <3>10. Chats!IsSomewhere'
      <4> SUFFICES ASSUME Threshold = 0, cCrashes' = 0, NEW x \in Mentions, Chats!Settled(x)'
                   PROVE  \/ x \in Chats!Range(cRows'[Chats!Group(x)]) \/ x \in Chats!Range(pending'[Chats!Group(x)])
                          \/ \E o \in Mentions : Chats!Group(o) = Chats!Group(x) /\ x \in Chats!Range(batch'[o])
        BY <1>i
      <4>1. CASE x = m
        BY <2>m, <3>8, <4>1
      <4>2. CASE x # m
        <5>1. Chats!Settled(x) /\ cCrashes = 0 /\ Chats!Group(x) \in Groups
          BY <1>0, <3>1, <3>3, <4>2
        <5> QED BY <1>3, <3>1, <3>8, <5>1
      <4> QED BY <4>1, <4>2
    <3> QED BY <3>9, <3>10
  <2>4. CASE Chats!TouchQueued(m)
    BY <1>m, <2>4 DEF Chats!TouchQueued, Chats!Settled, Chats!timeVars
  <2>5. CASE Chats!GetChat(m)
    BY <1>m, <2>5 DEF Chats!GetChat, Chats!Settled, Chats!timeVars
  <2>6. CASE Chats!ApplyClear(m)
    <3>1. CASE UNCHANGED cRows
      BY <1>m, <2>6, <3>1 DEF Chats!ApplyClear, Chats!Settled, Chats!timeVars
    <3>2. CASE cRows' # cRows
      <4>1. Threshold > 0 /\ cRows' = [cRows EXCEPT ![Chats!Group(m)] = <<>>]
        BY <2>6, <3>2 DEF Chats!ApplyClear, Chats!ClearHistory
      <4>2. UNCHANGED <<pending, batch, cCrashes>> /\ pc[m] = "apply"
        BY <2>6 DEF Chats!ApplyClear, Chats!timeVars
      <4>3. \A x \in Mentions : pc'[x] = IF x = m THEN "reset" ELSE pc[x]
        BY <2>6, <2>p DEF Chats!ApplyClear
      <4>4. /\ \A x \in Mentions : Chats!Settled(x)' <=> Chats!Settled(x)
            /\ \A o \in Mentions : batch[o] # <<>> => pc'[o] \in {"drain", "turn"}
        BY <1>2, <4>2, <4>3 DEF Chats!Settled
      <4>5. \A g \in Groups : cRows'[g] = IF g = Chats!Group(m) THEN <<>> ELSE cRows[g]
        BY <1>t, <4>1
      <4>6. Chats!NoneTwice(<<>>) /\ Chats!Range(<<>>) = {}
        BY CrOne
      <4>7. \A g \in Groups : Chats!NoneTwice(cRows'[g]) /\ Chats!Range(cRows'[g]) \subseteq Chats!Range(cRows[g])
        BY <1>1, <4>5, <4>6
      <4>8. Chats!InOnePlace'
        BY <1>0, <1>1, <1>2, <1>f, <4>2, <4>4, <4>7 DEF Chats!Apart
      <4>9. Chats!IsSomewhere'
        BY <1>0, <1>i, <4>1
      <4> QED BY <4>8, <4>9
    <3> QED BY <3>1, <3>2
  <2>7. CASE Chats!ApplyReset(m)
    <3>1. /\ batch' = [batch EXCEPT ![m] = <<m>>] /\ UNCHANGED <<cRows, pending, cCrashes>>
          /\ pc[m] = "reset"
      BY <2>7 DEF Chats!ApplyReset, Chats!chatVars, Chats!timeVars
    <3>2. \A x \in Mentions : pc'[x] = IF x = m THEN "drain" ELSE pc[x]
      BY <2>7, <2>p DEF Chats!ApplyReset
    <3>3. ~Chats!Settled(m) /\ Chats!Settled(m)' /\ \A x \in Mentions : x # m => (Chats!Settled(x)' <=> Chats!Settled(x))
      BY <3>1, <3>2 DEF Chats!Settled
    <3>4. \A g \in Groups : m \notin Chats!Range(cRows[g]) /\ m \notin Chats!Range(pending[g])
      BY <1>1, <3>3
    <3>5. \A o \in Mentions : batch'[o] = IF o = m THEN <<m>> ELSE batch[o]
      BY <1>0, <1>t, <3>1
    <3>6. Chats!NoneTwice(<<m>>) /\ Chats!Range(<<m>>) = {m} /\ Chats!Range(<<>>) = {} /\ batch[m] = <<>>
      BY <1>2, <3>1, CrOne
    <3>7. \A x \in Mentions : Chats!Settled(x) => Chats!Settled(x)'
      BY <3>3
    <3>8. ASSUME NEW g \in Groups
          PROVE  /\ Chats!NoneTwice(cRows'[g]) /\ \A x \in Chats!Range(cRows'[g]) : Chats!Group(x) = g /\ Chats!Settled(x)'
                 /\ Chats!NoneTwice(pending'[g]) /\ \A x \in Chats!Range(pending'[g]) : Chats!Group(x) = g /\ Chats!Settled(x)'
                 /\ Chats!Apart(cRows'[g], pending'[g])
      BY <1>1, <3>1, <3>7
    <3>9. ASSUME NEW o \in Mentions
          PROVE  /\ batch'[o] # <<>> => pc'[o] \in {"drain", "turn"}
                 /\ Chats!NoneTwice(batch'[o]) /\ \A x \in Chats!Range(batch'[o]) : Chats!Group(x) = Chats!Group(o) /\ Chats!Settled(x)'
                 /\ Chats!Apart(cRows'[Chats!Group(o)], batch'[o])
                 /\ Chats!Apart(pending'[Chats!Group(o)], batch'[o])
      <4>1. CASE o = m
        BY <2>m, <3>1, <3>2, <3>3, <3>4, <3>5, <3>6, <4>1 DEF Chats!Apart
      <4>2. CASE o # m
        BY <1>2, <3>1, <3>2, <3>5, <3>7, <4>2
      <4> QED BY <4>1, <4>2
    <3>10. Chats!InOnePlace'
      BY <1>f, <3>8, <3>9
    <3>11. Chats!IsSomewhere'
      BY <1>3, <1>i, <3>1, <3>3, <3>5, <3>6
    <3> QED BY <3>10, <3>11
  <2>8. CASE Chats!Drain(m)
    <3>1. /\ pending' = [pending EXCEPT ![Chats!Group(m)] = <<>>]
          /\ batch' = [batch EXCEPT ![m] = pending[Chats!Group(m)] \o batch[m]]
          /\ UNCHANGED <<cRows, cCrashes>> /\ pc[m] = "drain"
      BY <2>8 DEF Chats!Drain, Chats!timeVars
    <3>2. PICK p \in {"leave", "turn"} : /\ \A x \in Mentions : pc'[x] = IF x = m THEN p ELSE pc[x]
                                         /\ pending[Chats!Group(m)] \o batch[m] # <<>> => p = "turn"
      BY <2>8, <2>p DEF Chats!Drain
    <3>3. \A x \in Mentions : Chats!Settled(x)' <=> Chats!Settled(x)
      BY <3>1, <3>2 DEF Chats!Settled
    <3>4. /\ \A o \in Mentions : batch'[o] = IF o = m THEN pending[Chats!Group(m)] \o batch[m] ELSE batch[o]
          /\ \A g \in Groups : pending'[g] = IF g = Chats!Group(m) THEN <<>> ELSE pending[g]
      BY <1>0, <1>t, <2>m, <3>1
    <3>5. /\ Chats!NoneTwice(pending[Chats!Group(m)] \o batch[m])
          /\ Chats!Range(pending[Chats!Group(m)] \o batch[m]) = Chats!Range(pending[Chats!Group(m)]) \cup Chats!Range(batch[m])
      BY <1>1, <1>2, <1>t, <2>m, CrJoined, CrRangeJoined
    <3>6. Chats!NoneTwice(<<>>) /\ Chats!Range(<<>>) = {}
      BY CrNone
    <3>8. ASSUME NEW g \in Groups
          PROVE  /\ Chats!NoneTwice(cRows'[g]) /\ \A x \in Chats!Range(cRows'[g]) : Chats!Group(x) = g /\ Chats!Settled(x)'
                 /\ Chats!NoneTwice(pending'[g]) /\ \A x \in Chats!Range(pending'[g]) : Chats!Group(x) = g /\ Chats!Settled(x)'
                 /\ Chats!Apart(cRows'[g], pending'[g])
      BY <1>1, <3>1, <3>3, <3>4, <3>6 DEF Chats!Apart
    <3>9. ASSUME NEW o \in Mentions
          PROVE  /\ batch'[o] # <<>> => pc'[o] \in {"drain", "turn"}
                 /\ Chats!NoneTwice(batch'[o]) /\ \A x \in Chats!Range(batch'[o]) : Chats!Group(x) = Chats!Group(o) /\ Chats!Settled(x)'
                 /\ Chats!Apart(cRows'[Chats!Group(o)], batch'[o])
                 /\ Chats!Apart(pending'[Chats!Group(o)], batch'[o])
      <4>1. CASE o = m
        BY <1>1, <1>2, <2>m, <3>1, <3>2, <3>3, <3>4, <3>5, <3>6, <4>1 DEF Chats!Apart
      <4>2. CASE o # m
        BY <1>0, <1>2, <3>1, <3>2, <3>3, <3>4, <3>6, <4>2 DEF Chats!Apart
      <4> QED BY <4>1, <4>2
    <3>10. Chats!InOnePlace'
      BY <1>f, <3>8, <3>9
    <3>11. Chats!IsSomewhere'
      BY <1>0, <1>3, <1>i, <3>1, <3>3, <3>4, <3>5
    <3> QED BY <3>10, <3>11
  <2>9. CASE Chats!Turn(m)
    <3>1. /\ cRows' = [cRows EXCEPT ![Chats!Group(m)] = cRows[Chats!Group(m)] \o batch[m]]
          /\ batch' = [batch EXCEPT ![m] = <<>>]
          /\ UNCHANGED <<pending, cCrashes>> /\ pc[m] = "turn"
      BY <2>9 DEF Chats!Turn, Chats!timeVars
    <3>2. \A x \in Mentions : pc'[x] = IF x = m THEN "drain" ELSE pc[x]
      BY <2>9, <2>p DEF Chats!Turn
    <3>3. \A x \in Mentions : Chats!Settled(x)' <=> Chats!Settled(x)
      BY <3>1, <3>2 DEF Chats!Settled
    <3>4. /\ \A o \in Mentions : batch'[o] = IF o = m THEN <<>> ELSE batch[o]
          /\ \A g \in Groups : cRows'[g] = IF g = Chats!Group(m) THEN cRows[Chats!Group(m)] \o batch[m] ELSE cRows[g]
      BY <1>0, <1>t, <2>m, <3>1
    <3>5. /\ Chats!NoneTwice(cRows[Chats!Group(m)] \o batch[m])
          /\ Chats!Range(cRows[Chats!Group(m)] \o batch[m]) = Chats!Range(cRows[Chats!Group(m)]) \cup Chats!Range(batch[m])
      BY <1>1, <1>2, <1>t, <2>m, CrJoined, CrRangeJoined
    <3>6. Chats!NoneTwice(<<>>) /\ Chats!Range(<<>>) = {}
      BY CrNone
    <3>7. \A o \in Mentions : o # m /\ Chats!Group(o) = Chats!Group(m) => batch[o] = <<>>
      BY <1>2, <1>l, <3>1
    <3>8. ASSUME NEW g \in Groups
          PROVE  /\ Chats!NoneTwice(cRows'[g]) /\ \A x \in Chats!Range(cRows'[g]) : Chats!Group(x) = g /\ Chats!Settled(x)'
                 /\ Chats!NoneTwice(pending'[g]) /\ \A x \in Chats!Range(pending'[g]) : Chats!Group(x) = g /\ Chats!Settled(x)'
                 /\ Chats!Apart(cRows'[g], pending'[g])
      BY <1>1, <1>2, <3>1, <3>3, <3>4, <3>5 DEF Chats!Apart
    <3>9. ASSUME NEW o \in Mentions
          PROVE  /\ batch'[o] # <<>> => pc'[o] \in {"drain", "turn"}
                 /\ Chats!NoneTwice(batch'[o]) /\ \A x \in Chats!Range(batch'[o]) : Chats!Group(x) = Chats!Group(o) /\ Chats!Settled(x)'
                 /\ Chats!Apart(cRows'[Chats!Group(o)], batch'[o])
                 /\ Chats!Apart(pending'[Chats!Group(o)], batch'[o])
      <4>1. CASE o = m
        BY <3>1, <3>2, <3>4, <3>6, <4>1 DEF Chats!Apart
      <4>2. CASE o # m /\ Chats!Group(o) = Chats!Group(m)
        BY <3>4, <3>6, <3>7, <4>2 DEF Chats!Apart
      <4>3. CASE o # m /\ Chats!Group(o) # Chats!Group(m)
        BY <1>0, <1>2, <3>1, <3>2, <3>3, <3>4, <4>3
      <4> QED BY <4>1, <4>2, <4>3
    <3>10. Chats!InOnePlace'
      BY <1>f, <3>8, <3>9
    <3>11. Chats!IsSomewhere'
      BY <1>0, <1>3, <1>i, <3>1, <3>3, <3>4, <3>5
    <3> QED BY <3>10, <3>11
  <2>10. CASE Chats!Leave(m)
    BY <1>2, <1>m, <2>10 DEF Chats!Leave, Chats!chatVars, Chats!Settled, Chats!timeVars
  <2> QED BY <1>4, <2>1, <2>2, <2>3, <2>4, <2>5, <2>6, <2>7, <2>8, <2>9, <2>10 DEF Chats!Handle
<1>5. ASSUME NEW u \in Chatter, Chats!Ignore(u) PROVE Chats!InOnePlace' /\ Chats!IsSomewhere'
  <2>1. UNCHANGED <<pending, batch, cCrashes>>
    BY <1>5 DEF Chats!Ignore, Chats!Incr, Chats!Find, Chats!TryLock, Chats!Clear,
       Chats!UnlockCleared, Chats!ResetCleared, Chats!chatVars, Chats!timeVars
  <2>2. \A x \in Mentions : pc'[x] = pc[x]
    BY <1>5, <1>0, <1>t DEF Chats!Ignore, Chats!Incr, Chats!Find, Chats!TryLock, Chats!Clear,
       Chats!UnlockCleared, Chats!ResetCleared, Chats!Goto
  <2>3. /\ \A x \in Mentions : Chats!Settled(x)' <=> Chats!Settled(x)
        /\ \A o \in Mentions : batch[o] # <<>> => pc'[o] \in {"drain", "turn"}
    BY <1>2, <2>2 DEF Chats!Settled
  <2>4. CASE Chats!Clear(u)
    <3>1. cRows' = [cRows EXCEPT ![Chats!Group(u)] = <<>>] /\ pc[u] = "clear"
      BY <2>4 DEF Chats!Clear, Chats!ClearHistory
    <3>2. Threshold # 0
      BY <3>1 DEF Chats!NoStaleClear, Chats!WindowsAreOwn
    <3>5. \A g \in Groups : cRows'[g] = IF g = Chats!Group(u) THEN <<>> ELSE cRows[g]
      BY <1>t, <3>1
    <3>6. Chats!NoneTwice(<<>>) /\ Chats!Range(<<>>) = {}
      BY CrNone
    <3>7. \A g \in Groups : Chats!NoneTwice(cRows'[g]) /\ Chats!Range(cRows'[g]) \subseteq Chats!Range(cRows[g])
      BY <1>1, <3>5, <3>6
    <3>8. Chats!InOnePlace'
      <4>1. ASSUME NEW g \in Groups
            PROVE  /\ Chats!NoneTwice(cRows'[g]) /\ \A x \in Chats!Range(cRows'[g]) : Chats!Group(x) = g /\ Chats!Settled(x)'
                   /\ Chats!NoneTwice(pending'[g]) /\ \A x \in Chats!Range(pending'[g]) : Chats!Group(x) = g /\ Chats!Settled(x)'
                   /\ Chats!Apart(cRows'[g], pending'[g])
        <5>1. Chats!Apart(cRows'[g], pending'[g])
          BY <1>1, <2>1, <3>7 DEF Chats!Apart
        <5>2. /\ Chats!NoneTwice(cRows'[g]) /\ \A x \in Chats!Range(cRows'[g]) : Chats!Group(x) = g /\ Chats!Settled(x)'
          BY <1>1, <2>3, <3>7
        <5>3. Chats!NoneTwice(pending'[g]) /\ \A x \in Chats!Range(pending'[g]) : Chats!Group(x) = g /\ Chats!Settled(x)'
          BY <1>1, <2>1, <2>3
        <5> QED BY <5>1, <5>2, <5>3
      <4>2. ASSUME NEW o \in Mentions
            PROVE  /\ batch'[o] # <<>> => pc'[o] \in {"drain", "turn"}
                   /\ Chats!NoneTwice(batch'[o]) /\ \A x \in Chats!Range(batch'[o]) : Chats!Group(x) = Chats!Group(o) /\ Chats!Settled(x)'
                   /\ Chats!Apart(cRows'[Chats!Group(o)], batch'[o])
                   /\ Chats!Apart(pending'[Chats!Group(o)], batch'[o])
        BY <1>0, <1>2, <2>1, <2>3, <3>7 DEF Chats!Apart
      <4> QED BY <1>f, <4>1, <4>2
    <3>9. Chats!IsSomewhere'
      BY <1>0, <1>i, <3>2
    <3> QED BY <3>8, <3>9
  <2>5. CASE ~Chats!Clear(u)
    <3>1. UNCHANGED cRows
      BY <1>5, <2>5 DEF Chats!Ignore, Chats!Incr, Chats!Find, Chats!TryLock,
         Chats!UnlockCleared, Chats!ResetCleared, Chats!chatVars
    <3> QED BY <1>p, <2>1, <2>3, <3>1
  <2> QED BY <2>4, <2>5
<1>6. CASE Chats!Evicts
  <2>1. UNCHANGED <<cRows, pending, batch, cCrashes, pc>>
    BY <1>6 DEF Chats!Evicts, Chats!Sweep, Chats!Look, Chats!Overflow, Chats!SweepEnds,
       Chats!LockToEvict, Chats!Recheck, Chats!Delete, Chats!UnlockEvicted, Chats!Sweeping,
       Chats!procVars, Chats!chatVars, Chats!timeVars
  <2> QED BY <1>q, <2>1
<1>7. CASE Chats!Tick
  BY <1>q, <1>7 DEF Chats!Tick, Chats!procVars, Chats!chatVars
<1>8. CASE Chats!Crash
  <2>1. /\ UNCHANGED cRows /\ cCrashes' = cCrashes + 1
        /\ \A g \in Groups : pending'[g] = <<>>
        /\ \A o \in Mentions : batch'[o] = <<>> /\ pc'[o] = IF pc[o] = "new" THEN "new" ELSE "done"
    BY <1>0, <1>8 DEF Chats!Crash
  <2>2. \A x \in Mentions : Chats!Settled(x) => Chats!Settled(x)'
    BY <2>1 DEF Chats!Settled
  <2>3. Chats!NoneTwice(<<>>) /\ Chats!Range(<<>>) = {}
    BY CrNone
  <2>4. Chats!InOnePlace'
    <3>1. ASSUME NEW g \in Groups
          PROVE  /\ Chats!NoneTwice(cRows'[g]) /\ \A x \in Chats!Range(cRows'[g]) : Chats!Group(x) = g /\ Chats!Settled(x)'
                 /\ Chats!NoneTwice(pending'[g]) /\ \A x \in Chats!Range(pending'[g]) : Chats!Group(x) = g /\ Chats!Settled(x)'
                 /\ Chats!Apart(cRows'[g], pending'[g])
      BY <1>1, <2>1, <2>2, <2>3 DEF Chats!Apart
    <3>2. ASSUME NEW o \in Mentions
          PROVE  /\ batch'[o] # <<>> => pc'[o] \in {"drain", "turn"}
                 /\ Chats!NoneTwice(batch'[o]) /\ \A x \in Chats!Range(batch'[o]) : Chats!Group(x) = Chats!Group(o) /\ Chats!Settled(x)'
                 /\ Chats!Apart(cRows'[Chats!Group(o)], batch'[o])
                 /\ Chats!Apart(pending'[Chats!Group(o)], batch'[o])
      BY <1>0, <2>1, <2>3 DEF Chats!Apart
    <3> QED BY <1>f, <3>1, <3>2
  <2>5. Chats!IsSomewhere'
    BY <1>i, <1>t, <2>1
  <2> QED BY <2>4, <2>5
<1> QED BY <1>4, <1>5, <1>6, <1>7, <1>8 DEF Chats!Next

LEMMA CrCounts ==
  ASSUME CrAssumption, Chats!TypeOK, Chats!UnloadedIsZero, Chats!DueIsStored, Chats!Next
  PROVE  Chats!UnloadedIsZero' /\ Chats!DueIsStored'
<1>0. (\A a \in Chats!Actors : Chats!Group(a) \in Groups) /\ Mentions \subseteq Chats!Actors /\ Chatter \subseteq Chats!Actors /\ Threshold \in Nat
  BY DEF CrAssumption, Chats!ResidencyAssumption, Chats!Actors, Chats!Group
<1>t. cCount \in [Groups -> Nat] /\ stored \in [Groups -> Nat] /\ loaded \subseteq Groups
  BY DEF Chats!TypeOK
<1>1. \A g \in Groups : /\ g \notin loaded => cCount[g] = 0
                        /\ Threshold > 0 /\ g \in loaded /\ cCount[g] >= Threshold => stored[g] >= Threshold
  BY DEF Chats!UnloadedIsZero, Chats!DueIsStored
<1>f. ASSUME \A g \in Groups : /\ g \notin loaded' => cCount'[g] = 0
                               /\ Threshold > 0 /\ g \in loaded' /\ cCount'[g] >= Threshold => stored'[g] >= Threshold
      PROVE  Chats!UnloadedIsZero' /\ Chats!DueIsStored'
  BY <1>f DEF Chats!UnloadedIsZero, Chats!DueIsStored
<1>u. ASSUME UNCHANGED <<cCount, stored, loaded>>
      PROVE  Chats!UnloadedIsZero' /\ Chats!DueIsStored'
  BY <1>1, <1>f, <1>u
<1>r. ASSUME NEW g \in Groups, Chats!Reset(g), UNCHANGED loaded
      PROVE  Chats!UnloadedIsZero' /\ Chats!DueIsStored'
  <2>1. \A h \in Groups : /\ cCount'[h] = IF h = g THEN 0 ELSE cCount[h]
                          /\ h # g => stored'[h] = stored[h]
    BY <1>t, <1>r DEF Chats!Reset
  <2> QED BY <1>0, <1>1, <1>f, <1>r, <2>1
<1>2. ASSUME NEW m \in Mentions, Chats!Handle(m)
      PROVE  Chats!UnloadedIsZero' /\ Chats!DueIsStored'
  <2>m. Chats!Group(m) \in Groups
    BY <1>0
  <2>1. CASE Chats!ApplyClear(m)
    <3>1. CASE Threshold > 0
      <4>1. cCount' = [cCount EXCEPT ![Chats!Group(m)] = Chats!Restored(Chats!Group(m))] /\ loaded' = loaded \cup {Chats!Group(m)} /\ UNCHANGED stored
        BY <2>1, <3>1 DEF Chats!ApplyClear
      <4>2. \A h \in Groups : cCount'[h] = IF h = Chats!Group(m) THEN Chats!Restored(Chats!Group(m)) ELSE cCount[h]
        BY <1>t, <4>1
      <4>3. Chats!Restored(Chats!Group(m)) >= Threshold => stored[Chats!Group(m)] >= Threshold
        BY <1>0, <1>1, <1>t, <2>m, <3>1 DEF Chats!Restored
      <4>4. ASSUME NEW g \in Groups
            PROVE /\ g \notin loaded' => cCount'[g] = 0
                  /\ Threshold > 0 /\ g \in loaded' /\ cCount'[g] >= Threshold => stored'[g] >= Threshold
        BY <1>1, <4>1, <4>2, <4>3
      <4> QED BY <1>f, <4>4
    <3>2. CASE ~(Threshold > 0)
      <4>1. UNCHANGED <<cCount, stored, loaded>>
        BY <2>1, <3>2 DEF Chats!ApplyClear
      <4> QED BY <1>u, <4>1
    <3> QED BY <3>1, <3>2
  <2>2. CASE Chats!ApplyReset(m)
    BY <1>r, <2>m, <2>2 DEF Chats!ApplyReset
  <2>3. CASE ~Chats!ApplyClear(m) /\ ~Chats!ApplyReset(m)
    BY <1>u, <1>2, <2>3 DEF Chats!Handle, Chats!Begin, Chats!Refused, Chats!Queue,
       Chats!TouchQueued, Chats!GetChat, Chats!Drain, Chats!Turn, Chats!Leave, Chats!countVars
  <2> QED BY <2>1, <2>2, <2>3
<1>3. ASSUME NEW u \in Chatter, Chats!Ignore(u)
      PROVE  Chats!UnloadedIsZero' /\ Chats!DueIsStored'
  <2>m. Chats!Group(u) \in Groups
    BY <1>0
  <2>1. CASE Chats!Incr(u)
    <3>1. PICK c : c = Chats!Restored(Chats!Group(u)) + 1
      OBVIOUS
    <3>2. /\ cCount' = [cCount EXCEPT ![Chats!Group(u)] = c]
          /\ loaded' = loaded \cup {Chats!Group(u)}
          /\ stored' = Chats!Persisted(Chats!Group(u), c) /\ c \in Nat
      BY <1>t, <2>m, <2>1, <3>1 DEF Chats!Incr, Chats!Restored
    <3>3. \A h \in Groups : cCount'[h] = IF h = Chats!Group(u) THEN c ELSE cCount[h]
      BY <1>t, <3>2
    <3>4. /\ \A h \in Groups : h # Chats!Group(u) => stored'[h] = stored[h]
          /\ c >= Threshold => stored'[Chats!Group(u)] = c
      BY <1>0, <1>t, <2>m, <3>2 DEF Chats!Persisted
    <3>5. ASSUME NEW g \in Groups
          PROVE /\ g \notin loaded' => cCount'[g] = 0
                /\ Threshold > 0 /\ g \in loaded' /\ cCount'[g] >= Threshold => stored'[g] >= Threshold
      BY <1>1, <3>2, <3>3, <3>4
    <3> QED BY <1>f, <3>5
  <2>2. CASE Chats!ResetCleared(u)
    BY <1>r, <2>m, <2>2 DEF Chats!ResetCleared
  <2>3. CASE ~Chats!Incr(u) /\ ~Chats!ResetCleared(u)
    BY <1>u, <1>3, <2>3 DEF Chats!Ignore, Chats!Find, Chats!TryLock, Chats!Clear,
       Chats!UnlockCleared, Chats!countVars
  <2> QED BY <2>1, <2>2, <2>3
<1>4. CASE Chats!Evicts \/ Chats!Tick
  BY <1>u, <1>4 DEF Chats!Evicts, Chats!Sweep, Chats!Look, Chats!Overflow, Chats!SweepEnds,
     Chats!LockToEvict, Chats!Recheck, Chats!Delete, Chats!UnlockEvicted, Chats!Sweeping,
     Chats!Tick, Chats!countVars
<1>5. CASE Chats!Crash
  <2>1. loaded' = {} /\ \A g \in Groups : cCount'[g] = 0
    BY <1>5 DEF Chats!Crash
  <2> QED BY <1>0, <1>f, <2>1
<1> QED BY <1>2, <1>3, <1>4, <1>5 DEF Chats!Next

LEMMA CrInit == ASSUME CrAssumption, Chats!Init PROVE Chats!IInv
<1>0. /\ \A a \in Chats!Actors : Chats!Group(a) \in Groups
      /\ Mentions \subseteq Chats!Actors /\ Chatter \subseteq Chats!Actors /\ MaxTime \in Nat
      /\ MaxCrashes \in Nat
      /\ Threshold \in Nat /\ Chats!Janitor \notin Chats!Actors
      /\ Chats!Free \notin Chats!Actors /\ Chats!Janitor # Chats!Free
  BY DEF CrAssumption, Chats!ResidencyAssumption, Chats!Actors, Chats!Group, Chats!Janitor,
     Chats!Free
<1>1. /\ bots = <<>> /\ Len(bots) = 0 /\ chats = [g \in Groups |-> 0]
      /\ cRows = [g \in Groups |-> <<>>]
      /\ pending = [g \in Groups |-> <<>>] /\ lock = [g \in Groups |-> Chats!Free]
      /\ cCount = [g \in Groups |-> 0] /\ stored = [g \in Groups |-> 0] /\ loaded = {}
      /\ pc = [a \in Chats!Actors |-> "new"] /\ mine = [a \in Chats!Actors |-> 0]
      /\ batch = [a \in Chats!Actors |-> <<>>] /\ sweep = Chats!Off /\ cNow = 0 /\ cCrashes = 0
  BY DEF Chats!Init
<1>2. Chats!TypeOK
  <2>1. sweep \in Chats!Sweeps
    BY <1>0, <1>1 DEF Chats!Sweeps, Chats!Off
  <2>2. <<>> \in Seq(Mentions) /\ <<>> \in Seq(Chats!Bot) /\ "new" \in Chats!Places
    BY DEF Chats!Places
  <2>3. /\ chats \in [Groups -> 0..Len(bots)] /\ mine \in [Chats!Actors -> 0..Len(bots)]
        /\ lock \in [Groups -> Chats!Actors \cup {Chats!Janitor, Chats!Free}]
        /\ cCount \in [Groups -> Nat] /\ stored \in [Groups -> Nat]
        /\ cNow \in 0..MaxTime /\ cCrashes \in 0..MaxCrashes
    BY <1>0, <1>1
  <2>4. cRows \in [Groups -> Seq(Mentions)] /\ pending \in [Groups -> Seq(Mentions)] /\ batch \in [Chats!Actors -> Seq(Mentions)]
    BY <1>1, <2>2
  <2>5. pc \in [Chats!Actors -> Chats!Places] /\ bots \in Seq(Chats!Bot) /\ loaded \subseteq Groups
    BY <1>1, <2>2
  <2> QED BY <2>1, <2>3, <2>4, <2>5 DEF Chats!TypeOK
<1>3. /\ \A a \in Chats!Actors : pc[a] = "new"
      /\ sweep.at = "off"
  BY <1>1 DEF Chats!Off
<1>4. Chats!LocksAreHeld /\ Chats!SweepHasEntry /\ Chats!DriversHaveBots
  <2>1. \A a \in Chats!Actors : ~Chats!Owns(a)
    BY <1>3 DEF Chats!Owns
  <2>2. ~Chats!Evicting /\ Chats!SweepHasEntry
    BY <1>3 DEF Chats!Evicting, Chats!SweepHasEntry
  <2>3. Chats!DriversHaveBots
    BY <1>0, <1>3 DEF Chats!DriversHaveBots, Chats!Drives
  <2> QED BY <1>0, <1>1, <2>1, <2>2, <2>3 DEF Chats!LocksAreHeld
<1>5. Chats!WindowsAreOwn /\ Chats!RowsAreWindow
  BY <1>0, <1>1, <1>3 DEF Chats!WindowsAreOwn, Chats!RowsAreWindow
<1>6. Chats!InOnePlace /\ Chats!IsSomewhere
  <2>1. Chats!NoneTwice(<<>>) /\ Chats!Range(<<>>) = {}
    BY CrNone
  <2>2. \A m \in Mentions : ~Chats!Settled(m)
    BY <1>0, <1>3 DEF Chats!Settled
  <2> QED BY <1>0, <1>1, <2>1, <2>2 DEF Chats!InOnePlace, Chats!IsSomewhere, Chats!HasOnce,
     Chats!Apart
<1>7. Chats!UnloadedIsZero /\ Chats!DueIsStored
  BY <1>0, <1>1 DEF Chats!UnloadedIsZero, Chats!DueIsStored
<1> QED BY <1>2, <1>4, <1>5, <1>6, <1>7 DEF Chats!IInv

LEMMA CrStep == ASSUME CrAssumption, Chats!IInv, Chats!Next PROVE Chats!IInv'
<1>1. /\ Chats!TypeOK /\ Chats!LocksAreHeld /\ Chats!SweepHasEntry /\ Chats!DriversHaveBots
      /\ Chats!NoStaleClear => Chats!WindowsAreOwn /\ Chats!RowsAreWindow
      /\ Chats!InOnePlace /\ Chats!IsSomewhere /\ Chats!UnloadedIsZero /\ Chats!DueIsStored
  BY DEF Chats!IInv
<1>2. Chats!TypeOK'
  BY <1>1, CrTypes
<1>3. Chats!LocksAreHeld' /\ Chats!SweepHasEntry'
  BY <1>1, CrLocks
<1>4. Chats!DriversHaveBots'
  BY <1>1, CrDrivers
<1>5. Chats!NoStaleClear' => Chats!WindowsAreOwn' /\ Chats!RowsAreWindow'
  <2>1. Chats!NoStaleClear' <=> Chats!NoStaleClear
    BY DEF Chats!NoStaleClear
  <2> QED BY <1>1, <2>1, CrWindows
<1>6. Chats!InOnePlace' /\ Chats!IsSomewhere'
  BY <1>1, CrPlaces
<1>7. Chats!UnloadedIsZero' /\ Chats!DueIsStored'
  BY <1>1, CrCounts
<1> QED BY <1>2, <1>3, <1>4, <1>5, <1>6, <1>7 DEF Chats!IInv

LEMMA CrStutter == ASSUME Chats!IInv, UNCHANGED Chats!vars PROVE Chats!IInv'
<1>1. UNCHANGED <<bots, chats, cRows, pending, lock, cCount, stored, loaded, pc, mine, batch, sweep, cNow, cCrashes>>
  BY DEF Chats!vars
<1>2. /\ Chats!TypeOK /\ Chats!LocksAreHeld /\ Chats!SweepHasEntry /\ Chats!DriversHaveBots
      /\ Chats!NoStaleClear => Chats!WindowsAreOwn /\ Chats!RowsAreWindow
      /\ Chats!InOnePlace /\ Chats!IsSomewhere /\ Chats!UnloadedIsZero /\ Chats!DueIsStored
  BY DEF Chats!IInv
<1>3. Chats!TypeOK'
  BY <1>1, <1>2 DEF Chats!TypeOK, Chats!Sweeps, Chats!Entries
<1>4. Chats!LocksAreHeld' /\ Chats!SweepHasEntry' /\ Chats!DriversHaveBots'
  BY <1>1, <1>2 DEF Chats!LocksAreHeld, Chats!SweepHasEntry, Chats!DriversHaveBots, Chats!Owns,
     Chats!Evicting, Chats!Drives
<1>5. Chats!NoStaleClear' => Chats!WindowsAreOwn' /\ Chats!RowsAreWindow'
  BY <1>1, <1>2 DEF Chats!NoStaleClear, Chats!WindowsAreOwn, Chats!RowsAreWindow
<1>6. Chats!InOnePlace' /\ Chats!IsSomewhere'
  BY <1>1, <1>2 DEF Chats!InOnePlace, Chats!IsSomewhere, Chats!HasOnce, Chats!Settled
<1>7. Chats!UnloadedIsZero' /\ Chats!DueIsStored'
  BY <1>1, <1>2 DEF Chats!UnloadedIsZero, Chats!DueIsStored
<1> QED BY <1>3, <1>4, <1>5, <1>6, <1>7 DEF Chats!IInv

LEMMA CrKeeps ==
  ASSUME CrAssumption, Chats!IInv
  PROVE  /\ Chats!TypeOK /\ Chats!DriverIsResident /\ Chats!AnsweredIsStored /\ Chats!DueIsStored
         /\ Chats!NoStaleClear => Chats!RowsAreWindow
<1>0. /\ \A a \in Chats!Actors : Chats!Group(a) \in Groups
      /\ Mentions \subseteq Chats!Actors /\ Threshold \in Nat
  BY DEF CrAssumption, Chats!ResidencyAssumption, Chats!Actors, Chats!Group
<1>1. Chats!TypeOK /\ Chats!DueIsStored /\ Chats!LocksAreHeld /\ Chats!DriversHaveBots /\ Chats!InOnePlace /\ Chats!IsSomewhere
  BY DEF Chats!IInv
<1>2. Chats!NoStaleClear => Chats!RowsAreWindow
  BY DEF Chats!IInv
<1>3. Chats!DriverIsResident
  <2>1. \A m \in Mentions : Chats!Drives(m) => lock[Chats!Group(m)] = m /\ chats[Chats!Group(m)] = mine[m]
    BY <1>0, <1>1 DEF Chats!LocksAreHeld, Chats!DriversHaveBots, Chats!Owns, Chats!Drives
  <2> QED BY <2>1 DEF Chats!DriverIsResident
<1>4. Chats!AnsweredIsStored
  <2> SUFFICES ASSUME NEW g \in Groups
               PROVE  /\ \A i, j \in DOMAIN cRows[g] : cRows[g][i] = cRows[g][j] => i = j
                      /\ Threshold = 0 /\ cCrashes = 0 =>
                           \A m \in Mentions : pc[m] = "done" /\ Chats!Group(m) = g =>
                             m \in Chats!Range(cRows[g]) \cup Chats!Range(pending[g]) \cup UNION {Chats!Range(batch[o]) : o \in Mentions}
    BY DEF Chats!AnsweredIsStored
  <2>1. \A i, j \in DOMAIN cRows[g] : cRows[g][i] = cRows[g][j] => i = j
    BY <1>1 DEF Chats!InOnePlace, Chats!HasOnce, Chats!NoneTwice
  <2>2. ASSUME Threshold = 0, cCrashes = 0, NEW m \in Mentions, pc[m] = "done", Chats!Group(m) = g
        PROVE  m \in Chats!Range(cRows[g]) \cup Chats!Range(pending[g]) \cup UNION {Chats!Range(batch[o]) : o \in Mentions}
    BY <1>1, <2>2 DEF Chats!IsSomewhere, Chats!Settled
  <2> QED BY <2>1, <2>2
<1> QED BY <1>1, <1>2, <1>3, <1>4

-------------------------------------------------------------------------------
(* ConfigStore.                                                            *)

\* What may be written to a key.
CsGood(k) == {v \in Conf!Values \ {Conf!None} : /\ Conf!NoMaskIsSet => v # Conf!Mask
                                                /\ Conf!PlainListen /\ k = Listen => v # Conf!Empty}
CsWrites ==
  /\ conf' \in [Keys -> Conf!Values] /\ wanted' \in [Keys -> Conf!Values]
  /\ \A k \in Keys : \/ conf'[k] = conf[k] /\ wanted'[k] = wanted[k]
                     \/ conf'[k] \in CsGood(k) /\ wanted'[k] = conf'[k]

LEMMA CsWritten ==
  ASSUME Conf!TypeOK, NEW values, NEW some \in SUBSET Keys, Conf!Written(values, some),
         \A k \in some : values[k] \subseteq CsGood(k)
  PROVE  CsWrites
<1>1. PICK v \in [some -> UNION {values[k] : k \in some}] :
        /\ \A k \in some : v[k] \in values[k]
        /\ conf' = [k \in Keys |-> IF k \in some THEN v[k] ELSE conf[k]]
        /\ wanted' = [k \in Keys |-> IF k \in some THEN v[k] ELSE wanted[k]]
  BY DEF Conf!Written
<1>2. \A k \in some : v[k] \in CsGood(k)
  BY <1>1
<1>3. \A k \in Keys : CsGood(k) \subseteq Conf!Values
  BY DEF CsGood
<1>4. \A k \in Keys : conf[k] \in Conf!Values /\ wanted[k] \in Conf!Values
  BY DEF Conf!TypeOK
<1>5. conf' \in [Keys -> Conf!Values] /\ wanted' \in [Keys -> Conf!Values]
  BY <1>1, <1>2, <1>3, <1>4
<1> QED BY <1>1, <1>2, <1>5 DEF CsWrites

LEMMA CsSaved ==
  ASSUME Conf!ConfigAssumption, NEW s \in Saves, NEW k \in Keys
  PROVE  Conf!ValuesOf(s)[k] \subseteq CsGood(k)
<1>1. SUFFICES ASSUME NEW x \in Conf!Kept(s), LowerOf[x] = k
               PROVE  s.updates[x] \in CsGood(k)
  BY DEF Conf!ValuesOf
<1>2. /\ x \in DOMAIN s.updates /\ s.updates[x] \notin {Conf!Null, Conf!Mask}
      /\ ~(x = Listen /\ s.updates[x] = Conf!Empty)
  BY DEF Conf!Kept
<1>3. x \in Spellings /\ s.updates[x] \in TypedIn \cup {Conf!Empty}
  BY <1>2 DEF Conf!ConfigAssumption
<1>4. s.updates[x] \in Conf!Values \ {Conf!None, Conf!Mask}
  BY <1>3 DEF Conf!ConfigAssumption, Conf!Values, Conf!None, Conf!Null, Conf!Mask, Conf!Empty,
     Conf!Quoted, Conf!Default
<1>5. Conf!PlainListen /\ k = Listen => s.updates[x] # Conf!Empty
  BY <1>1, <1>2, <1>3 DEF Conf!PlainListen
<1> QED BY <1>4, <1>5 DEF CsGood

LEMMA CsSnap ==
  ASSUME Conf!ConfigAssumption, Conf!TypeOK, Conf!MaskIsNotStored, NEW n \in Presets, NEW k \in Keys
  PROVE  Conf!Snapshot(n)[k] \subseteq CsGood(k)
<1>1. SUFFICES ASSUME NEW c \in presets[n], c[k] # Conf!None, ~(k = Listen /\ c[k] = Conf!Empty)
               PROVE  c[k] \in CsGood(k)
  BY DEF Conf!Snapshot
<1>2. c[k] \in Conf!Values
  BY DEF Conf!TypeOK
<1>3. Conf!NoMaskIsSet => c[k] # Conf!Mask
  BY DEF Conf!MaskIsNotStored
<1> QED BY <1>1, <1>2, <1>3 DEF CsGood

LEMMA CsSet ==
  ASSUME Conf!ConfigAssumption, NEW s \in Sets, ~(s.key = Listen /\ s.value = Conf!Empty),
         NEW v, v = IF s.value = Conf!Quoted THEN Conf!Empty ELSE s.value
  PROVE  s.key \in Keys /\ v \in CsGood(s.key)
<1>1. s.key \in Keys /\ s.value \in TypedIn \cup {Conf!Mask, Conf!Empty, Conf!Quoted}
  BY DEF Conf!ConfigAssumption
<1>2. v \in Conf!Values \ {Conf!None}
  BY <1>1 DEF Conf!ConfigAssumption, Conf!Values, Conf!None, Conf!Null, Conf!Mask, Conf!Empty,
     Conf!Quoted, Conf!Default
<1>3. Conf!NoMaskIsSet => v # Conf!Mask
  BY DEF Conf!NoMaskIsSet, Conf!Mask, Conf!Empty
<1>4. Conf!PlainListen /\ s.key = Listen => v # Conf!Empty
  BY DEF Conf!PlainListen
<1> QED BY <1>1, <1>2, <1>3, <1>4 DEF CsGood

\* What a write, whoever writes, keeps.
LEMMA CsKept ==
  ASSUME Conf!ConfigAssumption, Conf!IInv, CsWrites, UNCHANGED presets
  PROVE  /\ Conf!WrittenStays' /\ Conf!MaskIsNotStored' /\ Conf!ListenIsSet'
         /\ \A k \in Keys : conf[k] # Conf!None => conf'[k] # Conf!None
<1>1. Conf!WrittenStays'
  BY DEF Conf!IInv, CsWrites, Conf!WrittenStays
<1>2. Conf!MaskIsNotStored'
  BY DEF Conf!IInv, CsWrites, CsGood, Conf!MaskIsNotStored, Conf!NoMaskIsSet
<1>3. Conf!ListenIsSet'
  BY DEF Conf!IInv, CsWrites, CsGood, Conf!ListenIsSet, Conf!PlainListen, Conf!ConfigAssumption
<1>4. \A k \in Keys : conf[k] # Conf!None => conf'[k] # Conf!None
  BY DEF CsWrites, CsGood
<1> QED BY <1>1, <1>2, <1>3, <1>4

\* The rest of what a process that is up, or dies, does when it writes.
LEMMA CsWriter ==
  ASSUME Conf!ConfigAssumption, Conf!IInv, CsWrites, UNCHANGED <<Conf!metaVars, presets>>, initialized,
         (gAt' = gAt /\ gTodo' = gTodo) \/ (gAt' = "down" /\ gTodo' = {}),
         gPc' \in [Saves -> {"new", "deleting", "ok", "failed", "over"}],
         gLeft' \in [Saves -> SUBSET Spellings], gCrashes' \in 0..MaxRestarts, Conf!SavesAreUp'
  PROVE  Conf!IInv'
<1>0. /\ Conf!WrittenStays' /\ Conf!MaskIsNotStored' /\ Conf!ListenIsSet'
      /\ \A k \in Keys : conf[k] # Conf!None => conf'[k] # Conf!None
  BY CsKept
<1>1. Conf!TypeOK'
  BY DEF Conf!IInv, Conf!TypeOK, CsWrites, Conf!metaVars
<1>2. Conf!NothingBefore'
  BY DEF Conf!IInv, Conf!NothingBefore, Conf!metaVars
<1>3. Conf!DefaultsCome'
  BY <1>0 DEF Conf!IInv, Conf!DefaultsCome, Conf!metaVars, Conf!NothingDeleted, Conf!Nulls,
     Conf!ConfigAssumption
<1>4. Conf!SetupIsAskedOnce'
  BY DEF Conf!IInv, Conf!SetupIsAskedOnce, Conf!metaVars
<1> QED BY <1>0, <1>1, <1>2, <1>3, <1>4 DEF Conf!IInv

LEMMA CsInit == ASSUME Conf!ConfigAssumption, Conf!Init PROVE Conf!IInv
<1>1. Conf!TypeOK
  <2>1. conf \in [Keys -> Conf!Values] /\ wanted \in [Keys -> Conf!Values]
    BY DEF Conf!Init, Conf!Values
  <2>2. presets \in [Presets -> SUBSET [Keys -> Conf!Values]]
    BY DEF Conf!Init
  <2>3. /\ gPc \in [Saves -> {"new", "deleting", "ok", "failed", "over"}]
        /\ gLeft \in [Saves -> SUBSET Spellings] /\ gCrashes \in 0..MaxRestarts
    BY DEF Conf!Init, Conf!ConfigAssumption
  <2> QED BY <2>1, <2>2, <2>3 DEF Conf!Init, Conf!TypeOK
<1>2. Conf!NothingBefore /\ Conf!SavesAreUp /\ Conf!DefaultsCome /\ Conf!WrittenStays /\ Conf!SetupIsAskedOnce
  BY DEF Conf!Init, Conf!NothingBefore, Conf!SavesAreUp, Conf!DefaultsCome, Conf!WrittenStays,
     Conf!SetupIsAskedOnce
<1>3. Conf!MaskIsNotStored /\ Conf!ListenIsSet
  BY DEF Conf!Init, Conf!MaskIsNotStored, Conf!ListenIsSet, Conf!ConfigAssumption, Conf!None,
     Conf!Mask, Conf!Empty
<1> QED BY <1>1, <1>2, <1>3 DEF Conf!IInv

\* The start writes the default where there is nothing.
LEMMA CsDefaults ==
  ASSUME Conf!ConfigAssumption, Conf!IInv, NEW k \in Keys, wanted[k] = Conf!None \/ (Conf!ReadsFail /\ k \in Seeded \cup Registered),
         UNCHANGED <<wanted, presets>>,
         conf' = [conf EXCEPT ![k] = Conf!Default]
  PROVE  /\ conf' \in [Keys -> Conf!Values] /\ Conf!WrittenStays' /\ Conf!MaskIsNotStored' /\ Conf!ListenIsSet'
         /\ \A j \in Keys : conf[j] # Conf!None => conf'[j] # Conf!None
         /\ conf'[k] # Conf!None
<1>0. conf \in [Keys -> Conf!Values] /\ Conf!WrittenStays /\ Conf!MaskIsNotStored /\ Conf!ListenIsSet
  BY DEF Conf!IInv, Conf!TypeOK
<1>1. \A j \in Keys : conf'[j] = IF j = k THEN Conf!Default ELSE conf[j]
  BY <1>0
<1>2. conf' \in [Keys -> Conf!Values]
  BY <1>0 DEF Conf!Values
<1>3. Conf!WrittenStays'
  BY <1>0, <1>1 DEF Conf!WrittenStays
<1>4. Conf!MaskIsNotStored'
  BY <1>0, <1>1 DEF Conf!MaskIsNotStored, Conf!NoMaskIsSet, Conf!Mask, Conf!Default
<1>5. Conf!ListenIsSet'
  BY <1>0, <1>1 DEF Conf!ListenIsSet, Conf!PlainListen, Conf!Empty, Conf!Default,
     Conf!ConfigAssumption
<1> QED BY <1>1, <1>2, <1>3, <1>4, <1>5 DEF Conf!None, Conf!Default

\* The steps of the start that write nothing.
LEMMA CsStart ==
  ASSUME Conf!ConfigAssumption, Conf!IInv, UNCHANGED <<conf, presets, Conf!saveVars, wanted, completed, gCrashes>>,
         gAt # "up", gTodo' \subseteq Seeded \cup Registered, initialized' \in BOOLEAN, setup' \in BOOLEAN,
         gAt' \in {"down", "seed", "pending", "mark", "ensure", "up"},
         gAt' \in {"ensure", "up"} => initialized',
         gAt' \in {"seed", "pending", "mark"} => ~initialized' \/ Conf!ReadsFail,
         initialized => initialized', Conf!SetupIsAskedOnce', Conf!DefaultsCome'
  PROVE  Conf!IInv'
<1>1. Conf!TypeOK'
  BY DEF Conf!IInv, Conf!TypeOK, Conf!saveVars
<1>2. Conf!NothingBefore'
  BY DEF Conf!IInv, Conf!NothingBefore, Conf!saveVars
<1>3. Conf!SavesAreUp'
  BY DEF Conf!IInv, Conf!SavesAreUp, Conf!saveVars, Conf!Nulls
<1>4. Conf!WrittenStays' /\ Conf!MaskIsNotStored' /\ Conf!ListenIsSet'
  BY DEF Conf!IInv, Conf!WrittenStays, Conf!MaskIsNotStored, Conf!ListenIsSet, Conf!NoMaskIsSet,
     Conf!PlainListen
<1> QED BY <1>1, <1>2, <1>3, <1>4 DEF Conf!IInv

LEMMA CsStep == ASSUME Conf!ConfigAssumption, Conf!IInv, Conf!Next PROVE Conf!IInv'
<1>0. /\ Conf!TypeOK /\ Conf!NothingBefore /\ Conf!SavesAreUp /\ Conf!DefaultsCome
      /\ Conf!WrittenStays /\ Conf!SetupIsAskedOnce /\ Conf!MaskIsNotStored /\ Conf!ListenIsSet
  BY DEF Conf!IInv
<1>a. Seeded \subseteq Keys /\ Registered \subseteq Keys
  BY DEF Conf!ConfigAssumption
<1>1. CASE Conf!Start
  <2>1. Conf!SetupIsAskedOnce'
    BY <1>0, <1>1 DEF Conf!Start, Conf!Booting, Conf!SetupIsAskedOnce
  <2>2. Conf!DefaultsCome'
    BY <1>0, <1>1 DEF Conf!Start, Conf!Booting, Conf!DefaultsCome, Conf!NothingDeleted,
       Conf!Nulls
  <2> QED BY <1>0, <1>1, <1>a, <2>1, <2>2, CsStart DEF Conf!Start, Conf!Booting, Conf!TypeOK
<1>2. CASE Conf!Seed
  <2>0. gAt = "seed" /\ UNCHANGED <<initialized, setup, completed>> /\ (~initialized \/ Conf!ReadsFail)
    BY <1>0, <1>2 DEF Conf!Seed, Conf!Booting, Conf!NothingBefore
  <2>1. Conf!SetupIsAskedOnce'
    BY <1>0, <2>0 DEF Conf!SetupIsAskedOnce
  <2>2. CASE \/ gTodo = {} /\ Conf!Booting("pending", {}) /\ UNCHANGED conf
             \/ gTodo # {} /\ Conf!Booting("down", {}) /\ UNCHANGED conf
    <3>1. Conf!DefaultsCome'
      BY <1>0, <2>0, <2>2 DEF Conf!Booting, Conf!DefaultsCome, Conf!NothingDeleted, Conf!Nulls
    <3> QED BY <1>0, <2>0, <2>1, <2>2, <3>1, CsStart DEF Conf!Booting, Conf!TypeOK
  <2>3. ASSUME NEW k \in gTodo, conf' = [conf EXCEPT ![k] = Conf!Default], Conf!Booting("seed", gTodo \ {k})
        PROVE  Conf!IInv'
    <3>0. k \in Keys /\ k \in Seeded \cup Registered /\ UNCHANGED <<wanted, presets, Conf!saveVars, completed, gCrashes>>
          /\ gAt' = "seed" /\ gTodo' = gTodo \ {k} /\ (wanted[k] = Conf!None \/ Conf!ReadsFail)
      BY <1>0, <1>a, <2>0, <2>3 DEF Conf!TypeOK, Conf!NothingBefore, Conf!Booting
    <3>1. /\ conf' \in [Keys -> Conf!Values] /\ Conf!WrittenStays' /\ Conf!MaskIsNotStored'
          /\ Conf!ListenIsSet'
          /\ \A j \in Keys : conf[j] # Conf!None => conf'[j] # Conf!None
          /\ conf'[k] # Conf!None
      BY <2>3, <3>0, CsDefaults
    <3>2. Conf!TypeOK'
      BY <1>0, <2>0, <3>0, <3>1 DEF Conf!TypeOK, Conf!saveVars
    <3>3. Conf!NothingBefore' /\ Conf!SavesAreUp'
      BY <1>0, <2>0, <3>0 DEF Conf!NothingBefore, Conf!SavesAreUp, Conf!saveVars, Conf!Nulls
    <3>4. Conf!DefaultsCome'
      BY <1>0, <1>a, <2>0, <3>0, <3>1 DEF Conf!DefaultsCome, Conf!NothingDeleted, Conf!Nulls
    <3> QED BY <2>1, <3>1, <3>2, <3>3, <3>4 DEF Conf!IInv
  <2> QED BY <1>2, <2>2, <2>3 DEF Conf!Seed
<1>3. CASE Conf!MarkPending
  <2>0. (~completed \/ Conf!ReadsFail) /\ UNCHANGED completed
    BY <1>0, <1>3 DEF Conf!MarkPending, Conf!Booting, Conf!NothingBefore
  <2>1. Conf!SetupIsAskedOnce'
    BY <2>0 DEF Conf!SetupIsAskedOnce, Conf!ReadsFail
  <2>2. Conf!DefaultsCome'
    BY <1>0, <1>3 DEF Conf!MarkPending, Conf!Booting, Conf!DefaultsCome, Conf!NothingDeleted,
       Conf!Nulls
  <2>3. setup' \in BOOLEAN
    BY <1>0, <1>3 DEF Conf!MarkPending, Conf!TypeOK
  <2> QED BY <1>0, <1>3, <2>1, <2>2, <2>3, CsStart DEF Conf!MarkPending, Conf!Booting,
     Conf!TypeOK, Conf!NothingBefore
<1>4. CASE Conf!MarkInitialized
  <2>0. UNCHANGED <<setup, completed>>
    BY <1>4 DEF Conf!MarkInitialized, Conf!Booting
  <2>1. Conf!SetupIsAskedOnce'
    BY <1>0, <2>0 DEF Conf!SetupIsAskedOnce
  <2>2. Conf!DefaultsCome'
    BY <1>0, <1>4 DEF Conf!MarkInitialized, Conf!Booting, Conf!DefaultsCome,
       Conf!NothingDeleted, Conf!Nulls
  <2> QED BY <1>0, <1>4, <1>a, <2>1, <2>2, CsStart DEF Conf!MarkInitialized, Conf!Booting,
     Conf!TypeOK, Conf!NothingBefore
<1>5. CASE Conf!EnsureDefaults
  <2>0. gAt = "ensure" /\ initialized /\ UNCHANGED <<initialized, setup, completed, wanted, presets, Conf!saveVars, gCrashes>>
    BY <1>0, <1>5 DEF Conf!EnsureDefaults, Conf!Booting, Conf!NothingBefore
  <2>1. Conf!SetupIsAskedOnce'
    BY <1>0, <2>0 DEF Conf!SetupIsAskedOnce
  <2>2. CASE gTodo = {} /\ Conf!Booting("up", {}) /\ UNCHANGED conf
    <3>1. Conf!DefaultsCome'
      BY <1>0, <2>0, <2>2 DEF Conf!Booting, Conf!DefaultsCome, Conf!NothingDeleted, Conf!Nulls
    <3> QED BY <1>0, <2>0, <2>1, <2>2, <3>1, CsStart DEF Conf!Booting, Conf!TypeOK
  <2>3. ASSUME NEW k \in gTodo, Conf!Booting("ensure", gTodo \ {k}), UNCHANGED conf, conf[k] # Conf!None \/ Conf!WritesFail
        PROVE  Conf!IInv'
    <3>1. Conf!DefaultsCome'
      BY <1>0, <2>0, <2>3 DEF Conf!Booting, Conf!DefaultsCome, Conf!NothingDeleted, Conf!Nulls
    <3> QED BY <1>0, <2>0, <2>1, <2>3, <3>1, CsStart DEF Conf!Booting, Conf!TypeOK
  <2>4. ASSUME NEW k \in gTodo, Conf!Booting("ensure", gTodo \ {k}), conf[k] = Conf!None \/ Conf!ReadsFail,
               conf' = [conf EXCEPT ![k] = Conf!Default]
        PROVE  Conf!IInv'
    <3>0. k \in Keys /\ gAt' = "ensure" /\ gTodo' = gTodo \ {k}
          /\ (wanted[k] = Conf!None \/ (Conf!ReadsFail /\ k \in Seeded \cup Registered))
      <4>1. k \in Keys /\ k \in Seeded \cup Registered
        BY <1>0, <1>a, <2>4 DEF Conf!TypeOK
      <4>2. conf[k] = Conf!None => wanted[k] = Conf!None \/ Conf!ReadsFail
        BY <1>0, <4>1 DEF Conf!WrittenStays
      <4> QED BY <2>4, <4>1, <4>2 DEF Conf!Booting
    <3>1. /\ conf' \in [Keys -> Conf!Values] /\ Conf!WrittenStays' /\ Conf!MaskIsNotStored'
          /\ Conf!ListenIsSet'
          /\ \A j \in Keys : conf[j] # Conf!None => conf'[j] # Conf!None
          /\ conf'[k] # Conf!None
      BY <2>0, <2>4, <3>0, CsDefaults
    <3>2. Conf!TypeOK'
      BY <1>0, <2>0, <3>0, <3>1 DEF Conf!TypeOK, Conf!saveVars
    <3>3. Conf!NothingBefore' /\ Conf!SavesAreUp'
      BY <1>0, <2>0, <3>0 DEF Conf!NothingBefore, Conf!SavesAreUp, Conf!saveVars, Conf!Nulls
    <3>4. Conf!DefaultsCome'
      BY <1>0, <1>a, <2>0, <3>0, <3>1 DEF Conf!DefaultsCome, Conf!NothingDeleted, Conf!Nulls
    <3> QED BY <2>1, <3>1, <3>2, <3>3, <3>4 DEF Conf!IInv
  <2>5. ASSUME NEW k \in gTodo, Conf!Booting("ensure", gTodo \ {k}),
               \/ (conf[k] = Conf!None \/ Conf!ReadsFail) /\ conf' = [conf EXCEPT ![k] = Conf!Default]
               \/ (conf[k] # Conf!None \/ Conf!WritesFail) /\ UNCHANGED conf
        PROVE  Conf!IInv'
    BY <2>3, <2>4, <2>5
  <2> QED BY <1>5, <2>2, <2>5 DEF Conf!EnsureDefaults
<1>6. ASSUME NEW s \in Saves, Conf!BeginSave(s) PROVE Conf!IInv'
  <2>0. /\ gAt = "up" /\ gPc' = [gPc EXCEPT ![s] = "deleting"]
        /\ gLeft' = [gLeft EXCEPT ![s] = Conf!Nulls(s)]
        /\ UNCHANGED <<conf, Conf!metaVars, presets, gAt, gTodo, wanted, gCrashes>>
        /\ initialized
    BY <1>0, <1>6 DEF Conf!BeginSave, Conf!NothingBefore
  <2>1. Conf!Nulls(s) \subseteq Spellings
    BY DEF Conf!Nulls, Conf!ConfigAssumption
  <2>2. Conf!TypeOK'
    BY <1>0, <2>0, <2>1 DEF Conf!TypeOK, Conf!metaVars
  <2>3. Conf!NothingBefore'
    BY <1>0, <2>0 DEF Conf!NothingBefore, Conf!metaVars
  <2>4. Conf!SavesAreUp'
    BY <1>0, <2>0 DEF Conf!SavesAreUp, Conf!TypeOK, Conf!Nulls
  <2>5. Conf!DefaultsCome'
    BY <1>0, <2>0 DEF Conf!DefaultsCome, Conf!NothingDeleted, Conf!Nulls, Conf!metaVars
  <2>6. Conf!WrittenStays' /\ Conf!MaskIsNotStored' /\ Conf!ListenIsSet' /\ Conf!SetupIsAskedOnce'
    BY <1>0, <2>0 DEF Conf!WrittenStays, Conf!MaskIsNotStored, Conf!ListenIsSet,
       Conf!NoMaskIsSet, Conf!PlainListen, Conf!SetupIsAskedOnce, Conf!metaVars
  <2> QED BY <2>2, <2>3, <2>4, <2>5, <2>6 DEF Conf!IInv
<1>7. ASSUME NEW s \in Saves, Conf!Delete(s) PROVE Conf!IInv'
  <2>0. /\ gAt = "up" /\ UNCHANGED <<Conf!metaVars, presets, gAt, gTodo, gPc, gCrashes>>
        /\ initialized
        /\ gPc[s] = "deleting"
    BY <1>0, <1>7 DEF Conf!Delete, Conf!NothingBefore, Conf!SavesAreUp
  <2>1. PICK x \in gLeft[s] : /\ gLeft' = [gLeft EXCEPT ![s] = @ \ {x}]
                              /\ \/ /\ conf' = [conf EXCEPT ![LowerOf[x]] = Conf!None]
                                    /\ wanted' = [wanted EXCEPT ![LowerOf[x]] = Conf!None]
                                 \/ UNCHANGED <<conf, wanted>>
    BY <1>7 DEF Conf!Delete
  <2>2. x \in Spellings /\ LowerOf[x] \in Keys /\ ~Conf!NothingDeleted
    BY <1>0, <2>1 DEF Conf!TypeOK, Conf!SavesAreUp, Conf!ConfigAssumption, Conf!NothingDeleted
  <2>3. gLeft' \in [Saves -> SUBSET Spellings] /\ \A z \in Saves : gLeft'[z] \subseteq gLeft[z]
    BY <1>0, <2>1 DEF Conf!TypeOK
  <2>4. /\ conf' \in [Keys -> Conf!Values] /\ wanted' \in [Keys -> Conf!Values]
        /\ \A k \in Keys : \/ conf'[k] = conf[k] /\ wanted'[k] = wanted[k]
                           \/ conf'[k] = Conf!None /\ wanted'[k] = Conf!None
    BY <1>0, <2>1, <2>2 DEF Conf!TypeOK, Conf!Values
  <2>5. Conf!TypeOK'
    BY <1>0, <2>0, <2>3, <2>4 DEF Conf!TypeOK, Conf!metaVars
  <2>6. Conf!NothingBefore'
    BY <1>0, <2>0 DEF Conf!NothingBefore, Conf!metaVars
  <2>7. Conf!SavesAreUp'
    BY <1>0, <2>0, <2>3 DEF Conf!SavesAreUp, Conf!Nulls
  <2>8. Conf!DefaultsCome'
    BY <2>2 DEF Conf!DefaultsCome, Conf!NothingDeleted, Conf!Nulls
  <2>9. Conf!WrittenStays'
    BY <1>0, <2>4 DEF Conf!WrittenStays
  <2>10. Conf!MaskIsNotStored'
    BY <1>0, <2>0, <2>4 DEF Conf!MaskIsNotStored, Conf!NoMaskIsSet, Conf!None, Conf!Mask
  <2>11. Conf!ListenIsSet'
    BY <1>0, <2>4 DEF Conf!ListenIsSet, Conf!PlainListen, Conf!None, Conf!Empty,
       Conf!ConfigAssumption
  <2>12. Conf!SetupIsAskedOnce'
    BY <1>0, <2>0 DEF Conf!SetupIsAskedOnce, Conf!metaVars
  <2> QED BY <2>5, <2>6, <2>7, <2>8, <2>9, <2>10, <2>11, <2>12 DEF Conf!IInv
<1>8. ASSUME NEW values, \A k \in Keys : values[k] \subseteq CsGood(k), NEW outcome,
             Conf!SetMany(values, outcome, "ok", "failed")
      PROVE  CsWrites /\ UNCHANGED <<gAt, gTodo, gCrashes>>
  <2>1. PICK some \in SUBSET Keys : Conf!Written(values, some) /\ Conf!Lives
    BY <1>8 DEF Conf!SetMany, Conf!All
  <2>2. CsWrites
    BY <1>0, <1>8, <2>1, CsWritten
  <2> QED BY <2>1, <2>2 DEF Conf!Lives
<1>9. ASSUME NEW s \in Saves, Conf!Save(s) PROVE Conf!IInv'
  <2>0. /\ gAt = "up" /\ initialized /\ UNCHANGED <<Conf!metaVars, presets, gLeft>>
    BY <1>0, <1>9 DEF Conf!Save, Conf!NothingBefore, Conf!SavesAreUp
  <2>1. PICK outcome \in {"ok", "failed"} :
          Conf!SetMany(Conf!ValuesOf(s), outcome, "ok", "failed") /\ gPc' = [gPc EXCEPT ![s] = outcome]
    BY <1>9 DEF Conf!Save
  <2>2. \A k \in Keys : Conf!ValuesOf(s)[k] \subseteq CsGood(k)
    BY CsSaved
  <2>3. CsWrites /\ UNCHANGED <<gAt, gTodo, gCrashes>>
    BY <1>8, <2>1, <2>2
  <2>4. gPc' \in [Saves -> {"new", "deleting", "ok", "failed", "over"}]
    BY <1>0, <2>1 DEF Conf!TypeOK
  <2>5. Conf!SavesAreUp'
    BY <1>0, <2>0, <2>1, <2>3 DEF Conf!SavesAreUp, Conf!TypeOK, Conf!Nulls
  <2>6. gLeft' \in [Saves -> SUBSET Spellings] /\ gCrashes' \in 0..MaxRestarts
    BY <1>0, <2>0, <2>3 DEF Conf!TypeOK
  <2>7. UNCHANGED <<Conf!metaVars, presets>>
    BY <2>0
  <2> QED BY <2>0, <2>3, <2>4, <2>5, <2>6, <2>7, CsWriter
<1>10. ASSUME NEW s \in Sets, Conf!ToolSets(s) PROVE Conf!IInv'
  <2>1. PICK v : v = IF s.value = Conf!Quoted THEN Conf!Empty ELSE s.value
    OBVIOUS
  <2>2. PICK values : values = [k \in Keys |-> IF k = s.key THEN {v} ELSE {}]
    OBVIOUS
  <2>3. /\ gAt = "up" /\ initialized /\ Conf!Written(values, {s.key})
        /\ UNCHANGED <<Conf!metaVars, presets, Conf!saveVars, gAt, gTodo, gCrashes>>
        /\ ~(s.key = Listen /\ s.value = Conf!Empty)
    BY <1>0, <1>10, <2>1, <2>2 DEF Conf!ToolSets, Conf!NothingBefore
  <2>4. s.key \in Keys /\ v \in CsGood(s.key)
    BY <2>1, <2>3, CsSet
  <2>5. CsWrites
    BY <1>0, <2>2, <2>3, <2>4, CsWritten
  <2>6. /\ gPc' \in [Saves -> {"new", "deleting", "ok", "failed", "over"}]
        /\ gLeft' \in [Saves -> SUBSET Spellings] /\ gCrashes' \in 0..MaxRestarts
    BY <1>0, <2>3 DEF Conf!TypeOK, Conf!saveVars
  <2>7. Conf!SavesAreUp'
    BY <1>0, <2>3 DEF Conf!SavesAreUp, Conf!saveVars, Conf!Nulls
  <2>8. UNCHANGED <<Conf!metaVars, presets>>
    BY <2>3
  <2>9. gAt' = gAt /\ gTodo' = gTodo
    BY <2>3
  <2> QED BY <2>3, <2>5, <2>6, <2>7, <2>8, <2>9, CsWriter
<1>11. ASSUME NEW n \in Presets, Conf!SavePreset(n) \/ Conf!DeletePreset(n) PROVE Conf!IInv'
  <2>0. /\ UNCHANGED <<conf, Conf!metaVars, Conf!saveVars, gAt, gTodo, wanted, gCrashes>>
        /\ \/ presets' = [presets EXCEPT ![n] = {}]
           \/ \E read \in SUBSET Keys :
                presets' = [presets EXCEPT ![n] = {[k \in Keys |-> IF k \in read THEN conf[k] ELSE Conf!None]}]
    BY <1>11 DEF Conf!SavePreset, Conf!DeletePreset
  <2>p. \E new \in SUBSET [Keys -> Conf!Values] :
          /\ presets' = [presets EXCEPT ![n] = new]
          /\ \A c \in new : \A k \in Keys : c[k] = conf[k] \/ c[k] = Conf!None
    <3>1. CASE presets' = [presets EXCEPT ![n] = {}]
      <4>1. {} \in SUBSET [Keys -> Conf!Values]
        OBVIOUS
      <4> WITNESS {} \in SUBSET [Keys -> Conf!Values]
      <4> QED BY <3>1
    <3>2. ASSUME NEW read \in SUBSET Keys,
                 presets' = [presets EXCEPT ![n] = {[k \in Keys |-> IF k \in read THEN conf[k] ELSE Conf!None]}]
          PROVE  \E new \in SUBSET [Keys -> Conf!Values] :
                   /\ presets' = [presets EXCEPT ![n] = new]
                   /\ \A c \in new : \A k \in Keys : c[k] = conf[k] \/ c[k] = Conf!None
      <4>1. [k \in Keys |-> IF k \in read THEN conf[k] ELSE Conf!None] \in [Keys -> Conf!Values]
        BY <1>0 DEF Conf!TypeOK, Conf!Values
      <4>2. PICK c : c = [k \in Keys |-> IF k \in read THEN conf[k] ELSE Conf!None]
        OBVIOUS
      <4>3. {c} \in SUBSET [Keys -> Conf!Values] /\ presets' = [presets EXCEPT ![n] = {c}]
        BY <3>2, <4>1, <4>2
      <4>4. \A k \in Keys : c[k] = conf[k] \/ c[k] = Conf!None
        BY <4>2
      <4> {c} \in SUBSET [Keys -> Conf!Values]
        BY <4>3
      <4> WITNESS {c} \in SUBSET [Keys -> Conf!Values]
      <4> QED BY <4>3, <4>4
    <3> QED BY <2>0, <3>1, <3>2
  <2>1. presets' \in [Presets -> SUBSET [Keys -> Conf!Values]]
    BY <1>0, <2>p DEF Conf!TypeOK
  <2>2. Conf!TypeOK'
    BY <1>0, <2>0, <2>1 DEF Conf!TypeOK, Conf!metaVars, Conf!saveVars
  <2>3. Conf!NothingBefore' /\ Conf!SavesAreUp' /\ Conf!DefaultsCome' /\ Conf!WrittenStays' /\ Conf!SetupIsAskedOnce' /\ Conf!ListenIsSet'
    BY <1>0, <2>0 DEF Conf!NothingBefore, Conf!SavesAreUp, Conf!DefaultsCome, Conf!WrittenStays,
       Conf!SetupIsAskedOnce, Conf!ListenIsSet,
                      Conf!metaVars, Conf!saveVars, Conf!Nulls, Conf!NothingDeleted, Conf!PlainListen
  <2>4. \A m \in Presets : \A c \in presets'[m] : c \in presets[m] \/ \A k \in Keys : c[k] = conf[k] \/ c[k] = Conf!None
    BY <1>0, <2>p DEF Conf!TypeOK
  <2>5. Conf!MaskIsNotStored'
    BY <1>0, <2>0, <2>4 DEF Conf!MaskIsNotStored, Conf!NoMaskIsSet, Conf!None, Conf!Mask
  <2> QED BY <2>2, <2>3, <2>5 DEF Conf!IInv
<1>12. ASSUME NEW n \in Presets, Conf!ApplyPreset(n) PROVE Conf!IInv'
  <2>0. /\ gAt = "up" /\ initialized /\ UNCHANGED <<Conf!metaVars, presets, Conf!saveVars>>
    BY <1>0, <1>12 DEF Conf!ApplyPreset, Conf!NothingBefore
  <2>1. PICK outcome \in {"ok", "failed"} : Conf!SetMany(Conf!Snapshot(n), outcome, "ok", "failed")
    BY <1>12 DEF Conf!ApplyPreset
  <2>2. \A k \in Keys : Conf!Snapshot(n)[k] \subseteq CsGood(k)
    BY <1>0, CsSnap
  <2>3. CsWrites /\ UNCHANGED <<gAt, gTodo, gCrashes>>
    BY <1>8, <2>1, <2>2
  <2>6. /\ gPc' \in [Saves -> {"new", "deleting", "ok", "failed", "over"}]
        /\ gLeft' \in [Saves -> SUBSET Spellings] /\ gCrashes' \in 0..MaxRestarts
    BY <1>0, <2>0, <2>3 DEF Conf!TypeOK, Conf!saveVars
  <2>7. Conf!SavesAreUp'
    BY <1>0, <2>0, <2>3 DEF Conf!SavesAreUp, Conf!saveVars, Conf!Nulls
  <2>8. UNCHANGED <<Conf!metaVars, presets>>
    BY <2>0
  <2> QED BY <2>0, <2>3, <2>6, <2>7, <2>8, CsWriter
<1>13. CASE Conf!CompleteSetup
  <2>0. /\ gAt = "up" /\ initialized /\ completed' = TRUE
        /\ UNCHANGED <<conf, initialized, presets, Conf!saveVars, gAt, gTodo, wanted, gCrashes>>
    BY <1>0, <1>13 DEF Conf!CompleteSetup, Conf!NothingBefore
  <2>2. Conf!TypeOK'
    BY <1>0, <2>0, <1>13 DEF Conf!TypeOK, Conf!saveVars, Conf!CompleteSetup
  <2>3. Conf!NothingBefore' /\ Conf!SavesAreUp' /\ Conf!DefaultsCome' /\ Conf!WrittenStays'
    BY <1>0, <2>0, <1>13 DEF Conf!NothingBefore, Conf!SavesAreUp, Conf!DefaultsCome,
       Conf!WrittenStays, Conf!saveVars, Conf!Nulls, Conf!NothingDeleted, Conf!CompleteSetup
  <2>4. Conf!MaskIsNotStored' /\ Conf!ListenIsSet'
    BY <1>0, <2>0, <1>13 DEF Conf!MaskIsNotStored, Conf!ListenIsSet, Conf!PlainListen,
       Conf!NoMaskIsSet, Conf!CompleteSetup
  <2>5. Conf!SetupIsAskedOnce'
    BY <1>13 DEF Conf!SetupIsAskedOnce, Conf!CompleteSetup, Conf!WritesFail
  <2> QED BY <2>2, <2>3, <2>4, <2>5 DEF Conf!IInv
<1>14. CASE Conf!Crash
  <2>0. /\ gAt' = "down" /\ gTodo' = {} /\ gCrashes' \in 0..MaxRestarts
        /\ UNCHANGED <<Conf!metaVars, presets>>
        /\ gPc' = [s \in Saves |-> IF gPc[s] = "new" THEN "new" ELSE "over"] /\ gLeft' = [s \in Saves |-> {}]
    BY <1>0, <1>14 DEF Conf!Crash, Conf!Dies, Conf!TypeOK, Conf!ConfigAssumption
  <2>1. /\ gPc' \in [Saves -> {"new", "deleting", "ok", "failed", "over"}]
        /\ gLeft' \in [Saves -> SUBSET Spellings]
    BY <2>0
  <2>2. Conf!SavesAreUp'
    BY <2>0 DEF Conf!SavesAreUp, Conf!Nulls
  <2>3. CASE UNCHANGED <<conf, wanted>>
    <3>2. Conf!TypeOK'
      BY <1>0, <2>0, <2>1, <2>3 DEF Conf!TypeOK, Conf!metaVars
    <3>3. Conf!NothingBefore'
      BY <1>0, <2>0, <2>3 DEF Conf!NothingBefore, Conf!metaVars
    <3>4. Conf!DefaultsCome' /\ Conf!WrittenStays' /\ Conf!SetupIsAskedOnce'
      BY <1>0, <2>0, <2>3 DEF Conf!DefaultsCome, Conf!WrittenStays, Conf!SetupIsAskedOnce,
         Conf!metaVars, Conf!NothingDeleted, Conf!Nulls
    <3>5. Conf!MaskIsNotStored' /\ Conf!ListenIsSet'
      BY <1>0, <2>0, <2>3 DEF Conf!MaskIsNotStored, Conf!ListenIsSet, Conf!PlainListen,
         Conf!NoMaskIsSet
    <3> QED BY <2>2, <3>2, <3>3, <3>4, <3>5 DEF Conf!IInv
  <2>4. ASSUME NEW s \in Saves, gPc[s] = "deleting", NEW some \in SUBSET Conf!All(Conf!ValuesOf(s)),
               Conf!Written(Conf!ValuesOf(s), some)
        PROVE  Conf!IInv'
    <3>1. initialized /\ some \in SUBSET Keys
      BY <1>0, <2>4 DEF Conf!NothingBefore, Conf!SavesAreUp, Conf!All
    <3>2. \A k \in Keys : Conf!ValuesOf(s)[k] \subseteq CsGood(k)
      BY CsSaved
    <3>3. CsWrites
      BY <1>0, <2>4, <3>1, <3>2, CsWritten
    <3> QED BY <2>0, <2>1, <2>2, <3>1, <3>3, CsWriter
  <2>5. ASSUME NEW n \in Presets, gAt = "up", NEW some \in SUBSET Conf!All(Conf!Snapshot(n)),
               Conf!Written(Conf!Snapshot(n), some)
        PROVE  Conf!IInv'
    <3>1. initialized /\ some \in SUBSET Keys
      BY <1>0, <2>5 DEF Conf!NothingBefore, Conf!All
    <3>2. \A k \in Keys : Conf!Snapshot(n)[k] \subseteq CsGood(k)
      BY <1>0, CsSnap
    <3>3. CsWrites
      BY <1>0, <2>5, <3>1, <3>2, CsWritten
    <3> QED BY <2>0, <2>1, <2>2, <3>1, <3>3, CsWriter
  <2> QED BY <1>14, <2>3, <2>4, <2>5 DEF Conf!Crash
<1> QED BY <1>1, <1>2, <1>3, <1>4, <1>5, <1>6, <1>7, <1>9, <1>10, <1>11, <1>12, <1>13, <1>14
   DEF Conf!Next

LEMMA CsStutter == ASSUME Conf!IInv, UNCHANGED Conf!vars PROVE Conf!IInv'
<1>1. Conf!TypeOK' /\ Conf!NothingBefore' /\ Conf!SavesAreUp' /\ Conf!DefaultsCome'
  BY DEF Conf!IInv, Conf!vars, Conf!metaVars, Conf!saveVars, Conf!TypeOK, Conf!NothingBefore,
     Conf!SavesAreUp, Conf!DefaultsCome, Conf!NothingDeleted, Conf!Nulls
<1>2. Conf!WrittenStays' /\ Conf!SetupIsAskedOnce' /\ Conf!MaskIsNotStored' /\ Conf!ListenIsSet'
  BY DEF Conf!IInv, Conf!vars, Conf!metaVars, Conf!saveVars, Conf!WrittenStays,
     Conf!SetupIsAskedOnce, Conf!MaskIsNotStored, Conf!ListenIsSet,
         Conf!NoMaskIsSet, Conf!PlainListen
<1> QED BY <1>1, <1>2 DEF Conf!IInv

LEMMA CsKeeps == ASSUME Conf!IInv PROVE Conf!DefaultsAreThere
<1>0. Conf!NothingBefore /\ Conf!DefaultsCome
  BY DEF Conf!IInv
<1> QED BY <1>0 DEF Conf!NothingBefore, Conf!DefaultsCome, Conf!DefaultsAreThere

-------------------------------------------------------------------------------
(* Mcp.                                                                    *)

LEMMA McMakers ==
  ASSUME Mcp!McpAssumption
  PROVE  /\ \A c \in Mcp!Makers : c.server \in Servers /\ c # Mcp!NoOne /\ c # Mcp!Own
         /\ \A o \in Ops : o \in Mcp!Makers /\ o # Mcp!NoOne /\ o # Mcp!Own /\ o.server \in Servers
         /\ \A s \in Servers : Mcp!Boot(s) \in Mcp!Makers /\ Mcp!Boot(s) \notin Ops /\ Mcp!Boot(s).server = s
         /\ \A c \in Mcp!Makers : c \in Ops \/ \E s \in Servers : c = Mcp!Boot(s)
         /\ Mcp!NoOne # Mcp!Own /\ Mcp!NoOne.server \notin Servers
         /\ Mcp!Own.server \notin Servers
<1>1. \A o \in Ops : o.server \in Servers /\ o.kind \in {"add", "remove", "reconnect"}
  BY DEF Mcp!McpAssumption
<1>2. {"none", "bot"} \cap Servers = {}
  BY DEF Mcp!McpAssumption
<1>3. Mcp!NoOne.server = "none" /\ Mcp!Own.server = "bot" /\ Mcp!NoOne.kind = "none" /\ Mcp!Own.kind = "bot"
  BY DEF Mcp!NoOne, Mcp!Own
<1>4. \A s \in Servers : Mcp!Boot(s).kind = "start" /\ Mcp!Boot(s).server = s
  BY DEF Mcp!Boot
<1>5. \A c \in Mcp!Makers : c \in Ops \/ \E s \in Servers : c = Mcp!Boot(s)
  BY DEF Mcp!Makers
<1>6. \A c \in Mcp!Makers : c.server \in Servers /\ c # Mcp!NoOne /\ c # Mcp!Own
  BY <1>1, <1>2, <1>3, <1>4, <1>5
<1>7. \A o \in Ops : o \in Mcp!Makers
  BY DEF Mcp!Makers
<1>8. \A s \in Servers : Mcp!Boot(s) \in Mcp!Makers /\ Mcp!Boot(s) \notin Ops
  BY <1>1, <1>4 DEF Mcp!Makers
<1>9. Mcp!NoOne # Mcp!Own
  BY <1>3
<1> QED BY <1>1, <1>2, <1>3, <1>4, <1>5, <1>6, <1>7, <1>8, <1>9

\* A step of one call that changes no tool, no manager and no connection.
LEMMA McMoves ==
  ASSUME Mcp!McpAssumption, Mcp!IInv, NEW o \in Ops, NEW w \in Mcp!Steps, Mcp!To(o, w),
         UNCHANGED <<tools, managers, mgr, open, Mcp!sessVars>>,
         config' \subseteq Servers, cfg' \in [Ops -> SUBSET Servers],
         old' \in [Ops -> Mcp!Makers \cup {Mcp!NoOne}], \A p \in Ops : p # o => old'[p] = old[p],
         mStep[o] \in Mcp!After => w \in Mcp!After /\ old'[o] = old[o],
         mStep[o] \notin {"register", "swap"}, w \notin {"register", "swap"},
         o.kind = "remove" => w \in {"write", "unregister", "done", "failed", "refused"},
         w \in {"lock", "connect again"} => old'[o] \in Mcp!Makers /\ old'[o].server = o.server,
         w = "lock" => Lazy, w = "connect again" => ~Lazy,
         w \in {"new", "check", "connect", "save"} => old'[o] = Mcp!NoOne,
         old'[o] = old[o] \/ (Lazy /\ old'[o] \in Ops => mStep[old'[o]] \in Mcp!After /\ old[old'[o]] = Mcp!NoOne),
         w = "connect" => \A n \in Names : tools[n].server # o.server
  PROVE  Mcp!IInv'
<1>0. /\ Mcp!TypeOK /\ Mcp!OneWay /\ Mcp!Kinds /\ Mcp!Found /\ Mcp!Connected /\ Mcp!Used
      /\ Mcp!Named /\ Mcp!Keep
      /\ Mcp!OfferedToolsWork /\ Mcp!CacheIsCurrent
  BY DEF Mcp!IInv
<1>1. /\ tools' = tools /\ managers' = managers /\ mgr' = mgr /\ open' = open
      /\ loaders' = loaders /\ sess' = sess
  BY DEF Mcp!sessVars
<1>2. /\ mStep' \in [Ops -> Mcp!Steps] /\ mStep'[o] = w
      /\ \A p \in Ops : p # o => mStep'[p] = mStep[p]
  BY <1>0 DEF Mcp!TypeOK, Mcp!To
<1>3. Mcp!TypeOK'
  BY <1>0, <1>1, <1>2 DEF Mcp!TypeOK
<1>4. Mcp!OneWay'
  BY <1>0, <1>1, <1>2 DEF Mcp!OneWay
<1>5. Mcp!Kinds'
  BY <1>0, <1>2 DEF Mcp!Kinds
<1>6. Mcp!Found'
  <2>1. \A p \in Ops : /\ mStep'[p] \in {"lock", "connect again", "swap"} => old'[p] \in Mcp!Makers /\ old'[p].server = p.server
                       /\ mStep'[p] \in {"new", "check", "connect", "register", "save"} => old'[p] = Mcp!NoOne
    BY <1>0, <1>2 DEF Mcp!Found, Mcp!FoundBefore, Mcp!FoundBusy, Mcp!FoundFree
  <2>2. ASSUME NEW p \in Ops, Lazy, mStep'[p] \in {"connect again", "swap"}
        PROVE  mgr'[old'[p]].busy = p
    <3>1. p # o
      BY <1>2, <2>2
    <3>2. mStep[p] \in {"connect again", "swap"} /\ old'[p] = old[p]
      BY <1>2, <2>2, <3>1
    <3>3. mgr[old[p]].busy = p
      BY <1>0, <2>2, <3>2 DEF Mcp!Found, Mcp!FoundBefore, Mcp!FoundBusy, Mcp!FoundFree
    <3> QED BY <1>1, <3>2, <3>3
  <2>3. \A m \in Ops : mStep[m] \in Mcp!After => mStep'[m] \in Mcp!After /\ old'[m] = old[m]
    BY <1>2
  <2>4. ASSUME NEW p \in Ops, Lazy, old'[p] \in Ops
        PROVE  mStep'[old'[p]] \in Mcp!After /\ old'[old'[p]] = Mcp!NoOne
    <3>1. mStep[old'[p]] \in Mcp!After /\ old[old'[p]] = Mcp!NoOne
      <4>1. CASE old'[p] = old[p]
        BY <1>0, <2>4, <4>1 DEF Mcp!Found, Mcp!FoundBefore, Mcp!FoundBusy, Mcp!FoundFree
      <4>2. CASE old'[p] # old[p]
        BY <2>4, <4>2
      <4> QED BY <4>1, <4>2
    <3> QED BY <2>3, <2>4, <3>1
  <2> QED BY <2>1, <2>2, <2>4 DEF Mcp!Found, Mcp!FoundBefore, Mcp!FoundBusy, Mcp!FoundFree
<1>7. Mcp!Connected'
  BY <1>0, <1>1, <1>2 DEF Mcp!Connected
<1>8. Mcp!Used'
  <2>1. \A m \in Ops : mStep[m] \in Mcp!After => mStep'[m] \in Mcp!After /\ old'[m] = old[m]
    BY <1>2
  <2>2. /\ \A n \in Names : tools'[n] \in Ops => mStep'[tools'[n]] \in Mcp!After
        /\ \A m \in managers' : m \in Ops => mStep'[m] \in Mcp!After /\ old'[m] = Mcp!NoOne
    BY <1>0, <1>1, <2>1 DEF Mcp!Used
  <2>3. \A m \in Ops : mStep'[m] \notin Mcp!After => mgr'[m].client = m
    BY <1>0, <1>1, <2>1 DEF Mcp!Used
  <2>4. \A m \in Mcp!Makers : \/ mgr'[m].client = m
                              \/ /\ mgr'[m].client \in Ops /\ mStep'[mgr'[m].client] \in Mcp!After
                                 /\ old'[mgr'[m].client] = m
    <3> TAKE m \in Mcp!Makers
    <3>1. CASE mgr[m].client = m
      BY <1>1, <3>1
    <3>2. CASE mgr[m].client # m
      <4>1. /\ mgr[m].client \in Ops /\ mStep[mgr[m].client] \in Mcp!After
            /\ old[mgr[m].client] = m
        BY <1>0, <3>2 DEF Mcp!Used
      <4> QED BY <1>1, <2>1, <4>1
    <3> QED BY <3>1, <3>2
  <2> QED BY <2>2, <2>3, <2>4 DEF Mcp!Used
<1>9. Mcp!Named' /\ Mcp!OfferedToolsWork' /\ Mcp!CacheIsCurrent'
  BY <1>0, <1>1 DEF Mcp!Named, Mcp!OfferedToolsWork, Mcp!CacheIsCurrent
<1>10. Mcp!Keep'
  <2>1. ASSUME Mcp!Apart, NEW c \in open'
        PROVE  \/ \A n \in Mcp!OwnNames(c.server) : tools'[n] = c
               \/ c \in Ops /\ mStep'[c] \in {"register", "swap"}
    BY <1>0, <1>1, <1>2, <2>1 DEF Mcp!Keep
  <2>2. ASSUME Mcp!Apart, NEW p \in Ops, mStep'[p] \in {"connect", "register"}
        PROVE  \A n \in Names : tools'[n].server # p.server
    <3>1. CASE p = o
      BY <1>1, <1>2, <2>2, <3>1
    <3>2. CASE p # o
      <4>1. mStep[p] \in {"connect", "register"}
        BY <1>2, <2>2, <3>2
      <4>2. \A n \in Names : tools[n].server # p.server
        BY <1>0, <2>2, <4>1 DEF Mcp!Keep
      <4> QED BY <1>1, <4>2
    <3> QED BY <3>1, <3>2
  <2> QED BY <2>1, <2>2 DEF Mcp!Keep, Mcp!Apart
<1> QED BY <1>3, <1>4, <1>5, <1>6, <1>7, <1>8, <1>9, <1>10 DEF Mcp!IInv

LEMMA McMoving ==
  ASSUME Mcp!McpAssumption, Mcp!IInv, NEW o \in Ops,
         Mcp!AddReads(o) \/ Mcp!AddChecks(o) \/ Mcp!AddSaves(o) \/ Mcp!RemoveReads(o) \/ Mcp!RemoveWrites(o)
  PROVE  Mcp!IInv'
<1>0. /\ Mcp!TypeOK /\ Mcp!Kinds /\ Mcp!Found
      /\ o.server \in Servers /\ config \subseteq Servers /\ cfg \in [Ops -> SUBSET Servers]
      /\ old \in [Ops -> Mcp!Makers \cup {Mcp!NoOne}]
  BY McMakers DEF Mcp!IInv, Mcp!TypeOK
<1>1. CASE Mcp!AddReads(o)
  <2>1. PICK w \in {"refused", "check"} : Mcp!To(o, w)
    BY <1>1 DEF Mcp!AddReads
  <2>2. cfg' \in [Ops -> SUBSET Servers] /\ UNCHANGED old /\ o.kind = "add" /\ mStep[o] = "new"
    BY <1>0, <1>1 DEF Mcp!AddReads, Mcp!At
  <2>3. UNCHANGED <<tools, managers, mgr, open, Mcp!sessVars>> /\ config' = config
    BY <1>1 DEF Mcp!AddReads
  <2>4. old[o] = Mcp!NoOne
    BY <1>0, <2>2 DEF Mcp!Found, Mcp!FoundBefore, Mcp!FoundBusy, Mcp!FoundFree
  <2> QED BY <1>0, <2>1, <2>2, <2>3, <2>4, McMoves DEF Mcp!Steps, Mcp!After
<1>2. CASE Mcp!AddChecks(o)
  <2>1. /\ mStep[o] = "check" /\ UNCHANGED <<tools, managers, mgr, open, Mcp!sessVars>>
        /\ config' = config /\ cfg' = cfg /\ old' = old
    BY <1>2 DEF Mcp!AddChecks
  <2>2. o.kind # "remove" /\ old[o] = Mcp!NoOne
    BY <1>0, <2>1 DEF Mcp!Kinds, Mcp!Found, Mcp!FoundBefore, Mcp!FoundBusy, Mcp!FoundFree
  <2>3. CASE Mcp!HasMCP(o.server)
    <3>1. Mcp!To(o, "refused")
      BY <1>2, <2>3 DEF Mcp!AddChecks
    <3> QED BY <1>0, <2>1, <2>2, <3>1, McMoves DEF Mcp!Steps, Mcp!After
  <2>4. CASE ~Mcp!HasMCP(o.server)
    <3>1. Mcp!To(o, "connect")
      BY <1>2, <2>4 DEF Mcp!AddChecks
    <3>2. \A n \in Names : tools[n].server # o.server
      BY <1>0, <2>4, McMakers DEF Mcp!HasMCP
    <3> QED BY <1>0, <2>1, <2>2, <3>1, <3>2, McMoves DEF Mcp!Steps, Mcp!After
  <2> QED BY <2>3, <2>4
<1>3. CASE Mcp!AddSaves(o)
  <2>1. /\ mStep[o] = "save" /\ UNCHANGED <<tools, managers, mgr, open, Mcp!sessVars>>
        /\ cfg' = cfg /\ old' = old
    BY <1>3 DEF Mcp!AddSaves
  <2>2. o.kind # "remove" /\ old[o] = Mcp!NoOne
    BY <1>0, <2>1 DEF Mcp!Kinds, Mcp!Found, Mcp!FoundBefore, Mcp!FoundBusy, Mcp!FoundFree
  <2>3. config' \subseteq Servers
    BY <1>0, <1>3 DEF Mcp!AddSaves
  <2>4. PICK w \in {"done", "unregister"} : Mcp!To(o, w)
    BY <1>3 DEF Mcp!AddSaves
  <2> QED BY <1>0, <2>1, <2>2, <2>3, <2>4, McMoves DEF Mcp!Steps, Mcp!After
<1>4. CASE Mcp!RemoveReads(o)
  <2>1. PICK w \in {"refused", "write"} : Mcp!To(o, w)
    BY <1>4 DEF Mcp!RemoveReads
  <2>2. cfg' \in [Ops -> SUBSET Servers] /\ UNCHANGED old /\ mStep[o] = "new"
    BY <1>0, <1>4 DEF Mcp!RemoveReads, Mcp!At
  <2>3. UNCHANGED <<tools, managers, mgr, open, Mcp!sessVars>> /\ config' = config
    BY <1>4 DEF Mcp!RemoveReads
  <2> QED BY <1>0, <2>1, <2>2, <2>3, McMoves DEF Mcp!Steps, Mcp!After
<1>5. CASE Mcp!RemoveWrites(o)
  <2>1. PICK w \in {"unregister", "failed"} : Mcp!To(o, w)
    BY <1>5 DEF Mcp!RemoveWrites
  <2>2. UNCHANGED <<cfg, old>> /\ mStep[o] = "write" /\ config' \subseteq Servers
    BY <1>0, <1>5 DEF Mcp!RemoveWrites, Mcp!At
  <2>3. UNCHANGED <<tools, managers, mgr, open, Mcp!sessVars>>
    BY <1>5 DEF Mcp!RemoveWrites
  <2> QED BY <1>0, <2>1, <2>2, <2>3, McMoves DEF Mcp!Steps, Mcp!After
<1> QED BY <1>1, <1>2, <1>3, <1>4, <1>5

LEMMA McFinds ==
  ASSUME Mcp!McpAssumption, Mcp!IInv, NEW o \in Ops, Mcp!ReconnectFinds(o) PROVE Mcp!IInv'
<1>0. /\ Mcp!TypeOK /\ Mcp!OneWay /\ Mcp!Found /\ Mcp!Used
      /\ o.server \in Servers /\ config \subseteq Servers /\ cfg \in [Ops -> SUBSET Servers]
      /\ old \in [Ops -> Mcp!Makers \cup {Mcp!NoOne}]
  BY McMakers DEF Mcp!IInv, Mcp!TypeOK
<1>1. /\ o.kind = "reconnect" /\ mStep[o] = "new"
      /\ UNCHANGED <<tools, managers, mgr, open, Mcp!sessVars>>
      /\ config' = config /\ cfg' = cfg
  BY DEF Mcp!ReconnectFinds, Mcp!At
<1>2. old[o] = Mcp!NoOne
  BY <1>0, <1>1 DEF Mcp!Found, Mcp!FoundBefore, Mcp!FoundBusy, Mcp!FoundFree
<1>3. CASE Mcp!Of(o.server) # {}
  <2>1. PICK m \in Mcp!Of(o.server) : old' = [old EXCEPT ![o] = m] /\ Mcp!To(o, "lock")
    BY <1>3 DEF Mcp!ReconnectFinds
  <2>2. m \in managers /\ m \in Mcp!Makers /\ m.server = o.server /\ Lazy
    BY <1>0, <2>1 DEF Mcp!Of, Mcp!OneWay, Mcp!TypeOK
  <2>3. m \in Ops => mStep[m] \in Mcp!After /\ old[m] = Mcp!NoOne
    BY <1>0, <2>2 DEF Mcp!Used
  <2>4. /\ old' \in [Ops -> Mcp!Makers \cup {Mcp!NoOne}] /\ old'[o] = m
        /\ \A p \in Ops : p # o => old'[p] = old[p]
    BY <1>0, <2>1, <2>2
  <2> QED BY <1>0, <1>1, <2>1, <2>2, <2>3, <2>4, McMoves DEF Mcp!Steps, Mcp!After
<1>4. CASE Mcp!Of(o.server) = {} /\ \E n \in Names : tools[n].server = o.server
  <2>1. PICK n \in Names : tools[n].server = o.server /\ old' = [old EXCEPT ![o] = tools[n]]
                          /\ Mcp!To(o, "connect again")
    BY <1>4 DEF Mcp!ReconnectFinds
  <2>2. tools[n] \in Mcp!Makers /\ ~Lazy
    BY <1>0, <2>1, McMakers DEF Mcp!OneWay, Mcp!TypeOK
  <2>4. /\ old' \in [Ops -> Mcp!Makers \cup {Mcp!NoOne}] /\ old'[o] = tools[n]
        /\ \A p \in Ops : p # o => old'[p] = old[p]
    BY <1>0, <2>1, <2>2
  <2> QED BY <1>0, <1>1, <2>1, <2>2, <2>4, McMoves DEF Mcp!Steps, Mcp!After
<1>5. CASE Mcp!Of(o.server) = {} /\ ~\E n \in Names : tools[n].server = o.server
  <2>1. UNCHANGED old /\ Mcp!To(o, IF o.server \in config THEN "check" ELSE "refused")
    BY <1>5 DEF Mcp!ReconnectFinds
  <2>2. PICK w \in {"check", "refused"} : Mcp!To(o, w)
    BY <2>1
  <2> QED BY <1>0, <1>1, <1>2, <2>1, <2>2, McMoves DEF Mcp!Steps, Mcp!After
<1> QED BY <1>3, <1>4, <1>5

\* A client has connected.
LEMMA McOpens ==
  ASSUME Mcp!McpAssumption, Mcp!IInv, NEW o \in Ops, NEW w, Mcp!To(o, w), open' = open \cup {o},
         UNCHANGED <<tools, managers, mgr, config, cfg, old, Mcp!sessVars>>,
         (mStep[o] = "connect" /\ w = "register") \/ (mStep[o] = "connect again" /\ w = "swap")
  PROVE  Mcp!IInv'
<1>0. /\ Mcp!TypeOK /\ Mcp!OneWay /\ Mcp!Kinds /\ Mcp!Found /\ Mcp!Connected /\ Mcp!Used
      /\ Mcp!Named /\ Mcp!Keep
      /\ Mcp!OfferedToolsWork /\ Mcp!CacheIsCurrent
  BY DEF Mcp!IInv
<1>1. /\ tools' = tools /\ managers' = managers /\ mgr' = mgr /\ config' = config /\ cfg' = cfg
      /\ loaders' = loaders /\ sess' = sess /\ old' = old
  BY DEF Mcp!sessVars
<1>2. /\ mStep' \in [Ops -> Mcp!Steps] /\ mStep'[o] = w
      /\ \A p \in Ops : p # o => mStep'[p] = mStep[p]
  BY <1>0 DEF Mcp!TypeOK, Mcp!To, Mcp!Steps
<1>3. Mcp!TypeOK'
  BY <1>0, <1>1, <1>2, McMakers DEF Mcp!TypeOK
<1>4. Mcp!OneWay'
  BY <1>0, <1>1, <1>2 DEF Mcp!OneWay
<1>5. Mcp!Kinds'
  BY <1>0, <1>2 DEF Mcp!Kinds
<1>a. \A p \in Ops : mStep[p] \in Mcp!After => mStep'[p] \in Mcp!After
  BY <1>2 DEF Mcp!After
<1>6. Mcp!Found'
  <2>1. \A p \in Ops : /\ mStep'[p] \in {"lock", "connect again", "swap"} => old[p] \in Mcp!Makers /\ old[p].server = p.server
                       /\ mStep'[p] \in {"new", "check", "connect", "register", "save"} => old[p] = Mcp!NoOne
    BY <1>0, <1>2 DEF Mcp!Found, Mcp!FoundBefore, Mcp!FoundBusy, Mcp!FoundFree
  <2>2. \A p \in Ops : Lazy /\ mStep'[p] \in {"connect again", "swap"} => mgr[old[p]].busy = p
    BY <1>0, <1>2 DEF Mcp!Found, Mcp!FoundBefore, Mcp!FoundBusy, Mcp!FoundFree
  <2>3. ASSUME NEW p \in Ops, Lazy, old[p] \in Ops
        PROVE  mStep'[old[p]] \in Mcp!After /\ old[old[p]] = Mcp!NoOne
    BY <1>0, <1>a, <2>3 DEF Mcp!Found, Mcp!FoundBefore, Mcp!FoundBusy, Mcp!FoundFree
  <2> QED BY <1>1, <2>1, <2>2, <2>3 DEF Mcp!Found, Mcp!FoundBefore, Mcp!FoundBusy, Mcp!FoundFree
<1>7. Mcp!Connected'
  BY <1>0, <1>2 DEF Mcp!Connected
<1>8. Mcp!Used'
  <2>1. \A n \in Names : tools[n] \in Ops => mStep'[tools[n]] \in Mcp!After
    BY <1>0, <1>a DEF Mcp!Used
  <2>2. \A m \in managers : m \in Ops => mStep'[m] \in Mcp!After /\ old[m] = Mcp!NoOne
    BY <1>0, <1>a DEF Mcp!Used
  <2>3. \A m \in Ops : mStep'[m] \notin Mcp!After => mgr[m].client = m
    BY <1>0, <1>a DEF Mcp!Used
  <2>4. ASSUME NEW m \in Mcp!Makers, mgr[m].client # m
        PROVE  mgr[m].client \in Ops /\ mStep'[mgr[m].client] \in Mcp!After /\ old[mgr[m].client] = m
    <3>1. mgr[m].client \in Ops /\ mStep[mgr[m].client] \in Mcp!After /\ old[mgr[m].client] = m
      BY <1>0, <2>4 DEF Mcp!Used
    <3> QED BY <1>a, <3>1
  <2> QED BY <1>1, <2>1, <2>2, <2>3, <2>4 DEF Mcp!Used
<1>9. Mcp!Named' /\ Mcp!OfferedToolsWork' /\ Mcp!CacheIsCurrent'
  BY <1>0, <1>1 DEF Mcp!Named, Mcp!OfferedToolsWork, Mcp!CacheIsCurrent
<1>10. Mcp!Keep'
  <2>1. ASSUME Mcp!Apart, NEW c \in open'
        PROVE  \/ \A n \in Mcp!OwnNames(c.server) : tools'[n] = c
               \/ c \in Ops /\ mStep'[c] \in {"register", "swap"}
    <3>1. CASE c = o
      BY <1>2, <3>1
    <3>2. CASE c # o
      BY <1>0, <1>1, <1>2, <2>1, <3>2 DEF Mcp!Keep
    <3> QED BY <3>1, <3>2
  <2>2. ASSUME Mcp!Apart, NEW p \in Ops, mStep'[p] \in {"connect", "register"}
        PROVE  \A n \in Names : tools'[n].server # p.server
    <3>1. mStep[p] \in {"connect", "register"}
      BY <1>2, <2>2
    <3> QED BY <1>0, <1>1, <2>2, <3>1 DEF Mcp!Keep
  <2> QED BY <2>1, <2>2 DEF Mcp!Keep, Mcp!Apart
<1> QED BY <1>3, <1>4, <1>5, <1>6, <1>7, <1>8, <1>9, <1>10 DEF Mcp!IInv

\* A manager whose lock, or cache, changes.
McBusy(m, b) == [m EXCEPT !.busy = b]
LEMMA McIsBusy ==
  ASSUME NEW m \in Mcp!Managed, NEW b \in Ops \cup {Mcp!NoOne}, NEW r, r = McBusy(m, b)
  PROVE  r \in Mcp!Managed /\ r.client = m.client /\ r.cache = m.cache /\ r.busy = b
<1>1. PICK cs : cs = SUBSET (Names \X Mcp!Makers)
  OBVIOUS
<1>2. Mcp!Managed = [client : Mcp!Makers, cache : cs, busy : Ops \cup {Mcp!NoOne}]
  BY <1>1 DEF Mcp!Managed
<1> QED BY <1>2 DEF McBusy
McCached(m, e) == [m EXCEPT !.cache = @ \cup {e}]
LEMMA McIsCached ==
  ASSUME NEW m \in Mcp!Managed, NEW e \in Names \X Mcp!Makers, NEW r, r = McCached(m, e)
  PROVE  r \in Mcp!Managed /\ r.client = m.client /\ r.cache = m.cache \cup {e} /\ r.busy = m.busy
<1>1. PICK cs : cs = SUBSET (Names \X Mcp!Makers)
  OBVIOUS
<1>2. Mcp!Managed = [client : Mcp!Makers, cache : cs, busy : Ops \cup {Mcp!NoOne}]
  BY <1>1 DEF Mcp!Managed
<1>3. m.cache \in cs
  BY <1>2
<1>4. PICK d : d = m.cache \cup {e}
  OBVIOUS
<1>5. d \in cs
  BY <1>1, <1>3, <1>4
<1>6. r = [m EXCEPT !.cache = d]
  BY <1>4 DEF McCached
<1>7. r \in Mcp!Managed /\ r.client = m.client /\ r.cache = d /\ r.busy = m.busy
  BY <1>2, <1>5, <1>6
<1> QED BY <1>4, <1>7

\* A manager's lock is taken or let go.
LEMMA McLocks ==
  ASSUME Mcp!McpAssumption, Mcp!IInv, Lazy, NEW o \in Ops, NEW w, Mcp!To(o, w), NEW b \in Ops \cup {Mcp!NoOne},
         mgr' = [mgr EXCEPT ![old[o]].busy = b], mgr[old[o]].busy \in {Mcp!NoOne, o},
         UNCHANGED <<tools, managers, open, config, cfg, old, Mcp!sessVars>>,
         mStep[o] \in {"lock", "connect again"},
         (w = "connect again" /\ b = o) \/ w = "failed"
  PROVE  Mcp!IInv'
<1>0. /\ Mcp!TypeOK /\ Mcp!OneWay /\ Mcp!Kinds /\ Mcp!Found /\ Mcp!Connected /\ Mcp!Used
      /\ Mcp!Named /\ Mcp!Keep
      /\ Mcp!OfferedToolsWork /\ Mcp!CacheIsCurrent
  BY DEF Mcp!IInv
<1>1. /\ tools' = tools /\ managers' = managers /\ open' = open /\ config' = config
      /\ cfg' = cfg
      /\ loaders' = loaders /\ sess' = sess /\ old' = old
  BY DEF Mcp!sessVars
<1>2. /\ mStep' \in [Ops -> Mcp!Steps] /\ mStep'[o] = w
      /\ \A p \in Ops : p # o => mStep'[p] = mStep[p]
  BY <1>0 DEF Mcp!TypeOK, Mcp!To, Mcp!Steps
<1>m. old[o] \in Mcp!Makers /\ old[o].server = o.server
  BY <1>0 DEF Mcp!Found, Mcp!FoundBefore, Mcp!FoundBusy, Mcp!FoundFree
<1>b. /\ mgr' \in [Mcp!Makers -> Mcp!Managed]
      /\ \A m \in Mcp!Makers : /\ mgr'[m].client = mgr[m].client /\ mgr'[m].cache = mgr[m].cache
                               /\ m # old[o] => mgr'[m].busy = mgr[m].busy
      /\ mgr'[old[o]].busy = b
  <2>1. mgr \in [Mcp!Makers -> Mcp!Managed] /\ mgr[old[o]] \in Mcp!Managed
    BY <1>0, <1>m DEF Mcp!TypeOK
  <2>m. PICK m \in Mcp!Managed : m = mgr[old[o]]
    BY <2>1
  <2>2. PICK r : r = McBusy(m, b)
    OBVIOUS
  <2>5. r \in Mcp!Managed /\ r.client = m.client /\ r.cache = m.cache /\ r.busy = b
    BY ONLY <2>2, McIsBusy, m \in Mcp!Managed, b \in Ops \cup {Mcp!NoOne}
  <2>3. r \in Mcp!Managed /\ r.client = mgr[old[o]].client /\ r.cache = mgr[old[o]].cache /\ r.busy = b
    BY <2>m, <2>5
  <2>4. mgr' = [mgr EXCEPT ![old[o]] = r]
    BY <2>m, <2>2 DEF McBusy
  <2> QED BY <1>m, <2>1, <2>3, <2>4
<1>3. Mcp!TypeOK'
  BY <1>0, <1>1, <1>2, <1>b DEF Mcp!TypeOK
<1>4. Mcp!OneWay'
  BY <1>0, <1>1 DEF Mcp!OneWay
<1>5. Mcp!Kinds'
  BY <1>0, <1>2 DEF Mcp!Kinds
<1>a. \A p \in Ops : mStep[p] \in Mcp!After => mStep'[p] \in Mcp!After
  BY <1>2 DEF Mcp!After
<1>6. Mcp!Found'
  <2>1. \A p \in Ops : /\ mStep'[p] \in {"lock", "connect again", "swap"} => old[p] \in Mcp!Makers /\ old[p].server = p.server
                       /\ mStep'[p] \in {"new", "check", "connect", "register", "save"} => old[p] = Mcp!NoOne
    BY <1>0, <1>2 DEF Mcp!Found, Mcp!FoundBefore, Mcp!FoundBusy, Mcp!FoundFree
  <2>2. ASSUME NEW p \in Ops, mStep'[p] \in {"connect again", "swap"}
        PROVE  mgr'[old[p]].busy = p
    <3>1. CASE p = o
      BY <1>2, <1>b, <2>2, <3>1
    <3>2. CASE p # o
      <4>1. mStep[p] \in {"connect again", "swap"}
        BY <1>2, <2>2, <3>2
      <4>2. mgr[old[p]].busy = p /\ old[p] \in Mcp!Makers
        BY <1>0, <4>1 DEF Mcp!Found, Mcp!FoundBefore, Mcp!FoundBusy, Mcp!FoundFree
      <4>3. old[p] # old[o]
        BY <3>2, <4>2, McMakers
      <4> QED BY <1>b, <4>2, <4>3
    <3> QED BY <3>1, <3>2
  <2>3. ASSUME NEW p \in Ops, old[p] \in Ops
        PROVE  mStep'[old[p]] \in Mcp!After /\ old[old[p]] = Mcp!NoOne
    BY <1>0, <1>a, <2>3 DEF Mcp!Found, Mcp!FoundBefore, Mcp!FoundBusy, Mcp!FoundFree
  <2> QED BY <1>1, <2>1, <2>2, <2>3 DEF Mcp!Found, Mcp!FoundBefore, Mcp!FoundBusy, Mcp!FoundFree
<1>7. Mcp!Connected'
  BY <1>0, <1>1, <1>2 DEF Mcp!Connected
<1>8. Mcp!Used'
  <2>1. \A n \in Names : tools[n] \in Ops => mStep'[tools[n]] \in Mcp!After
    BY <1>0, <1>a DEF Mcp!Used
  <2>2. \A m \in managers : m \in Ops => mStep'[m] \in Mcp!After /\ old[m] = Mcp!NoOne
    BY <1>0, <1>a DEF Mcp!Used
  <2>3. \A m \in Ops : mStep'[m] \notin Mcp!After => mgr'[m].client = m
    BY <1>0, <1>a, <1>b, McMakers DEF Mcp!Used
  <2>4. ASSUME NEW m \in Mcp!Makers, mgr'[m].client # m
        PROVE  mgr'[m].client \in Ops /\ mStep'[mgr'[m].client] \in Mcp!After /\ old[mgr'[m].client] = m
    <3>1. mgr[m].client \in Ops /\ mStep[mgr[m].client] \in Mcp!After /\ old[mgr[m].client] = m
      BY <1>0, <1>b, <2>4 DEF Mcp!Used
    <3> QED BY <1>a, <1>b, <3>1
  <2> QED BY <1>1, <2>1, <2>2, <2>3, <2>4 DEF Mcp!Used
<1>9. Mcp!Named' /\ Mcp!OfferedToolsWork' /\ Mcp!CacheIsCurrent' /\ Mcp!Keep'
  <2>1. Mcp!Named'
    BY <1>0, <1>1 DEF Mcp!Named
  <2>2. Mcp!OfferedToolsWork'
    BY <1>0, <1>1, <1>b DEF Mcp!OfferedToolsWork, Mcp!TypeOK
  <2>3. Mcp!CacheIsCurrent'
    BY <1>0, <1>b DEF Mcp!CacheIsCurrent
  <2>4. Mcp!Keep'
    BY DEF Mcp!Keep, Mcp!Apart
  <2> QED BY <2>1, <2>2, <2>3, <2>4
<1> QED BY <1>3, <1>4, <1>5, <1>6, <1>7, <1>8, <1>9 DEF Mcp!IInv

LEMMA McConnects ==
  ASSUME Mcp!McpAssumption, Mcp!IInv, NEW o \in Ops, Mcp!AddConnects(o) \/ Mcp!LocksManager(o) \/ Mcp!ReconnectConnects(o)
  PROVE  Mcp!IInv'
<1>0. /\ Mcp!TypeOK /\ Mcp!OneWay /\ Mcp!Kinds /\ Mcp!Found
      /\ config \subseteq Servers /\ cfg \in [Ops -> SUBSET Servers]
      /\ old \in [Ops -> Mcp!Makers \cup {Mcp!NoOne}]
  BY DEF Mcp!IInv, Mcp!TypeOK
<1>1. CASE Mcp!AddConnects(o)
  <2>1. mStep[o] = "connect" /\ UNCHANGED <<tools, managers, mgr, config, cfg, old, Mcp!sessVars>>
    BY <1>1 DEF Mcp!AddConnects
  <2>2. CASE open' = open \cup {o} /\ Mcp!To(o, "register")
    BY <2>1, <2>2, McOpens
  <2>3. CASE UNCHANGED open /\ Mcp!To(o, "failed")
    <3>1. UNCHANGED <<tools, managers, mgr, open, Mcp!sessVars>> /\ config' = config /\ cfg' = cfg /\ old' = old
      BY <2>1, <2>3
    <3> QED BY <1>0, <2>1, <2>3, <3>1, McMoves DEF Mcp!Steps, Mcp!After
  <2> QED BY <1>1, <2>2, <2>3 DEF Mcp!AddConnects, Mcp!Connect
<1>2. CASE Mcp!LocksManager(o)
  <2>1. /\ mStep[o] = "lock" /\ mgr[old[o]].busy = Mcp!NoOne
        /\ mgr' = [mgr EXCEPT ![old[o]].busy = o] /\ Mcp!To(o, "connect again")
        /\ UNCHANGED <<tools, managers, open, config, cfg, old, Mcp!sessVars>>
    BY <1>2 DEF Mcp!LocksManager
  <2>2. Lazy
    BY <1>0, <2>1 DEF Mcp!OneWay
  <2> QED BY <2>1, <2>2, McLocks
<1>3. CASE Mcp!ReconnectConnects(o)
  <2>1. /\ mStep[o] = "connect again"
        /\ UNCHANGED <<tools, managers, config, cfg, old, Mcp!sessVars>>
        /\ mgr' = IF mStep'[o] = "failed" /\ mgr[old[o]].busy = o
                  THEN [mgr EXCEPT ![old[o]].busy = Mcp!NoOne] ELSE mgr
    BY <1>3 DEF Mcp!ReconnectConnects
  <2>2. CASE open' = open \cup {o} /\ Mcp!To(o, "swap")
    <3>1. mStep'[o] = "swap"
      BY <1>0, <2>2 DEF Mcp!To, Mcp!TypeOK
    <3>2. UNCHANGED <<tools, managers, mgr, config, cfg, old, Mcp!sessVars>>
      BY <2>1, <3>1
    <3> QED BY <2>1, <2>2, <3>2, McOpens
  <2>3. CASE UNCHANGED open /\ Mcp!To(o, "failed")
    <3>1. mStep'[o] = "failed"
      BY <1>0, <2>3 DEF Mcp!To, Mcp!TypeOK
    <3>2. CASE Lazy
      <4>1. mgr[old[o]].busy = o
        BY <1>0, <2>1, <3>2 DEF Mcp!Found, Mcp!FoundBefore, Mcp!FoundBusy, Mcp!FoundFree
      <4>2. mgr' = [mgr EXCEPT ![old[o]].busy = Mcp!NoOne]
        BY <2>1, <3>1, <4>1
      <4>3. UNCHANGED <<tools, managers, open, config, cfg, old, Mcp!sessVars>>
        BY <2>1, <2>3
      <4> QED BY <2>1, <2>3, <3>2, <4>1, <4>2, <4>3, McLocks
    <3>3. CASE ~Lazy
      <4>1. old[o] \in Mcp!Makers /\ mgr[old[o]].busy = Mcp!NoOne /\ o # Mcp!NoOne
        BY <1>0, <2>1, <3>3, McMakers DEF Mcp!OneWay, Mcp!Found, Mcp!FoundBefore, Mcp!FoundBusy,
           Mcp!FoundFree
      <4>2. UNCHANGED <<tools, managers, mgr, open, Mcp!sessVars>> /\ config' = config /\ cfg' = cfg /\ old' = old
        BY <2>1, <2>3, <4>1
      <4>3. o.kind # "remove"
        BY <1>0, <2>1 DEF Mcp!Kinds
      <4> QED BY <1>0, <2>1, <2>3, <4>2, <4>3, McMoves DEF Mcp!Steps, Mcp!After
    <3> QED BY <3>2, <3>3
  <2> QED BY <1>3, <2>2, <2>3 DEF Mcp!ReconnectConnects, Mcp!Connect
<1> QED BY <1>1, <1>2, <1>3

\* What a step of one call after which no more is used than before keeps of Found and Used.
LEMMA McSame ==
  ASSUME Mcp!McpAssumption, Mcp!IInv, NEW o \in Ops, NEW w \in Mcp!Steps \ {"new", "check", "connect", "register", "lock", "connect again", "swap"},
         Mcp!To(o, w), UNCHANGED old, mStep[o] \in Mcp!After => w \in Mcp!After, w = "save" => old[o] = Mcp!NoOne,
         o.kind = "remove" => w # "save"
  PROVE  /\ mStep' \in [Ops -> Mcp!Steps] /\ mStep'[o] = w /\ \A p \in Ops : p # o => mStep'[p] = mStep[p]
         /\ Mcp!Kinds'
         /\ \A p \in Ops : mStep[p] \in Mcp!After => mStep'[p] \in Mcp!After
         /\ Mcp!FoundBefore' /\ Mcp!FoundFree'
<1>0. Mcp!TypeOK /\ Mcp!Kinds /\ Mcp!Found
  BY DEF Mcp!IInv
<1>1. mStep' \in [Ops -> Mcp!Steps] /\ mStep'[o] = w /\ \A p \in Ops : p # o => mStep'[p] = mStep[p]
  BY <1>0 DEF Mcp!TypeOK, Mcp!To
<1>2. Mcp!Kinds'
  BY <1>0, <1>1 DEF Mcp!Kinds, Mcp!Steps
<1>3. \A p \in Ops : mStep[p] \in Mcp!After => mStep'[p] \in Mcp!After
  BY <1>1
<1>4. Mcp!FoundBefore'
  BY <1>0, <1>1 DEF Mcp!Found, Mcp!FoundBefore
<1>5. Mcp!FoundFree'
  <2>1. ASSUME NEW p \in Ops, Lazy, old[p] \in Ops
        PROVE  mStep'[old[p]] \in Mcp!After /\ old[old[p]] = Mcp!NoOne
    BY <1>0, <1>3, <2>1 DEF Mcp!Found, Mcp!FoundBefore, Mcp!FoundBusy, Mcp!FoundFree
  <2> QED BY <2>1 DEF Mcp!FoundFree
<1> QED BY <1>1, <1>2, <1>3, <1>4, <1>5

LEMMA McRegisters ==
  ASSUME Mcp!McpAssumption, Mcp!IInv, NEW o \in Ops, Mcp!AddRegisters(o) PROVE Mcp!IInv'
<1>0. /\ Mcp!TypeOK /\ Mcp!OneWay /\ Mcp!Kinds /\ Mcp!Found /\ Mcp!Connected /\ Mcp!Used
      /\ Mcp!Named /\ Mcp!Keep
      /\ Mcp!OfferedToolsWork /\ Mcp!CacheIsCurrent
  BY DEF Mcp!IInv
<1>1. /\ mStep[o] = "register" /\ mgr' = mgr /\ open' = open /\ config' = config /\ cfg' = cfg
      /\ old' = old /\ loaders' = loaders /\ sess' = sess
  BY DEF Mcp!AddRegisters, Mcp!sessVars
<1>2. /\ old[o] = Mcp!NoOne /\ o \in open /\ mgr[o].client = o /\ o.kind # "remove"
      /\ o \in Mcp!Makers /\ o.server \in Servers
  <2>1. old[o] = Mcp!NoOne
    BY <1>0, <1>1 DEF Mcp!Found, Mcp!FoundBefore, Mcp!FoundBusy, Mcp!FoundFree
  <2>2. o \in open
    BY <1>0, <1>1 DEF Mcp!Connected
  <2>3. mgr[o].client = o
    BY <1>0, <1>1 DEF Mcp!Used, Mcp!After
  <2>4. o.kind # "remove"
    BY <1>0, <1>1 DEF Mcp!Kinds
  <2> QED BY <2>1, <2>2, <2>3, <2>4, McMakers
<1>w. PICK w \in {"save", "done"} : Mcp!To(o, w)
  BY DEF Mcp!AddRegisters
<1>s. /\ mStep' \in [Ops -> Mcp!Steps] /\ mStep'[o] = w /\ \A p \in Ops : p # o => mStep'[p] = mStep[p]
      /\ Mcp!Kinds'
      /\ \A p \in Ops : mStep[p] \in Mcp!After => mStep'[p] \in Mcp!After
      /\ Mcp!FoundBefore' /\ Mcp!FoundFree'
  <2>1. w \in Mcp!Steps \ {"new", "check", "connect", "register", "lock", "connect again", "swap"} /\ mStep[o] \notin Mcp!After
    BY <1>1, <1>w DEF Mcp!Steps, Mcp!After
  <2> QED BY <1>1, <1>2, <1>w, <2>1, McSame
<1>6. Mcp!Found'
  <2>1. ASSUME NEW p \in Ops, Lazy, mStep'[p] \in {"connect again", "swap"}
        PROVE  mgr'[old'[p]].busy = p
    <3>1. p # o /\ mStep[p] \in {"connect again", "swap"}
      BY <1>w, <1>s, <2>1
    <3> QED BY <1>0, <1>1, <2>1, <3>1 DEF Mcp!Found, Mcp!FoundBefore, Mcp!FoundBusy,
       Mcp!FoundFree
  <2> QED BY <1>s, <2>1 DEF Mcp!Found, Mcp!FoundBusy
<1>7. Mcp!Connected'
  BY <1>0, <1>1, <1>w, <1>s DEF Mcp!Connected
<1>u. /\ \A m \in Ops : mStep'[m] \notin Mcp!After => mgr'[m].client = m
      /\ \A m \in Mcp!Makers : \/ mgr'[m].client = m
                               \/ /\ mgr'[m].client \in Ops /\ mStep'[mgr'[m].client] \in Mcp!After
                                  /\ old'[mgr'[m].client] = m
  <2>1. \A m \in Ops : mStep'[m] \notin Mcp!After => mgr'[m].client = m
    BY <1>0, <1>1, <1>s DEF Mcp!Used
  <2>2. ASSUME NEW m \in Mcp!Makers, mgr[m].client # m
        PROVE  mgr[m].client \in Ops /\ mStep'[mgr[m].client] \in Mcp!After /\ old[mgr[m].client] = m
    <3>1. mgr[m].client \in Ops /\ mStep[mgr[m].client] \in Mcp!After /\ old[mgr[m].client] = m
      BY <1>0, <2>2 DEF Mcp!Used
    <3> QED BY <1>s, <3>1
  <2> QED BY <1>1, <2>1, <2>2
<1>8. CASE Lazy
  <2>1. managers' = managers \cup {o} /\ tools' = tools
    BY <1>8 DEF Mcp!AddRegisters
  <2>2. Mcp!TypeOK'
    BY <1>0, <1>1, <1>2, <1>s, <2>1 DEF Mcp!TypeOK
  <2>3. Mcp!OneWay'
    BY <1>0, <1>8, <2>1 DEF Mcp!OneWay
  <2>4. Mcp!Used'
    <3>1. \A n \in Names : tools'[n] \in Ops => mStep'[tools'[n]] \in Mcp!After
      BY <1>0, <1>s, <2>1 DEF Mcp!Used
    <3>2. \A m \in managers' : m \in Ops => mStep'[m] \in Mcp!After /\ old'[m] = Mcp!NoOne
      BY <1>0, <1>1, <1>2, <1>w, <1>s, <2>1 DEF Mcp!Used, Mcp!After
    <3> QED BY <1>u, <3>1, <3>2 DEF Mcp!Used
  <2>5. Mcp!Named' /\ Mcp!CacheIsCurrent'
    BY <1>0, <1>1, <2>1 DEF Mcp!Named, Mcp!CacheIsCurrent
  <2>6. Mcp!OfferedToolsWork'
    BY <1>0, <1>1, <1>2, <2>1 DEF Mcp!OfferedToolsWork
  <2>7. Mcp!Keep'
    BY <1>8 DEF Mcp!Keep, Mcp!Apart
  <2> QED BY <1>s, <1>6, <1>7, <2>2, <2>3, <2>4, <2>5, <2>6, <2>7 DEF Mcp!IInv
<1>9. CASE ~Lazy
  <2>1. managers' = managers /\ tools' = Mcp!Register(tools, o)
    BY <1>9 DEF Mcp!AddRegisters
  <2>t. \A n \in Names : tools'[n] = IF tools[n] = Mcp!NoOne /\ n \in ToolsOf[o.server] THEN o ELSE tools[n]
    BY <2>1 DEF Mcp!Register
  <2>2. Mcp!TypeOK'
    <3>1. tools' \in [Names -> Mcp!Makers \cup {Mcp!NoOne, Mcp!Own}]
      BY <1>0, <1>2, <2>1 DEF Mcp!TypeOK, Mcp!Register
    <3> QED BY <1>0, <1>1, <1>s, <2>1, <3>1 DEF Mcp!TypeOK
  <2>3. Mcp!OneWay'
    BY <1>0, <1>1, <1>9, <1>w, <1>s, <2>1 DEF Mcp!OneWay
  <2>4. Mcp!Used'
    <3>1. ASSUME NEW n \in Names, tools'[n] \in Ops PROVE mStep'[tools'[n]] \in Mcp!After
      <4>1. CASE tools'[n] = o
        BY <1>w, <1>s, <4>1 DEF Mcp!After
      <4>2. CASE tools'[n] = tools[n]
        BY <1>0, <1>s, <3>1, <4>2 DEF Mcp!Used
      <4> QED BY <2>t, <4>1, <4>2
    <3>2. \A m \in managers' : m \in Ops => mStep'[m] \in Mcp!After /\ old'[m] = Mcp!NoOne
      BY <1>0, <1>9, <2>1 DEF Mcp!OneWay
    <3> QED BY <1>u, <3>1, <3>2 DEF Mcp!Used
  <2>5. Mcp!Named'
    BY <1>0, <1>2, <2>t, McMakers DEF Mcp!Named
  <2>6. Mcp!OfferedToolsWork' /\ Mcp!CacheIsCurrent'
    <3>1. Mcp!CacheIsCurrent'
      BY <1>0, <1>1 DEF Mcp!CacheIsCurrent
    <3>2. Mcp!OfferedToolsWork'
      BY <1>0, <1>1, <1>2, <2>1, <2>t DEF Mcp!OfferedToolsWork
    <3> QED BY <3>1, <3>2
  <2>7. Mcp!Keep'
    <3> SUFFICES ASSUME Mcp!Apart PROVE Mcp!Keep'
      BY DEF Mcp!Keep, Mcp!Apart
    <3>1. /\ \A n \in Names : tools[n].server # o.server
          /\ \A c \in open : \/ \A n \in Mcp!OwnNames(c.server) : tools[n] = c
                             \/ c \in Ops /\ mStep[c] \in {"register", "swap"}
      BY <1>0, <1>1 DEF Mcp!Keep
    <3>n. \A s \in Servers : Mcp!OwnNames(s) \subseteq Names
      BY DEF Mcp!OwnNames, Mcp!McpAssumption
    <3>2. ASSUME NEW n \in Mcp!OwnNames(o.server) PROVE tools'[n] = o
      <4>1. n \in ToolsOf[o.server] /\ n \notin BuiltIns /\ n \in Names
        BY <1>2, <3>2, <3>n DEF Mcp!OwnNames
      <4>2. tools[n] \notin Mcp!Makers
        <5>1. SUFFICES ASSUME tools[n] \in Mcp!Makers PROVE FALSE
          OBVIOUS
        <5>2. n \in ToolsOf[tools[n].server] /\ tools[n].server \in Servers
          BY <1>0, <4>1, <5>1, McMakers DEF Mcp!Named
        <5>3. tools[n].server = o.server
          BY <3>2, <5>2 DEF Mcp!OwnNames
        <5> QED BY <3>1, <4>1, <5>3
      <4>3. tools[n] # Mcp!Own
        BY <1>0, <4>1 DEF Mcp!Named
      <4>4. tools[n] = Mcp!NoOne
        BY <1>0, <4>1, <4>2, <4>3 DEF Mcp!TypeOK
      <4> QED BY <2>t, <4>1, <4>4
    <3>3. ASSUME NEW c \in open'
          PROVE  \/ \A n \in Mcp!OwnNames(c.server) : tools'[n] = c
                 \/ c \in Ops /\ mStep'[c] \in {"register", "swap"}
      <4>1. CASE c = o
        BY <3>2, <4>1
      <4>2. CASE c # o /\ c \in Ops /\ mStep[c] \in {"register", "swap"}
        BY <1>s, <4>2
      <4>3. CASE \A n \in Mcp!OwnNames(c.server) : tools[n] = c
        <5>1. c \in Mcp!Makers /\ c.server \in Servers /\ c # Mcp!NoOne
          BY <1>0, <1>1, <3>3, McMakers DEF Mcp!TypeOK
        <5> QED BY <2>t, <3>n, <4>3, <5>1
      <4> QED BY <1>1, <3>1, <3>3, <4>1, <4>2, <4>3
    <3>4. ASSUME NEW p \in Ops, mStep'[p] \in {"connect", "register"}
          PROVE  \A n \in Names : tools'[n].server # p.server
      <4>1. p # o /\ mStep[p] \in {"connect", "register"}
        BY <1>w, <1>s, <3>4
      <4>2. p.kind # "remove"
        BY <1>0, <4>1 DEF Mcp!Kinds
      <4>3. p.server # o.server
        BY <1>2, <4>1, <4>2 DEF Mcp!Apart
      <4>4. \A n \in Names : tools[n].server # p.server
        BY <1>0, <4>1 DEF Mcp!Keep
      <4> QED BY <2>t, <4>3, <4>4
    <3> QED BY <3>3, <3>4 DEF Mcp!Keep
  <2> QED BY <1>s, <1>6, <1>7, <2>2, <2>3, <2>4, <2>5, <2>6, <2>7 DEF Mcp!IInv
<1> QED BY <1>8, <1>9

LEMMA McUnregisters ==
  ASSUME Mcp!McpAssumption, Mcp!IInv, NEW o \in Ops, Mcp!Unregister(o) PROVE Mcp!IInv'
<1>0. /\ Mcp!TypeOK /\ Mcp!OneWay /\ Mcp!Kinds /\ Mcp!Found /\ Mcp!Connected /\ Mcp!Used
      /\ Mcp!Named /\ Mcp!Keep
      /\ Mcp!OfferedToolsWork /\ Mcp!CacheIsCurrent
  BY DEF Mcp!IInv
<1>1. /\ mStep[o] = "unregister" /\ mgr' = mgr /\ config' = config /\ cfg' = cfg
      /\ Mcp!To(o, "done")
      /\ old' = old /\ loaders' = loaders /\ sess' = sess
  BY DEF Mcp!Unregister, Mcp!sessVars
<1>2. o \in Mcp!Makers /\ o.server \in Servers
  BY McMakers
<1>s. /\ mStep' \in [Ops -> Mcp!Steps] /\ mStep'[o] = "done" /\ \A p \in Ops : p # o => mStep'[p] = mStep[p]
      /\ Mcp!Kinds'
      /\ \A p \in Ops : mStep[p] \in Mcp!After => mStep'[p] \in Mcp!After
      /\ Mcp!FoundBefore' /\ Mcp!FoundFree'
  <2>1. "done" \in Mcp!Steps \ {"new", "check", "connect", "register", "lock", "connect again", "swap"} /\ "done" \in Mcp!After
    BY DEF Mcp!Steps, Mcp!After
  <2> QED BY <1>1, <2>1, McSame
<1>6. Mcp!Found'
  <2>1. ASSUME NEW p \in Ops, Lazy, mStep'[p] \in {"connect again", "swap"}
        PROVE  mgr'[old'[p]].busy = p
    <3>1. p # o /\ mStep[p] \in {"connect again", "swap"}
      BY <1>s, <2>1
    <3> QED BY <1>0, <1>1, <2>1, <3>1 DEF Mcp!Found, Mcp!FoundBefore, Mcp!FoundBusy,
       Mcp!FoundFree
  <2> QED BY <1>s, <2>1 DEF Mcp!Found, Mcp!FoundBusy
<1>u. /\ \A m \in Ops : mStep'[m] \notin Mcp!After => mgr'[m].client = m
      /\ \A m \in Mcp!Makers : \/ mgr'[m].client = m
                               \/ /\ mgr'[m].client \in Ops /\ mStep'[mgr'[m].client] \in Mcp!After
                                  /\ old'[mgr'[m].client] = m
  <2>1. \A m \in Ops : mStep'[m] \notin Mcp!After => mgr'[m].client = m
    BY <1>0, <1>1, <1>s DEF Mcp!Used
  <2>2. ASSUME NEW m \in Mcp!Makers, mgr[m].client # m
        PROVE  mgr[m].client \in Ops /\ mStep'[mgr[m].client] \in Mcp!After /\ old[mgr[m].client] = m
    <3>1. mgr[m].client \in Ops /\ mStep[mgr[m].client] \in Mcp!After /\ old[mgr[m].client] = m
      BY <1>0, <2>2 DEF Mcp!Used
    <3> QED BY <1>s, <3>1
  <2> QED BY <1>1, <2>1, <2>2
<1>t. Mcp!CacheIsCurrent'
  BY <1>0, <1>1 DEF Mcp!CacheIsCurrent
\* A manager is removed.
<1>8. ASSUME NEW m \in Mcp!Of(o.server), managers' = managers \ {m}, open' = open \ {mgr[m].client}, UNCHANGED tools
      PROVE  Mcp!IInv'
  <2>1. m \in managers /\ m \in Mcp!Makers /\ Lazy
    BY <1>0, <1>8 DEF Mcp!Of, Mcp!OneWay, Mcp!TypeOK
  <2>2. Mcp!TypeOK'
    BY <1>0, <1>1, <1>8, <1>s DEF Mcp!TypeOK
  <2>3. Mcp!OneWay'
    BY <1>0, <1>8, <2>1 DEF Mcp!OneWay
  <2>4. Mcp!Used'
    <3>1. \A n \in Names : tools'[n] \in Ops => mStep'[tools'[n]] \in Mcp!After
      BY <1>0, <1>8, <1>s DEF Mcp!Used
    <3>2. \A x \in managers' : x \in Ops => mStep'[x] \in Mcp!After /\ old'[x] = Mcp!NoOne
      BY <1>0, <1>1, <1>8, <1>s DEF Mcp!Used
    <3> QED BY <1>u, <3>1, <3>2 DEF Mcp!Used
  <2>5. Mcp!Named'
    BY <1>0, <1>8 DEF Mcp!Named
  <2>6. Mcp!OfferedToolsWork'
    <3>1. \A n \in Names : tools'[n] \in {Mcp!NoOne, Mcp!Own}
      BY <1>0, <1>8, <2>1 DEF Mcp!OneWay
    <3>2. ASSUME NEW x \in managers' PROVE mgr'[x].client \in open'
      <4>1. x \in managers /\ x # m /\ x \in Mcp!Makers /\ mgr[x].client \in open
        BY <1>0, <1>8, <3>2 DEF Mcp!OfferedToolsWork, Mcp!TypeOK
      <4>2. mgr[x].client # mgr[m].client
        <5>1. x \in Ops => old[x] = Mcp!NoOne
          BY <1>0, <4>1 DEF Mcp!Used
        <5>2. m \in Ops => old[m] = Mcp!NoOne
          BY <1>0, <2>1 DEF Mcp!Used
        <5>3. mgr[x].client = x \/ (mgr[x].client \in Ops /\ old[mgr[x].client] = x)
          BY <1>0, <4>1 DEF Mcp!Used
        <5>4. mgr[m].client = m \/ (mgr[m].client \in Ops /\ old[mgr[m].client] = m)
          BY <1>0, <2>1 DEF Mcp!Used
        <5>5. x # Mcp!NoOne /\ m # Mcp!NoOne
          BY <2>1, <4>1, McMakers
        <5> QED BY <4>1, <5>1, <5>2, <5>3, <5>4, <5>5
      <4> QED BY <1>1, <1>8, <4>1, <4>2
    <3> QED BY <3>1, <3>2 DEF Mcp!OfferedToolsWork
  <2>7. Mcp!Keep'
    BY <2>1 DEF Mcp!Keep, Mcp!Apart
  <2>8. Mcp!Connected'
    <3>1. ASSUME NEW p \in Ops, mStep'[p] \in {"register", "swap"} PROVE p \in open'
      <4>1. p # o /\ mStep[p] \in {"register", "swap"} /\ p \in open
        BY <1>0, <1>s, <3>1 DEF Mcp!Connected
      <4>2. mStep[p] \notin Mcp!After
        BY <4>1 DEF Mcp!After
      <4>3. mgr[m].client # p
        BY <1>0, <2>1, <4>2 DEF Mcp!Used
      <4> QED BY <1>8, <4>1, <4>3
    <3> QED BY <3>1 DEF Mcp!Connected
  <2> QED BY <1>s, <1>6, <1>t, <2>2, <2>3, <2>4, <2>5, <2>6, <2>7, <2>8 DEF Mcp!IInv
\* Nothing of that name is there.
<1>9. ASSUME UNCHANGED <<tools, managers, open>> PROVE Mcp!IInv'
  <2>1. UNCHANGED <<tools, managers, mgr, open, Mcp!sessVars>>
    BY <1>9 DEF Mcp!Unregister
  <2>2. "done" \in Mcp!Steps /\ config' \subseteq Servers /\ cfg' \in [Ops -> SUBSET Servers] /\ old' = old
        /\ old' \in [Ops -> Mcp!Makers \cup {Mcp!NoOne}]
    BY <1>0, <1>1 DEF Mcp!TypeOK, Mcp!Steps
  <2> QED BY <1>1, <2>1, <2>2, McMoves DEF Mcp!After
\* The tools of a server go.
<1>10. ASSUME Mcp!Of(o.server) = {}, NEW taken, taken = {n \in Names : tools[n].server = o.server}, NEW k \in taken,
              open' = open \ {tools[k]}, UNCHANGED managers,
              tools' = [n \in Names |-> IF n \in taken THEN Mcp!NoOne ELSE tools[n]]
       PROVE  Mcp!IInv'
  <2>1. k \in Names /\ tools[k].server = o.server /\ tools[k] \in Mcp!Makers /\ ~Lazy
    BY <1>0, <1>2, <1>10, McMakers DEF Mcp!TypeOK, Mcp!OneWay
  <2>t. \A n \in Names : \/ tools[n].server = o.server /\ tools'[n] = Mcp!NoOne
                         \/ tools[n].server # o.server /\ tools'[n] = tools[n]
    BY <1>10
  <2>m. managers' = {} /\ managers = {}
    BY <1>0, <1>10, <2>1 DEF Mcp!OneWay
  <2>2. Mcp!TypeOK'
    <3>1. tools' \in [Names -> Mcp!Makers \cup {Mcp!NoOne, Mcp!Own}]
      BY <1>0, <1>10 DEF Mcp!TypeOK
    <3> QED BY <1>0, <1>1, <1>10, <1>s, <3>1 DEF Mcp!TypeOK
  <2>3. Mcp!OneWay'
    BY <1>0, <1>1, <1>s, <2>1, <2>m DEF Mcp!OneWay
  <2>4. Mcp!Used'
    <3>1. ASSUME NEW n \in Names, tools'[n] \in Ops PROVE mStep'[tools'[n]] \in Mcp!After
      <4>1. tools'[n] = tools[n]
        BY <2>t, <3>1, McMakers
      <4> QED BY <1>0, <1>s, <3>1, <4>1 DEF Mcp!Used
    <3> QED BY <1>u, <2>m, <3>1 DEF Mcp!Used
  <2>5. Mcp!Named'
    <3>1. ASSUME NEW n \in Names, tools'[n] \in Mcp!Makers PROVE n \in ToolsOf[tools'[n].server]
      <4>1. tools'[n] = tools[n]
        BY <2>t, <3>1, McMakers
      <4> QED BY <1>0, <3>1, <4>1 DEF Mcp!Named
    <3>2. ASSUME NEW n \in Names, tools'[n] = Mcp!Own PROVE n \in BuiltIns
      <4>1. tools'[n] = tools[n]
        BY <2>t, <3>2, McMakers
      <4> QED BY <1>0, <3>2, <4>1 DEF Mcp!Named
    <3> QED BY <3>1, <3>2 DEF Mcp!Named
  <2>6. Mcp!OfferedToolsWork'
    <3>1. ASSUME NEW n \in Names, tools'[n] \notin {Mcp!NoOne, Mcp!Own}
          PROVE  tools'[n] \in open'
      BY <1>0, <1>10, <2>1, <2>t, <3>1 DEF Mcp!OfferedToolsWork
    <3> QED BY <2>m, <3>1 DEF Mcp!OfferedToolsWork
  <2>7. Mcp!Keep'
    <3> SUFFICES ASSUME Mcp!Apart PROVE Mcp!Keep'
      BY DEF Mcp!Keep, Mcp!Apart
    <3>n. \A s \in Servers : Mcp!OwnNames(s) \subseteq Names /\ Mcp!OwnNames(s) # {}
      BY DEF Mcp!OwnNames, Mcp!McpAssumption, Mcp!Apart
    <3>h. ASSUME NEW c \in open
          PROVE  \/ \A n \in Mcp!OwnNames(c.server) : tools[n] = c
                 \/ c \in Ops /\ mStep[c] \in {"register", "swap"}
      BY <1>0 DEF Mcp!Keep
    <3>k. \A n \in Mcp!OwnNames(o.server) : tools[n] = tools[k]
      <4>1. tools[k] \in open
        BY <1>0, <2>1, McMakers DEF Mcp!OfferedToolsWork
      <4>2. ~(tools[k] \in Ops /\ mStep[tools[k]] \in {"register", "swap"})
        BY <1>0, <2>1 DEF Mcp!Used, Mcp!After
      <4> QED BY <2>1, <3>h, <4>1, <4>2
    <3>3. ASSUME NEW c \in open'
          PROVE  \/ \A n \in Mcp!OwnNames(c.server) : tools'[n] = c
                 \/ c \in Ops /\ mStep'[c] \in {"register", "swap"}
      <4>0. c \in open /\ c # tools[k] /\ c \in Mcp!Makers /\ c.server \in Servers
        BY <1>0, <1>10, <3>3, McMakers DEF Mcp!TypeOK
      <4>1. CASE c \in Ops /\ mStep[c] \in {"register", "swap"}
        <5>1. c # o
          BY <1>1, <4>1
        <5> QED BY <1>s, <4>1, <5>1
      <4>2. CASE \A n \in Mcp!OwnNames(c.server) : tools[n] = c
        <5>1. c.server # o.server
          <6>1. SUFFICES ASSUME c.server = o.server PROVE FALSE
            OBVIOUS
          <6>2. PICK n \in Mcp!OwnNames(o.server) : TRUE
            BY <1>2, <3>n
          <6>3. tools[n] = c /\ tools[n] = tools[k]
            BY <3>k, <4>2, <6>1, <6>2
          <6> QED BY <4>0, <6>3
        <5>2. \A n \in Mcp!OwnNames(c.server) : n \in Names
          BY <3>n, <4>0
        <5> QED BY <2>t, <4>2, <5>1, <5>2
      <4> QED BY <3>h, <4>0, <4>1, <4>2
    <3>4. ASSUME NEW p \in Ops, mStep'[p] \in {"connect", "register"}
          PROVE  \A n \in Names : tools'[n].server # p.server
      <4>1. mStep[p] \in {"connect", "register"} /\ p.server \in Servers
        BY <1>s, <3>4, McMakers
      <4>2. \A n \in Names : tools[n].server # p.server
        BY <1>0, <4>1 DEF Mcp!Keep
      <4> QED BY <2>t, <4>1, <4>2, McMakers
    <3> QED BY <3>3, <3>4 DEF Mcp!Keep
  <2>8. Mcp!Connected'
    <3>1. ASSUME NEW p \in Ops, mStep'[p] \in {"register", "swap"} PROVE p \in open'
      <4>1. p # o /\ mStep[p] \in {"register", "swap"} /\ p \in open
        BY <1>0, <1>s, <3>1 DEF Mcp!Connected
      <4>2. tools[k] # p
        BY <1>0, <2>1, <4>1 DEF Mcp!Used, Mcp!After
      <4> QED BY <1>10, <4>1, <4>2
    <3> QED BY <3>1 DEF Mcp!Connected
  <2> QED BY <1>s, <1>6, <1>t, <2>2, <2>3, <2>4, <2>5, <2>6, <2>7, <2>8 DEF Mcp!IInv
<1> QED
  <2>1. Mcp!RemoveMCP(o.server)
    BY DEF Mcp!Unregister
  <2>2. CASE Mcp!Of(o.server) # {}
    BY <1>8, <2>1, <2>2 DEF Mcp!RemoveMCP
  <2>3. CASE Mcp!Of(o.server) = {}
    <3>1. PICK taken : taken = {n \in Names : tools[n].server = o.server}
      OBVIOUS
    <3>2. \/ UNCHANGED <<tools, managers, open>>
          \/ /\ \E n \in taken : open' = open \ {tools[n]}
             /\ tools' = [n \in Names |-> IF n \in taken THEN Mcp!NoOne ELSE tools[n]]
             /\ UNCHANGED managers
      BY <2>1, <2>3, <3>1 DEF Mcp!RemoveMCP
    <3> QED BY <1>9, <1>10, <2>3, <3>1, <3>2
  <2> QED BY <2>2, <2>3

\* A reconnection of a manager is over.
LEMMA McSwapsManager ==
  ASSUME Mcp!McpAssumption, Mcp!IInv, NEW o \in Ops, Mcp!SwapManager(o) PROVE Mcp!IInv'
<1>0. /\ Mcp!TypeOK /\ Mcp!OneWay /\ Mcp!Kinds /\ Mcp!Found /\ Mcp!Connected /\ Mcp!Used
      /\ Mcp!Named /\ Mcp!Keep
      /\ Mcp!OfferedToolsWork /\ Mcp!CacheIsCurrent
  BY DEF Mcp!IInv
<1>1. /\ mStep[o] = "swap" /\ mgr[old[o]].busy = o /\ open' = open \ {mgr[old[o]].client}
      /\ Mcp!To(o, "done")
      /\ tools' = tools /\ managers' = managers /\ config' = config /\ cfg' = cfg /\ old' = old
      /\ loaders' = loaders /\ sess' = sess
  BY DEF Mcp!SwapManager, Mcp!sessVars
<1>k. PICK k : k = old[o]
  OBVIOUS
<1>2. k \in Mcp!Makers /\ o \in Mcp!Makers /\ o \in open /\ o # Mcp!NoOne /\ k # Mcp!NoOne
  <2>1. k \in Mcp!Makers
    BY <1>0, <1>1, <1>k DEF Mcp!Found, Mcp!FoundBefore
  <2>2. o \in open
    BY <1>0, <1>1 DEF Mcp!Connected
  <2> QED BY <2>1, <2>2, McMakers
<1>3. Lazy
  BY <1>0, <1>1, <1>2, <1>k DEF Mcp!OneWay
<1>4. k \in Ops => mStep[k] \in Mcp!After /\ old[k] = Mcp!NoOne
  BY <1>0, <1>3, <1>k DEF Mcp!Found, Mcp!FoundFree
<1>5. k # o
  BY <1>1, <1>4 DEF Mcp!After
<1>r. PICK r : r = [client |-> o, cache |-> {}, busy |-> Mcp!NoOne]
  OBVIOUS
<1>m. mgr' = [mgr EXCEPT ![k] = r]
  BY <1>r, <1>k DEF Mcp!SwapManager
<1>7. r \in Mcp!Managed /\ r.client = o /\ r.cache = {} /\ r.busy = Mcp!NoOne
  BY <1>2, <1>r DEF Mcp!Managed
<1>8. mgr \in [Mcp!Makers -> Mcp!Managed]
  BY <1>0 DEF Mcp!TypeOK
<1>9. /\ mgr' \in [Mcp!Makers -> Mcp!Managed] /\ mgr'[k] = r
      /\ \A m \in Mcp!Makers : m # k => mgr'[m] = mgr[m]
  BY <1>2, <1>m, <1>7, <1>8
<1>s. /\ mStep' \in [Ops -> Mcp!Steps] /\ mStep'[o] = "done" /\ \A p \in Ops : p # o => mStep'[p] = mStep[p]
      /\ Mcp!Kinds' /\ (\A p \in Ops : mStep[p] \in Mcp!After => mStep'[p] \in Mcp!After)
      /\ Mcp!FoundBefore' /\ Mcp!FoundFree'
  <2>1. "done" \in Mcp!Steps \ {"new", "check", "connect", "register", "lock", "connect again", "swap"} /\ "done" \in Mcp!After
    BY DEF Mcp!Steps, Mcp!After
  <2> QED BY <1>1, <2>1, McSame
<1>10. Mcp!TypeOK'
  BY <1>0, <1>1, <1>9, <1>s DEF Mcp!TypeOK
<1>11. Mcp!OneWay'
  BY <1>0, <1>1, <1>3 DEF Mcp!OneWay
<1>12. Mcp!Found'
  <2>1. ASSUME NEW p \in Ops, mStep'[p] \in {"connect again", "swap"}
        PROVE  mgr'[old[p]].busy = p
    <3>1. p # o /\ mStep[p] \in {"connect again", "swap"}
      BY <1>s, <2>1
    <3>2. mgr[old[p]].busy = p /\ old[p] \in Mcp!Makers
      BY <1>0, <1>3, <3>1 DEF Mcp!Found, Mcp!FoundBefore, Mcp!FoundBusy
    <3>3. old[p] # k
      BY <1>1, <1>k, <3>1, <3>2
    <3> QED BY <1>9, <3>2, <3>3
  <2> QED BY <1>1, <1>s, <2>1 DEF Mcp!Found, Mcp!FoundBusy
<1>c. \A p \in Ops : mStep[p] \notin Mcp!After => mgr[k].client # p
  BY <1>0, <1>2, <1>4 DEF Mcp!Used
<1>13. Mcp!Connected'
  <2>1. ASSUME NEW p \in Ops, mStep'[p] \in {"register", "swap"} PROVE p \in open'
    <3>1. p # o /\ mStep[p] \in {"register", "swap"} /\ p \in open
      BY <1>0, <1>s, <2>1 DEF Mcp!Connected
    <3>2. mStep[p] \notin Mcp!After
      BY <3>1 DEF Mcp!After
    <3> QED BY <1>1, <1>c, <1>k, <3>1, <3>2
  <2> QED BY <2>1 DEF Mcp!Connected
<1>14. Mcp!Used'
  <2>1. \A n \in Names : tools'[n] \in Ops => mStep'[tools'[n]] \in Mcp!After
    BY <1>0, <1>1, <1>s DEF Mcp!Used
  <2>2. \A m \in managers' : m \in Ops => mStep'[m] \in Mcp!After /\ old'[m] = Mcp!NoOne
    BY <1>0, <1>1, <1>s DEF Mcp!Used
  <2>3. ASSUME NEW m \in Ops, mStep'[m] \notin Mcp!After PROVE mgr'[m].client = m
    <3>1. m # k /\ mStep[m] \notin Mcp!After /\ m \in Mcp!Makers
      BY <1>4, <1>s, <2>3, McMakers
    <3> QED BY <1>0, <1>9, <3>1 DEF Mcp!Used
  <2>4. ASSUME NEW m \in Mcp!Makers, mgr'[m].client # m
        PROVE  mgr'[m].client \in Ops /\ mStep'[mgr'[m].client] \in Mcp!After /\ old[mgr'[m].client] = m
    <3>1. CASE m = k
      BY <1>7, <1>9, <1>s, <1>k, <3>1 DEF Mcp!After
    <3>2. CASE m # k
      <4>1. mgr'[m] = mgr[m]
        BY <1>9, <3>2
      <4>2. mgr[m].client \in Ops /\ mStep[mgr[m].client] \in Mcp!After /\ old[mgr[m].client] = m
        BY <1>0, <2>4, <4>1 DEF Mcp!Used
      <4> QED BY <1>s, <4>1, <4>2
    <3> QED BY <3>1, <3>2
  <2> QED BY <1>1, <2>1, <2>2, <2>3, <2>4 DEF Mcp!Used
<1>15. Mcp!Named'
  BY <1>0, <1>1 DEF Mcp!Named
<1>16. Mcp!OfferedToolsWork'
  <2>1. \A n \in Names : tools'[n] \in {Mcp!NoOne, Mcp!Own}
    BY <1>0, <1>1, <1>3 DEF Mcp!OneWay
  <2>2. ASSUME NEW x \in managers PROVE mgr'[x].client \in open'
    <3>0. x \in Mcp!Makers /\ mgr[x].client \in open
      BY <1>0 DEF Mcp!OfferedToolsWork, Mcp!TypeOK
    <3>1. CASE x = k
      <4>1. mgr[k].client # o
        BY <1>1, <1>c DEF Mcp!After
      <4> QED BY <1>1, <1>2, <1>7, <1>9, <1>k, <3>1, <4>1
    <3>2. CASE x # k
      <4>1. x \in Ops => old[x] = Mcp!NoOne
        BY <1>0 DEF Mcp!Used
      <4>2. mgr[x].client = x \/ (mgr[x].client \in Ops /\ old[mgr[x].client] = x)
        BY <1>0, <3>0 DEF Mcp!Used
      <4>3. mgr[k].client = k \/ (mgr[k].client \in Ops /\ old[mgr[k].client] = k)
        BY <1>0, <1>2 DEF Mcp!Used
      <4>4. x # Mcp!NoOne
        BY <3>0, McMakers
      <4>5. mgr[x].client # mgr[k].client
        BY <1>2, <1>4, <3>2, <4>1, <4>2, <4>3, <4>4
      <4>6. mgr'[x] = mgr[x]
        BY <1>9, <3>0, <3>2
      <4> QED BY <1>1, <1>k, <3>0, <4>5, <4>6
    <3> QED BY <3>1, <3>2
  <2> QED BY <1>1, <2>1, <2>2 DEF Mcp!OfferedToolsWork
<1>17. Mcp!CacheIsCurrent'
  <2>1. ASSUME NEW m \in Mcp!Makers, NEW e \in mgr'[m].cache PROVE e[2] = mgr'[m].client
    <3>1. m # k
      BY <1>7, <1>9, <2>1
    <3>2. mgr'[m] = mgr[m]
      BY <1>9, <3>1
    <3> QED BY <1>0, <2>1, <3>2 DEF Mcp!CacheIsCurrent
  <2> QED BY <2>1 DEF Mcp!CacheIsCurrent
<1>18. Mcp!Keep'
  BY <1>3 DEF Mcp!Keep, Mcp!Apart
<1> QED BY <1>s, <1>10, <1>11, <1>12, <1>13, <1>14, <1>15, <1>16, <1>17, <1>18 DEF Mcp!IInv

\* A reconnection of registered tools is over.
LEMMA McSwapsTools ==
  ASSUME Mcp!McpAssumption, Mcp!IInv, NEW o \in Ops, Mcp!SwapTools(o) PROVE Mcp!IInv'
<1>0. /\ Mcp!TypeOK /\ Mcp!OneWay /\ Mcp!Kinds /\ Mcp!Found /\ Mcp!Connected /\ Mcp!Used
      /\ Mcp!Named /\ Mcp!Keep
      /\ Mcp!OfferedToolsWork /\ Mcp!CacheIsCurrent
  BY DEF Mcp!IInv
<1>1. /\ mStep[o] = "swap" /\ mgr[old[o]].busy # o
      /\ mgr' = mgr /\ managers' = managers /\ config' = config /\ cfg' = cfg /\ old' = old
      /\ loaders' = loaders /\ sess' = sess
  BY DEF Mcp!SwapTools, Mcp!sessVars
<1>k. PICK k : k = old[o]
  OBVIOUS
<1>2. /\ k \in Mcp!Makers /\ o \in Mcp!Makers /\ o \in open /\ o # Mcp!NoOne /\ k # Mcp!NoOne
      /\ k # Mcp!Own /\ o # Mcp!Own
      /\ k.server = o.server /\ o.server \in Servers /\ o.kind # "remove"
  <2>1. k \in Mcp!Makers /\ k.server = o.server
    BY <1>0, <1>1, <1>k DEF Mcp!Found, Mcp!FoundBefore
  <2>2. o \in open
    BY <1>0, <1>1 DEF Mcp!Connected
  <2>3. o.kind # "remove"
    BY <1>0, <1>1 DEF Mcp!Kinds
  <2> QED BY <2>1, <2>2, <2>3, McMakers
<1>3. ~Lazy
  BY <1>0, <1>1 DEF Mcp!Found, Mcp!FoundBusy
<1>m. managers = {}
  BY <1>0, <1>3 DEF Mcp!OneWay
<1>w. PICK w \in {"done", "refused"} : Mcp!To(o, w)
  BY DEF Mcp!SwapTools
<1>s. /\ mStep' \in [Ops -> Mcp!Steps] /\ mStep'[o] = w /\ \A p \in Ops : p # o => mStep'[p] = mStep[p]
      /\ Mcp!Kinds' /\ (\A p \in Ops : mStep[p] \in Mcp!After => mStep'[p] \in Mcp!After)
      /\ Mcp!FoundBefore' /\ Mcp!FoundFree'
  <2>1. w \in Mcp!Steps \ {"new", "check", "connect", "register", "lock", "connect again", "swap"} /\ mStep[o] \notin Mcp!After
    BY <1>1, <1>w DEF Mcp!Steps, Mcp!After
  <2> QED BY <1>1, <1>2, <1>w, <2>1, McSame
<1>11. Mcp!OneWay'
  <2>1. \A p \in Ops : mStep'[p] # "lock"
    BY <1>0, <1>3, <1>w, <1>s DEF Mcp!OneWay
  <2> QED BY <1>0, <1>1, <1>3, <2>1 DEF Mcp!OneWay
<1>12. Mcp!Found'
  BY <1>s, <1>3 DEF Mcp!Found, Mcp!FoundBusy
<1>u. /\ \A m \in managers' : m \in Ops => mStep'[m] \in Mcp!After /\ old'[m] = Mcp!NoOne
      /\ \A m \in Ops : mStep'[m] \notin Mcp!After => mgr'[m].client = m
      /\ \A m \in Mcp!Makers : \/ mgr'[m].client = m
                               \/ /\ mgr'[m].client \in Ops /\ mStep'[mgr'[m].client] \in Mcp!After
                                  /\ old'[mgr'[m].client] = m
  <2>1. \A m \in Ops : mStep'[m] \notin Mcp!After => mgr'[m].client = m
    BY <1>0, <1>1, <1>s DEF Mcp!Used
  <2>2. ASSUME NEW m \in Mcp!Makers, mgr[m].client # m
        PROVE  mgr[m].client \in Ops /\ mStep'[mgr[m].client] \in Mcp!After /\ old[mgr[m].client] = m
    <3>1. mgr[m].client \in Ops /\ mStep[mgr[m].client] \in Mcp!After /\ old[mgr[m].client] = m
      BY <1>0, <2>2 DEF Mcp!Used
    <3> QED BY <1>s, <3>1
  <2> QED BY <1>1, <1>m, <2>1, <2>2
<1>17. Mcp!CacheIsCurrent'
  BY <1>0, <1>1 DEF Mcp!CacheIsCurrent
<1>a. mStep[o] \notin Mcp!After
  BY <1>1 DEF Mcp!After
<1>b. \A n \in Names : tools[n] # o
  BY <1>0, <1>a DEF Mcp!Used
\* The tools are not there any more: the new client is closed.
<1>4. ASSUME open' = open \ {o}, UNCHANGED tools PROVE Mcp!IInv'
  <2>1. Mcp!TypeOK'
    BY <1>0, <1>1, <1>4, <1>s DEF Mcp!TypeOK
  <2>2. Mcp!Connected'
    BY <1>0, <1>4, <1>w, <1>s DEF Mcp!Connected
  <2>3. Mcp!Used'
    <3>1. \A n \in Names : tools'[n] \in Ops => mStep'[tools'[n]] \in Mcp!After
      BY <1>0, <1>4, <1>s DEF Mcp!Used
    <3> QED BY <1>u, <3>1 DEF Mcp!Used
  <2>4. Mcp!Named'
    BY <1>0, <1>4 DEF Mcp!Named
  <2>5. Mcp!OfferedToolsWork'
    BY <1>0, <1>1, <1>4, <1>b, <1>m DEF Mcp!OfferedToolsWork
  <2>6. Mcp!Keep'
    <3>1. ASSUME Mcp!Apart, NEW c \in open'
          PROVE  \/ \A n \in Mcp!OwnNames(c.server) : tools'[n] = c
                 \/ c \in Ops /\ mStep'[c] \in {"register", "swap"}
      <4>1. c \in open /\ c # o
        BY <1>4, <3>1
      <4>2. \/ \A n \in Mcp!OwnNames(c.server) : tools[n] = c
            \/ c \in Ops /\ mStep[c] \in {"register", "swap"}
        BY <1>0, <3>1, <4>1 DEF Mcp!Keep
      <4> QED BY <1>4, <1>s, <4>1, <4>2
    <3>2. ASSUME Mcp!Apart, NEW p \in Ops, mStep'[p] \in {"connect", "register"}
          PROVE  \A n \in Names : tools'[n].server # p.server
      <4>1. mStep[p] \in {"connect", "register"}
        BY <1>w, <1>s, <3>2
      <4>2. \A n \in Names : tools[n].server # p.server
        BY <1>0, <3>2, <4>1 DEF Mcp!Keep
      <4> QED BY <1>4, <4>2
    <3> QED BY <3>1, <3>2 DEF Mcp!Keep, Mcp!Apart
  <2> QED BY <1>s, <1>11, <1>12, <1>17, <2>1, <2>2, <2>3, <2>4, <2>5, <2>6 DEF Mcp!IInv
\* They are: they are exchanged.
<1>5. ASSUME NEW x \in Names, tools[x] = k, open' = open \ {k},
             tools' = [n \in Names |-> IF n \in ToolsOf[o.server] THEN o
                                      ELSE IF tools[n] = k THEN Mcp!NoOne ELSE tools[n]]
      PROVE  Mcp!IInv'
  <2>k. k \in Ops => mStep[k] \in Mcp!After
    BY <1>0, <1>5 DEF Mcp!Used
  <2>0. k # o
    BY <1>b, <1>5
  <2>t. \A n \in Names : \/ n \in ToolsOf[o.server] /\ tools'[n] = o
                         \/ n \notin ToolsOf[o.server] /\ tools[n] = k /\ tools'[n] = Mcp!NoOne
                         \/ n \notin ToolsOf[o.server] /\ tools[n] # k /\ tools'[n] = tools[n]
    BY <1>5
  <2>1. Mcp!TypeOK'
    <3>1. tools' \in [Names -> Mcp!Makers \cup {Mcp!NoOne, Mcp!Own}]
      BY <1>0, <1>2, <1>5 DEF Mcp!TypeOK
    <3> QED BY <1>0, <1>1, <1>5, <1>s, <3>1 DEF Mcp!TypeOK
  <2>2. Mcp!Connected'
    <3>1. ASSUME NEW p \in Ops, mStep'[p] \in {"register", "swap"} PROVE p \in open'
      <4>1. p # o /\ mStep[p] \in {"register", "swap"} /\ p \in open
        BY <1>0, <1>w, <1>s, <3>1 DEF Mcp!Connected
      <4>2. p # k
        BY <2>k, <4>1 DEF Mcp!After
      <4> QED BY <1>5, <4>1, <4>2
    <3> QED BY <3>1 DEF Mcp!Connected
  <2>w. w = "done"
    <3>1. Mcp!To(o, "done")
      BY <1>k, <1>5 DEF Mcp!SwapTools
    <3> QED BY <1>0, <1>s, <3>1 DEF Mcp!To, Mcp!TypeOK
  <2>3. Mcp!Used'
    <3>1. ASSUME NEW n \in Names, tools'[n] \in Ops PROVE mStep'[tools'[n]] \in Mcp!After
      <4>1. CASE tools'[n] = o
        BY <1>s, <2>w, <4>1 DEF Mcp!After
      <4>2. CASE tools'[n] = tools[n]
        BY <1>0, <1>s, <3>1, <4>2 DEF Mcp!Used
      <4>3. tools'[n] # Mcp!NoOne
        BY <3>1, McMakers
      <4> QED BY <2>t, <4>1, <4>2, <4>3
    <3> QED BY <1>u, <3>1 DEF Mcp!Used
  <2>4. Mcp!Named'
    <3>1. ASSUME NEW n \in Names, tools'[n] \in Mcp!Makers PROVE n \in ToolsOf[tools'[n].server]
      <4>1. tools'[n] # Mcp!NoOne
        BY <3>1, McMakers
      <4> QED BY <1>0, <2>t, <3>1, <4>1 DEF Mcp!Named
    <3>2. ASSUME NEW n \in Names, tools'[n] = Mcp!Own PROVE n \in BuiltIns
      <4>1. tools'[n] = tools[n]
        BY <1>2, <2>t, <3>2, McMakers
      <4> QED BY <1>0, <3>2, <4>1 DEF Mcp!Named
    <3> QED BY <3>1, <3>2 DEF Mcp!Named
  <2>5. Mcp!OfferedToolsWork'
    <3>1. ASSUME NEW n \in Names, tools'[n] \notin {Mcp!NoOne, Mcp!Own}
          PROVE  tools'[n] \in open'
      <4>1. CASE tools'[n] = o
        BY <1>2, <1>5, <2>0, <4>1
      <4>2. CASE tools'[n] = tools[n] /\ tools[n] # k
        BY <1>0, <1>5, <3>1, <4>2 DEF Mcp!OfferedToolsWork
      <4> QED BY <2>t, <3>1, <4>1, <4>2
    <3> QED BY <1>1, <1>m, <3>1 DEF Mcp!OfferedToolsWork
  <2>6. Mcp!Keep'
    <3> SUFFICES ASSUME Mcp!Apart PROVE Mcp!Keep'
      BY DEF Mcp!Keep, Mcp!Apart
    <3>n. \A s \in Servers : Mcp!OwnNames(s) \subseteq Names /\ Mcp!OwnNames(s) # {}
      BY DEF Mcp!OwnNames, Mcp!McpAssumption, Mcp!Apart
    <3>h. ASSUME NEW c \in open
          PROVE  \/ \A n \in Mcp!OwnNames(c.server) : tools[n] = c
                 \/ c \in Ops /\ mStep[c] \in {"register", "swap"}
      BY <1>0 DEF Mcp!Keep
    <3>k. \A n \in Mcp!OwnNames(o.server) : tools[n] = k
      <4>1. k \in open
        BY <1>0, <1>2, <1>5 DEF Mcp!OfferedToolsWork
      <4>2. ~(k \in Ops /\ mStep[k] \in {"register", "swap"})
        BY <2>k DEF Mcp!After
      <4> QED BY <1>2, <3>h, <4>1, <4>2
    <3>1. ASSUME NEW c \in open'
          PROVE  \/ \A n \in Mcp!OwnNames(c.server) : tools'[n] = c
                 \/ c \in Ops /\ mStep'[c] \in {"register", "swap"}
      <4>0. c \in open /\ c # k /\ c \in Mcp!Makers /\ c.server \in Servers
        BY <1>0, <1>5, <3>1, McMakers DEF Mcp!TypeOK
      <4>1. CASE c = o
        <5>1. \A n \in Mcp!OwnNames(o.server) : n \in Names /\ n \in ToolsOf[o.server]
          BY <1>2, <3>n DEF Mcp!OwnNames
        <5> QED BY <2>t, <4>1, <5>1
      <4>2. CASE c # o /\ c \in Ops /\ mStep[c] \in {"register", "swap"}
        BY <1>s, <4>2
      <4>3. CASE c # o /\ \A n \in Mcp!OwnNames(c.server) : tools[n] = c
        <5>1. c.server # o.server
          <6>1. SUFFICES ASSUME c.server = o.server PROVE FALSE
            OBVIOUS
          <6>2. PICK n \in Mcp!OwnNames(o.server) : TRUE
            BY <1>2, <3>n
          <6>3. tools[n] = c /\ tools[n] = k
            BY <3>k, <4>3, <6>1, <6>2
          <6> QED BY <4>0, <6>3
        <5>2. ASSUME NEW n \in Mcp!OwnNames(c.server) PROVE tools'[n] = c
          <6>1. n \in Names /\ n \notin ToolsOf[o.server]
            BY <1>2, <3>n, <4>0, <5>1, <5>2 DEF Mcp!OwnNames
          <6> QED BY <2>t, <4>0, <4>3, <5>2, <6>1
        <5> QED BY <5>2
      <4> QED BY <3>h, <4>0, <4>1, <4>2, <4>3
    <3>2. ASSUME NEW p \in Ops, mStep'[p] \in {"connect", "register"}
          PROVE  \A n \in Names : tools'[n].server # p.server
      <4>1. p # o /\ mStep[p] \in {"connect", "register"} /\ p.server \in Servers
        BY <1>w, <1>s, <3>2, McMakers
      <4>2. \A n \in Names : tools[n].server # p.server
        BY <1>0, <4>1 DEF Mcp!Keep
      <4>3. p.kind # "remove"
        BY <1>0, <4>1 DEF Mcp!Kinds
      <4>4. p.server # o.server
        BY <1>2, <4>1, <4>3 DEF Mcp!Apart
      <4> QED BY <2>t, <4>1, <4>2, <4>4, McMakers
    <3> QED BY <3>1, <3>2 DEF Mcp!Keep
  <2> QED BY <1>s, <1>11, <1>12, <1>17, <2>1, <2>2, <2>3, <2>4, <2>5, <2>6 DEF Mcp!IInv
<1> QED
  <2>1. CASE \E n \in Names : tools[n] = old[o]
    <3>1. PICK x \in Names : tools[x] = k
      BY <1>k, <2>1
    <3>2. /\ open' = open \ {k}
          /\ tools' = [n \in Names |-> IF n \in ToolsOf[o.server] THEN o
                                       ELSE IF tools[n] = k THEN Mcp!NoOne ELSE tools[n]]
      BY <1>k, <2>1 DEF Mcp!SwapTools
    <3> QED BY <1>5, <3>1, <3>2
  <2>2. CASE ~\E n \in Names : tools[n] = old[o]
    BY <1>4, <2>2 DEF Mcp!SwapTools
  <2> QED BY <2>1, <2>2

\* What a conversation does with the tools it has loaded.
LEMMA McSession ==
  ASSUME Mcp!McpAssumption, Mcp!IInv, UNCHANGED <<tools, managers, open, config, mStep, cfg, old>>,
         mgr' \in [Mcp!Makers -> Mcp!Managed], Mcp!CacheIsCurrent',
         \A m \in Mcp!Makers : mgr'[m].client = mgr[m].client /\ mgr'[m].busy = mgr[m].busy,
         loaders' \subseteq Mcp!Makers, sess' \in [Names -> Mcp!Makers \cup {Mcp!NoOne}]
  PROVE  Mcp!IInv'
<1>0. /\ Mcp!TypeOK /\ Mcp!OneWay /\ Mcp!Kinds /\ Mcp!Found /\ Mcp!Connected /\ Mcp!Used
      /\ Mcp!Named /\ Mcp!Keep
      /\ Mcp!OfferedToolsWork
  BY DEF Mcp!IInv
<1>1. Mcp!TypeOK'
  BY <1>0 DEF Mcp!TypeOK
<1>2. Mcp!OneWay'
  BY <1>0 DEF Mcp!OneWay
<1>3. Mcp!Kinds' /\ Mcp!Connected' /\ Mcp!Named' /\ Mcp!Keep'
  BY <1>0 DEF Mcp!Kinds, Mcp!Connected, Mcp!Named, Mcp!Keep, Mcp!Apart
<1>4. Mcp!Found'
  <2>1. Mcp!FoundBefore' /\ Mcp!FoundFree'
    BY <1>0 DEF Mcp!Found, Mcp!FoundBefore, Mcp!FoundFree
  <2>2. Mcp!FoundBusy'
    BY <1>0 DEF Mcp!Found, Mcp!FoundBefore, Mcp!FoundBusy
  <2> QED BY <2>1, <2>2 DEF Mcp!Found
<1>5. Mcp!Used'
  <2>1. \A m \in Ops : m \in Mcp!Makers
    BY McMakers
  <2>2. /\ \A n \in Names : tools'[n] \in Ops => mStep'[tools'[n]] \in Mcp!After
        /\ \A m \in managers' : m \in Ops => mStep'[m] \in Mcp!After /\ old'[m] = Mcp!NoOne
    BY <1>0 DEF Mcp!Used
  <2>3. \A m \in Ops : mStep'[m] \notin Mcp!After => mgr'[m].client = m
    BY <1>0, <2>1 DEF Mcp!Used
  <2>4. ASSUME NEW m \in Mcp!Makers, mgr'[m].client # m
        PROVE  /\ mgr'[m].client \in Ops /\ mStep'[mgr'[m].client] \in Mcp!After
               /\ old'[mgr'[m].client] = m
    <3>1. mgr[m].client \in Ops /\ mStep[mgr[m].client] \in Mcp!After /\ old[mgr[m].client] = m
      BY <1>0, <2>4 DEF Mcp!Used
    <3> QED BY <3>1
  <2> QED BY <2>2, <2>3, <2>4 DEF Mcp!Used
<1>6. Mcp!OfferedToolsWork'
  BY <1>0 DEF Mcp!OfferedToolsWork, Mcp!TypeOK
<1> QED BY <1>1, <1>2, <1>3, <1>4, <1>5, <1>6 DEF Mcp!IInv

LEMMA McLoads ==
  ASSUME Mcp!McpAssumption, Mcp!IInv, Mcp!NewSession \/ Mcp!ClearLoaded \/ \E m \in Mcp!Makers, n \in Names : Mcp!LoadTool(m, n)
  PROVE  Mcp!IInv'
<1>0. /\ Mcp!TypeOK /\ Mcp!CacheIsCurrent /\ mgr \in [Mcp!Makers -> Mcp!Managed]
      /\ managers \subseteq Mcp!Makers
      /\ loaders \subseteq Mcp!Makers /\ sess \in [Names -> Mcp!Makers \cup {Mcp!NoOne}]
  BY DEF Mcp!IInv, Mcp!TypeOK
<1>1. CASE Mcp!NewSession \/ Mcp!ClearLoaded
  <2>1. /\ UNCHANGED <<tools, managers, open, config, mStep, cfg, old>> /\ mgr' = mgr
        /\ sess' = [n \in Names |-> Mcp!NoOne] /\ loaders' \in {managers, loaders}
    BY <1>1 DEF Mcp!NewSession, Mcp!ClearLoaded
  <2>2. Mcp!CacheIsCurrent'
    BY <1>0, <2>1 DEF Mcp!CacheIsCurrent
  <2>3. sess' \in [Names -> Mcp!Makers \cup {Mcp!NoOne}]
    BY <2>1
  <2>4. mgr' \in [Mcp!Makers -> Mcp!Managed] /\ loaders' \subseteq Mcp!Makers
    BY <1>0, <2>1
  <2> QED BY <2>1, <2>2, <2>3, <2>4, McSession
<1>2. ASSUME NEW m \in Mcp!Makers, NEW n \in Names, Mcp!LoadTool(m, n) PROVE Mcp!IInv'
  <2>1. UNCHANGED <<tools, managers, open, config, mStep, cfg, old>> /\ loaders' = loaders
    BY <1>2 DEF Mcp!LoadTool
  <2>2. PICK b : b = mgr[m]
    OBVIOUS
  <2>3. PICK e : e = <<n, b.client>>
    OBVIOUS
  <2>4. b \in Mcp!Managed /\ b.client \in Mcp!Makers /\ e \in Names \X Mcp!Makers /\ e[2] = b.client
    <3>1. b \in Mcp!Managed
      BY <1>0, <2>2
    <3>2. b.client \in Mcp!Makers
      BY <3>1 DEF Mcp!Managed
    <3> QED BY <2>3, <3>1, <3>2
  <2>5. PICK r : r = McCached(b, e)
    OBVIOUS
  <2>6. r \in Mcp!Managed /\ r.client = b.client /\ r.cache = b.cache \cup {e} /\ r.busy = b.busy
    BY <2>4, <2>5, McIsCached
  <2>7. mgr' = [mgr EXCEPT ![m] = r]
    BY <1>2, <2>2, <2>3, <2>5 DEF Mcp!LoadTool, McCached
  <2>8. /\ mgr' \in [Mcp!Makers -> Mcp!Managed] /\ mgr'[m] = r
        /\ \A x \in Mcp!Makers : x # m => mgr'[x] = mgr[x]
    BY <1>0, <2>6, <2>7
  <2>9. Mcp!CacheIsCurrent'
    <3>1. ASSUME NEW x \in Mcp!Makers, NEW d \in mgr'[x].cache PROVE d[2] = mgr'[x].client
      <4>1. CASE x # m
        BY <1>0, <2>8, <3>1, <4>1 DEF Mcp!CacheIsCurrent
      <4>2. CASE x = m
        <5>1. d \in b.cache \/ d = e
          BY <2>6, <2>8, <3>1, <4>2
        <5>2. d \in b.cache => d[2] = b.client
          BY <1>0, <2>2 DEF Mcp!CacheIsCurrent
        <5> QED BY <2>4, <2>6, <2>8, <4>2, <5>1, <5>2
      <4> QED BY <4>1, <4>2
    <3> QED BY <3>1 DEF Mcp!CacheIsCurrent
  <2>10. \A x \in Mcp!Makers : mgr'[x].client = mgr[x].client /\ mgr'[x].busy = mgr[x].busy
    BY <2>2, <2>6, <2>8
  <2>11. sess' \in [Names -> Mcp!Makers \cup {Mcp!NoOne}]
    <3>1. PICK s : s = IF \E c \in Mcp!Makers : <<n, c>> \in mgr[m].cache
                       THEN CHOOSE c \in Mcp!Makers : <<n, c>> \in mgr[m].cache ELSE mgr[m].client
      OBVIOUS
    <3>2. s \in Mcp!Makers
      <4>1. CASE \E c \in Mcp!Makers : <<n, c>> \in mgr[m].cache
        <5>1. s = CHOOSE c \in Mcp!Makers : <<n, c>> \in mgr[m].cache
          BY <3>1, <4>1
        <5> QED BY <4>1, <5>1
      <4>2. CASE ~\E c \in Mcp!Makers : <<n, c>> \in mgr[m].cache
        BY <2>2, <2>4, <3>1, <4>2
      <4> QED BY <4>1, <4>2
    <3>3. sess' = [sess EXCEPT ![n] = s]
      BY <1>2, <3>1 DEF Mcp!LoadTool
    <3> QED BY <1>0, <3>2, <3>3
  <2> QED BY <1>0, <2>1, <2>8, <2>9, <2>10, <2>11, McSession
<1> QED BY <1>1, <1>2

LEMMA McInit == ASSUME Mcp!McpAssumption, Mcp!Init PROVE Mcp!IInv
<1>1. PICK up \in SUBSET Configured :
        /\ open = {Mcp!Boot(s) : s \in up}
        /\ managers = (IF Lazy THEN {Mcp!Boot(s) : s \in up} ELSE {})
        /\ tools = Mcp!Booted(IF Lazy THEN {} ELSE up)
        /\ mgr = [m \in Mcp!Makers |-> [client |-> m, cache |-> {}, busy |-> Mcp!NoOne]]
        /\ config = Configured
        /\ mStep = [o \in Ops |-> "new"] /\ cfg = [o \in Ops |-> {}]
        /\ old = [o \in Ops |-> Mcp!NoOne]
        /\ loaders = {} /\ sess = [n \in Names |-> Mcp!NoOne]
  BY DEF Mcp!Init
<1>2. up \subseteq Servers /\ Configured \subseteq Servers
  BY DEF Mcp!McpAssumption
<1>3. PICK on : on = IF Lazy THEN {} ELSE up
  OBVIOUS
<1>t. ASSUME NEW n \in Names
      PROVE  \/ n \in BuiltIns /\ tools[n] = Mcp!Own
             \/ n \notin BuiltIns /\ \E s \in on : n \in ToolsOf[s] /\ tools[n] = Mcp!Boot(s)
             \/ n \notin BuiltIns /\ tools[n] = Mcp!NoOne /\ \A s \in on : n \notin ToolsOf[s]
  <2>1. tools[n] = IF n \in BuiltIns THEN Mcp!Own
                   ELSE IF \E s \in on : n \in ToolsOf[s]
                   THEN Mcp!Boot(CHOOSE s \in on : n \in ToolsOf[s]) ELSE Mcp!NoOne
    BY <1>1, <1>3 DEF Mcp!Booted
  <2>2. CASE n \notin BuiltIns /\ \E s \in on : n \in ToolsOf[s]
    <3>1. PICK s : s = CHOOSE z \in on : n \in ToolsOf[z]
      OBVIOUS
    <3>2. s \in on /\ n \in ToolsOf[s]
      BY <2>2, <3>1
    <3>3. tools[n] = Mcp!Boot(s)
      BY <2>1, <2>2, <3>1
    <3> QED BY <2>2, <3>2, <3>3
  <2> QED BY <2>1, <2>2
<1>4. Mcp!TypeOK
  <2>1. tools \in [Names -> Mcp!Makers \cup {Mcp!NoOne, Mcp!Own}]
    <3>1. DOMAIN tools = Names /\ tools = [n \in Names |-> tools[n]]
      BY <1>1 DEF Mcp!Booted
    <3>2. \A n \in Names : tools[n] \in Mcp!Makers \cup {Mcp!NoOne, Mcp!Own}
      BY <1>2, <1>3, <1>t, McMakers
    <3> QED BY <3>1, <3>2
  <2>2. mgr \in [Mcp!Makers -> Mcp!Managed]
    <3>1. ASSUME NEW m \in Mcp!Makers
          PROVE  [client |-> m, cache |-> {}, busy |-> Mcp!NoOne] \in Mcp!Managed
      BY DEF Mcp!Managed
    <3> QED BY <1>1, <3>1
  <2>3. managers \subseteq Mcp!Makers /\ open \subseteq Mcp!Makers
    BY <1>1, <1>2, McMakers
  <2>4. mStep \in [Ops -> Mcp!Steps] /\ cfg \in [Ops -> SUBSET Servers] /\ old \in [Ops -> Mcp!Makers \cup {Mcp!NoOne}]
    BY <1>1 DEF Mcp!Steps
  <2> QED BY <1>1, <1>2, <2>1, <2>2, <2>3, <2>4 DEF Mcp!TypeOK
<1>5. Mcp!OneWay
  <2>1. Lazy => \A n \in Names : tools[n] \in {Mcp!NoOne, Mcp!Own}
    BY <1>3, <1>t
  <2>2. ~Lazy => managers = {}
    BY <1>1
  <2>3. \A m \in Mcp!Makers : mgr[m].busy = Mcp!NoOne
    BY <1>1
  <2> QED BY <1>1, <2>1, <2>2, <2>3 DEF Mcp!OneWay
<1>6. Mcp!Kinds /\ Mcp!Connected
  BY <1>1 DEF Mcp!Kinds, Mcp!Connected
<1>7. Mcp!Found
  BY <1>1, McMakers DEF Mcp!Found, Mcp!FoundBefore, Mcp!FoundBusy, Mcp!FoundFree
<1>8. Mcp!Used
  <2>1. \A n \in Names : tools[n] \notin Ops
    BY <1>2, <1>3, <1>t, McMakers
  <2>2. \A m \in managers : m \notin Ops
    BY <1>1, <1>2, McMakers
  <2>3. \A m \in Mcp!Makers : mgr[m].client = m
    BY <1>1
  <2> QED BY <2>1, <2>2, <2>3, McMakers DEF Mcp!Used
<1>9. Mcp!Named
  <2>1. ASSUME NEW n \in Names, tools[n] \in Mcp!Makers PROVE n \in ToolsOf[tools[n].server]
    <3>1. PICK s \in on : n \in ToolsOf[s] /\ tools[n] = Mcp!Boot(s)
      BY <1>t, <2>1, McMakers
    <3> QED BY <1>2, <1>3, <3>1, McMakers
  <2>2. ASSUME NEW n \in Names, tools[n] = Mcp!Own PROVE n \in BuiltIns
    <3>1. \A s \in on : Mcp!Boot(s) # Mcp!Own
      BY <1>2, <1>3, McMakers
    <3> QED BY <1>t, <2>2, <3>1, McMakers
  <2> QED BY <2>1, <2>2 DEF Mcp!Named
<1>10. Mcp!Keep
  <2>1. ASSUME Mcp!Apart, NEW c \in open, NEW n \in Mcp!OwnNames(c.server) PROVE tools[n] = c
    <3>1. PICK s \in up : c = Mcp!Boot(s)
      BY <1>1
    <3>2. on = up /\ s \in Servers /\ c.server = s
      BY <1>2, <1>3, <2>1, <3>1, McMakers DEF Mcp!Apart
    <3>3. n \in ToolsOf[s] /\ n \notin BuiltIns /\ n \in Names
      BY <2>1, <3>2 DEF Mcp!OwnNames, Mcp!McpAssumption
    <3>4. \A z \in Servers : n \in ToolsOf[z] => z = s
      BY <2>1, <3>2 DEF Mcp!OwnNames
    <3>5. \E z \in on : n \in ToolsOf[z] /\ tools[n] = Mcp!Boot(z)
      BY <1>t, <3>1, <3>2, <3>3
    <3> QED BY <1>2, <3>1, <3>2, <3>4, <3>5
  <2>2. \A o \in Ops : mStep[o] \notin {"connect", "register"}
    BY <1>1
  <2> QED BY <2>1, <2>2 DEF Mcp!Keep
<1>11. Mcp!OfferedToolsWork
  <2>1. ASSUME NEW n \in Names, tools[n] \notin {Mcp!NoOne, Mcp!Own} PROVE tools[n] \in open
    BY <1>1, <1>3, <1>t, <2>1
  <2>2. \A m \in managers : mgr[m].client \in open
    BY <1>1, <1>2, McMakers
  <2> QED BY <2>1, <2>2 DEF Mcp!OfferedToolsWork
<1>12. Mcp!CacheIsCurrent
  BY <1>1 DEF Mcp!CacheIsCurrent
<1> QED BY <1>4, <1>5, <1>6, <1>7, <1>8, <1>9, <1>10, <1>11, <1>12 DEF Mcp!IInv

LEMMA McStep == ASSUME Mcp!McpAssumption, Mcp!IInv, Mcp!Next PROVE Mcp!IInv'
<1>1. ASSUME NEW o \in Ops, Mcp!Step(o) PROVE Mcp!IInv'
  <2>1. \/ Mcp!AddReads(o) \/ Mcp!AddChecks(o) \/ Mcp!AddSaves(o) \/ Mcp!RemoveReads(o) \/ Mcp!RemoveWrites(o)
        \/ Mcp!AddConnects(o) \/ Mcp!LocksManager(o) \/ Mcp!ReconnectConnects(o)
        \/ Mcp!AddRegisters(o) \/ Mcp!Unregister(o) \/ Mcp!ReconnectFinds(o) \/ Mcp!SwapManager(o) \/ Mcp!SwapTools(o)
    BY <1>1 DEF Mcp!Step
  <2> QED BY <2>1, McMoving, McConnects, McRegisters, McUnregisters, McFinds, McSwapsManager,
     McSwapsTools
<1> QED BY <1>1, McLoads DEF Mcp!Next

LEMMA McStutter == ASSUME Mcp!IInv, UNCHANGED Mcp!vars PROVE Mcp!IInv'
<1>1. Mcp!TypeOK' /\ Mcp!OneWay' /\ Mcp!Kinds' /\ Mcp!Found' /\ Mcp!Connected'
  BY DEF Mcp!IInv, Mcp!vars, Mcp!sessVars, Mcp!TypeOK, Mcp!OneWay, Mcp!Kinds, Mcp!Found,
     Mcp!FoundBefore, Mcp!FoundBusy, Mcp!FoundFree, Mcp!Connected
<1>2. Mcp!Used' /\ Mcp!Named' /\ Mcp!Keep' /\ Mcp!OfferedToolsWork' /\ Mcp!CacheIsCurrent'
  BY DEF Mcp!IInv, Mcp!vars, Mcp!sessVars, Mcp!Used, Mcp!Named, Mcp!Keep, Mcp!Apart,
     Mcp!OfferedToolsWork, Mcp!CacheIsCurrent
<1> QED BY <1>1, <1>2 DEF Mcp!IInv

LEMMA McKeeps == ASSUME Mcp!McpAssumption, Mcp!IInv PROVE Mcp!NoConnectionLeaks
<1>0. Mcp!TypeOK /\ Mcp!Keep
  BY DEF Mcp!IInv
<1>1. ASSUME Mcp!Apart, NEW c \in open
      PROVE  (\E n \in Names : tools[n] = c) \/ (c \in Ops /\ ~Mcp!Over(c))
  <2>1. c.server \in Servers
    BY <1>0, McMakers DEF Mcp!TypeOK
  <2>2. PICK n \in Mcp!OwnNames(c.server) : n \in Names
    BY <1>1, <2>1 DEF Mcp!Apart, Mcp!OwnNames, Mcp!McpAssumption
  <2>3. \/ \A x \in Mcp!OwnNames(c.server) : tools[x] = c
        \/ c \in Ops /\ mStep[c] \in {"register", "swap"}
    BY <1>0, <1>1 DEF Mcp!Keep
  <2> QED BY <2>2, <2>3 DEF Mcp!Over
<1> QED BY <1>1 DEF Mcp!NoConnectionLeaks

-------------------------------------------------------------------------------
(* Interceptor.                                                            *)

LEMMA IcInit == ASSUME Judge!InterceptorAssumption, Judge!Init PROVE Judge!IInv
<1>1. Judge!TypeOK
  BY DEF Judge!Init, Judge!TypeOK, Judge!InterceptorAssumption
<1>2. Judge!ListIsInForce /\ Judge!ChecksPassed /\ Judge!PassedByOne /\ Judge!HardRulesHold /\ Judge!VerdictIsDocumented
  BY DEF Judge!Init, Judge!ListIsInForce, Judge!ChecksPassed, Judge!PassedByOne,
     Judge!HardRulesHold, Judge!VerdictIsDocumented
<1> QED BY <1>1, <1>2 DEF Judge!IInv

\* The verdict of one list, in the terms of the checks.
LEMMA IcVerdict ==
  ASSUME NEW l
  PROVE  Judge!Documented(l) <=>
           \/ ~l.enable
           \/ /\ Judge!PlatformEnabled(l)
              /\ Judge!Private => Judge!Allowed(l, msg.user, l.friends)
              /\ ~Judge!Private => /\ Judge!Allowed(l, msg.group, l.groups) /\ ~Judge!BlockedInGroup(l)
                                   /\ Judge!IsWhitelist(l) \/ Judge!Allowed(l, msg.user, l.friends)
<1>1. \A id, set : Judge!Allowed(l, id, set) <=> (Judge!IsWhitelist(l) /\ id \in set) \/ (~Judge!IsWhitelist(l) /\ id \notin set)
  BY DEF Judge!Allowed, Judge!IsWhitelist
<1>2. Judge!PlatformOfMessage(msg) \in l.platforms \cup {""} <=> Judge!PlatformEnabled(l)
  BY DEF Judge!PlatformEnabled
<1>3. Judge!BlockedInGroup(l) <=> <<msg.group, msg.user>> \in l.groupUsers
  BY DEF Judge!BlockedInGroup
<1>4. CASE Judge!Private
  BY <1>1, <1>2, <1>4 DEF Judge!Documented
<1>5. CASE ~Judge!Private
  <2>0. Judge!Documented(l) <=>
          \/ ~l.enable
          \/ /\ Judge!PlatformEnabled(l) /\ ~Judge!BlockedInGroup(l)
             /\ Judge!IsWhitelist(l) => msg.group \in l.groups
             /\ ~Judge!IsWhitelist(l) => msg.group \notin l.groups /\ msg.user \notin l.friends
    BY <1>2, <1>3, <1>5, Zenon DEF Judge!Documented
  <2>1. CASE Judge!IsWhitelist(l)
    <3>1. Judge!Allowed(l, msg.group, l.groups) <=> msg.group \in l.groups
      BY <1>1, <2>1
    <3> QED BY <1>5, <2>0, <2>1, <3>1, Zenon
  <2>2. CASE ~Judge!IsWhitelist(l)
    <3>1. /\ Judge!Allowed(l, msg.group, l.groups) <=> msg.group \notin l.groups
          /\ Judge!Allowed(l, msg.user, l.friends) <=> msg.user \notin l.friends
      BY <1>1, <2>2
    <3> QED BY <1>5, <2>0, <2>2, <3>1, Zenon
  <2> QED BY <2>1, <2>2
<1> QED BY <1>4, <1>5

\* A list comes into force.
LEMMA IcLoads ==
  ASSUME Judge!IInv, NEW l, Judge!InForce(l), UNCHANGED <<msg, iAt>>, loads' \in 0..MaxLoads
  PROVE  Judge!IInv'
<1>0. /\ Judge!TypeOK /\ Judge!ListIsInForce /\ Judge!ChecksPassed /\ Judge!PassedByOne
      /\ Judge!HardRulesHold /\ Judge!VerdictIsDocumented
  BY DEF Judge!IInv
<1>1. list' = l /\ iAt' = iAt /\ msg' = msg
  BY DEF Judge!InForce
<1>2. CASE iAt \in {"idle", "passed", "blocked"}
  <2>1. since' = since
    BY <1>2 DEF Judge!InForce
  <2>2. Judge!TypeOK' /\ Judge!ListIsInForce'
    BY <1>0, <1>1, <1>2, <2>1 DEF Judge!TypeOK, Judge!ListIsInForce
  <2>3. Judge!ChecksPassed'
    BY <1>1, <1>2 DEF Judge!ChecksPassed
  <2>4. Judge!PassedByOne'
    BY <1>1, <1>2 DEF Judge!PassedByOne, Judge!PassedBy
  <2>5. Judge!HardRulesHold'
    BY <1>0, <1>1, <2>1 DEF Judge!HardRulesHold, Judge!PlatformEnabled, Judge!Private,
       Judge!BlockedInGroup
  <2>6. Judge!VerdictIsDocumented'
    BY <1>0, <1>1, <2>1 DEF Judge!VerdictIsDocumented, Judge!VerdictOf, Judge!Documented,
       Judge!IsWhitelist, Judge!Private
  <2> QED BY <2>2, <2>3, <2>4, <2>5, <2>6 DEF Judge!IInv
<1>3. CASE iAt \notin {"idle", "passed", "blocked"}
  <2>1. since' = since \cup {l} /\ list \in since
    BY <1>0, <1>3 DEF Judge!InForce, Judge!ListIsInForce
  <2>2. Judge!TypeOK' /\ Judge!ListIsInForce'
    BY <1>0, <1>1, <1>3, <2>1 DEF Judge!TypeOK, Judge!ListIsInForce
  <2>3. Judge!ChecksPassed'
    BY <1>0, <1>1, <2>1 DEF Judge!ChecksPassed, Judge!Private, Judge!PlatformEnabled,
       Judge!BlockedInGroup
  <2>4. Judge!PassedByOne'
    <3>1. ASSUME NEW k \in since', since' = {k} PROVE Judge!PassedBy(k)'
      <4>1. k \in since /\ since = {k}
        BY <2>1, <3>1
      <4>2. Judge!PassedBy(k)
        BY <1>0, <4>1 DEF Judge!PassedByOne
      <4> QED BY <1>1, <4>2 DEF Judge!PassedBy, Judge!Private, Judge!PlatformEnabled,
         Judge!BlockedInGroup
    <3> QED BY <3>1 DEF Judge!PassedByOne
  <2>5. Judge!HardRulesHold' /\ Judge!VerdictIsDocumented'
    BY <1>1, <1>3 DEF Judge!HardRulesHold, Judge!VerdictIsDocumented
  <2> QED BY <2>2, <2>3, <2>4, <2>5 DEF Judge!IInv
<1> QED BY <1>2, <1>3

LEMMA IcJudges == ASSUME Judge!IInv, Judge!Judge PROVE Judge!IInv'
<1>0. /\ Judge!TypeOK /\ Judge!ListIsInForce /\ Judge!ChecksPassed /\ Judge!PassedByOne
      /\ Judge!HardRulesHold /\ Judge!VerdictIsDocumented
  BY DEF Judge!IInv
<1>1. /\ iAt \in {"enabled", "platform", "group", "member", "mode", "friend"} /\ list \in since
      /\ iAt' = Judge!AfterCheck(list) /\ msg' = msg /\ since' = since /\ list' = list
      /\ loads' = loads
  BY <1>0 DEF Judge!Judge, Judge!TypeOK, Judge!ListIsInForce
<1>2. /\ iAt = "enabled"  => iAt' = IF list.enable THEN "platform" ELSE "passed"
      /\ iAt = "platform" => iAt' = IF ~Judge!PlatformEnabled(list) THEN "blocked" ELSE IF Judge!Private THEN "friend" ELSE "group"
      /\ iAt = "group"    => iAt' = IF Judge!Allowed(list, msg.group, list.groups) THEN "member" ELSE "blocked"
      /\ iAt = "member"   => iAt' = IF Judge!BlockedInGroup(list) THEN "blocked" ELSE "mode"
      /\ iAt = "mode"     => iAt' = IF Judge!IsWhitelist(list) THEN "passed" ELSE "friend"
      /\ iAt = "friend"   => iAt' = IF Judge!Allowed(list, msg.user, list.friends) THEN "passed" ELSE "blocked"
  BY <1>1 DEF Judge!AfterCheck
<1>3. iAt' \in {"platform", "group", "member", "mode", "friend", "passed", "blocked"}
  BY <1>1, <1>2
<1>4. Judge!TypeOK'
  BY <1>0, <1>1, <1>3 DEF Judge!TypeOK
<1>5. Judge!ListIsInForce'
  BY <1>1 DEF Judge!ListIsInForce
<1>p. /\ Judge!Private' = Judge!Private /\ \A l : Judge!PlatformEnabled(l)' = Judge!PlatformEnabled(l)
      /\ \A l : Judge!BlockedInGroup(l)' = Judge!BlockedInGroup(l)
  BY <1>1 DEF Judge!Private, Judge!PlatformEnabled, Judge!BlockedInGroup
<1>6. Judge!ChecksPassed'
  <2>1. iAt' \in {"group", "member", "mode"} => ~Judge!Private
    BY <1>0, <1>1, <1>2 DEF Judge!ChecksPassed
  <2>2. iAt' \in {"group", "member", "mode", "friend"} => \E l \in since : Judge!PlatformEnabled(l)
    BY <1>0, <1>1, <1>2 DEF Judge!ChecksPassed
  <2>3. iAt' \in {"member", "mode", "friend"} /\ ~Judge!Private => \E l \in since : Judge!Allowed(l, msg.group, l.groups)
    BY <1>0, <1>1, <1>2 DEF Judge!ChecksPassed
  <2>4. iAt' \in {"mode", "friend"} /\ ~Judge!Private => \E l \in since : ~Judge!BlockedInGroup(l)
    BY <1>0, <1>1, <1>2 DEF Judge!ChecksPassed
  <2> QED BY <1>1, <1>p, <2>1, <2>2, <2>3, <2>4 DEF Judge!ChecksPassed
<1>7. Judge!PassedByOne'
  <2>1. ASSUME NEW l \in since, since = {l} PROVE Judge!PassedBy(l)'
    <3>0. l = list /\ Judge!PassedBy(l)
      BY <1>0, <1>1, <2>1 DEF Judge!PassedByOne
    <3>1. iAt' \in {"platform", "group", "member", "mode", "friend"} => l.enable
      BY <1>1, <1>2, <3>0 DEF Judge!PassedBy
    <3>2. iAt' \in {"group", "member", "mode", "friend"} => Judge!PlatformEnabled(l)
      BY <1>1, <1>2, <3>0 DEF Judge!PassedBy
    <3>3. iAt' \in {"member", "mode", "friend"} /\ ~Judge!Private => Judge!Allowed(l, msg.group, l.groups)
      BY <1>1, <1>2, <3>0 DEF Judge!PassedBy
    <3>4. iAt' \in {"mode", "friend"} /\ ~Judge!Private => ~Judge!BlockedInGroup(l)
      BY <1>1, <1>2, <3>0 DEF Judge!PassedBy
    <3>5. iAt' = "friend" /\ ~Judge!Private => ~Judge!IsWhitelist(l)
      BY <1>1, <1>2, <3>0
    <3> QED BY <1>1, <1>p, <3>1, <3>2, <3>3, <3>4, <3>5 DEF Judge!PassedBy, Judge!Allowed,
       Judge!IsWhitelist
  <2> QED BY <1>1, <2>1 DEF Judge!PassedByOne
<1>8. Judge!HardRulesHold'
  <2>1. ASSUME iAt' = "passed", \A l \in since : l.enable
        PROVE  /\ \E l \in since : Judge!PlatformEnabled(l)
               /\ ~Judge!Private => /\ \E l \in since : Judge!Allowed(l, msg.group, l.groups)
                                    /\ \E l \in since : ~Judge!BlockedInGroup(l)
               /\ Judge!Private => \E l \in since : Judge!Allowed(l, msg.user, l.friends)
    <3>1. \/ iAt = "mode"
          \/ iAt = "friend" /\ Judge!Allowed(list, msg.user, list.friends)
      BY <1>1, <1>2, <2>1
    <3> QED BY <1>0, <1>1, <3>1 DEF Judge!ChecksPassed
  <2> QED BY <1>1, <1>p, <2>1 DEF Judge!HardRulesHold
<1>9. Judge!VerdictIsDocumented'
  <2>1. ASSUME iAt' \in {"passed", "blocked"}, NEW l \in since, since = {l}
        PROVE  iAt' = Judge!VerdictOf(l)
    <3>0. l = list /\ Judge!PassedBy(l)
      BY <1>0, <1>1, <2>1 DEF Judge!PassedByOne
    <3>1. CASE iAt = "enabled"
      BY <1>2, <2>1, <3>0, <3>1 DEF Judge!VerdictOf, Judge!Documented
    <3>2. CASE iAt = "platform"
      BY <1>2, <2>1, <3>0, <3>2 DEF Judge!VerdictOf, Judge!Documented, Judge!PassedBy,
         Judge!PlatformEnabled
    <3>3. CASE iAt \in {"group", "member", "mode"}
      <4>1. ~Judge!Private /\ l.enable /\ Judge!PlatformEnabled(l)
        BY <1>0, <3>0, <3>3 DEF Judge!ChecksPassed, Judge!PassedBy
      <4>2. iAt = "group" => ~Judge!Allowed(l, msg.group, l.groups) /\ iAt' = "blocked"
        BY <1>2, <2>1, <3>0
      <4>3. iAt = "member" => Judge!BlockedInGroup(l) /\ iAt' = "blocked"
        BY <1>2, <2>1, <3>0
      <4>4. iAt = "mode" => /\ Judge!IsWhitelist(l) /\ Judge!Allowed(l, msg.group, l.groups) /\ ~Judge!BlockedInGroup(l)
                            /\ iAt' = "passed"
        BY <1>2, <2>1, <3>0, <4>1 DEF Judge!PassedBy
      <4>5. iAt \in {"group", "member"} => ~Judge!Documented(l) /\ iAt' = "blocked"
        <5>1. iAt = "group" => ~Judge!Documented(l)
          BY <4>1, <4>2, IcVerdict
        <5>2. iAt = "member" => ~Judge!Documented(l)
          BY <4>1, <4>3, IcVerdict
        <5> QED BY <4>2, <4>3, <5>1, <5>2
      <4>6. iAt = "mode" => Judge!Documented(l) /\ iAt' = "passed"
        BY <4>1, <4>4, IcVerdict
      <4> QED BY <3>3, <4>5, <4>6 DEF Judge!VerdictOf
    <3>4. CASE iAt = "friend"
      <4>1. /\ l.enable /\ Judge!PlatformEnabled(l)
            /\ ~Judge!Private => Judge!Allowed(l, msg.group, l.groups) /\ ~Judge!BlockedInGroup(l) /\ ~Judge!IsWhitelist(l)
        BY <3>0, <3>4 DEF Judge!PassedBy
      <4>2. iAt' = IF Judge!Allowed(l, msg.user, l.friends) THEN "passed" ELSE "blocked"
        BY <1>2, <3>0, <3>4
      <4> QED BY <4>1, <4>2, IcVerdict DEF Judge!VerdictOf
    <3> QED BY <1>1, <3>1, <3>2, <3>3, <3>4
  <2>2. \A l \in since : Judge!VerdictOf(l)' = Judge!VerdictOf(l)
    BY <1>1, <1>p DEF Judge!VerdictOf, Judge!Documented, Judge!IsWhitelist
  <2> QED BY <1>1, <2>1, <2>2 DEF Judge!VerdictIsDocumented
<1> QED BY <1>4, <1>5, <1>6, <1>7, <1>8, <1>9 DEF Judge!IInv

LEMMA IcStep == ASSUME Judge!InterceptorAssumption, Judge!IInv, Judge!Next PROVE Judge!IInv'
<1>0. Judge!TypeOK /\ loads \in 0..MaxLoads
  BY DEF Judge!IInv, Judge!TypeOK
<1>1. CASE Judge!Judge
  BY <1>1, IcJudges
<1>2. CASE Judge!Finish
  <2>1. iAt' = "idle" /\ msg' = Judge!Waiting /\ since' = {} /\ loads' = loads
    BY <1>2 DEF Judge!Finish
  <2>2. Judge!TypeOK'
    BY <1>0, <2>1 DEF Judge!TypeOK
  <2>3. Judge!ListIsInForce' /\ Judge!ChecksPassed' /\ Judge!PassedByOne' /\ Judge!HardRulesHold' /\ Judge!VerdictIsDocumented'
    BY <2>1 DEF Judge!ListIsInForce, Judge!ChecksPassed, Judge!PassedByOne, Judge!HardRulesHold,
       Judge!VerdictIsDocumented
  <2> QED BY <2>2, <2>3 DEF Judge!IInv
<1>3. CASE Judge!LoadWrites
  <2>1. Judge!InForce([next EXCEPT !.platforms = loading]) /\ UNCHANGED <<msg, iAt>> /\ loads' = loads
    BY <1>3 DEF Judge!LoadWrites
  <2> QED BY <1>0, <2>1, IcLoads
<1>4. ASSUME NEW m \in Messages, Judge!Comes(m) PROVE Judge!IInv'
  <2>1. iAt' = "enabled" /\ msg' = m /\ since' = {list} /\ loads' = loads /\ list' = list
    BY <1>4 DEF Judge!Comes
  <2>2. Judge!TypeOK'
    BY <1>0, <2>1 DEF Judge!TypeOK
  <2>3. Judge!ListIsInForce' /\ Judge!ChecksPassed' /\ Judge!HardRulesHold' /\ Judge!VerdictIsDocumented'
    BY <2>1 DEF Judge!ListIsInForce, Judge!ChecksPassed, Judge!HardRulesHold,
       Judge!VerdictIsDocumented
  <2>4. Judge!PassedByOne'
    BY <2>1 DEF Judge!PassedByOne, Judge!PassedBy
  <2> QED BY <2>2, <2>3, <2>4 DEF Judge!IInv
<1>5. ASSUME NEW l \in Lists, Judge!LoadWithPlatforms(l) PROVE Judge!IInv'
  <2>1. Judge!InForce(Judge!Parsed(l)) /\ UNCHANGED <<msg, iAt>>
    BY <1>5 DEF Judge!LoadWithPlatforms
  <2>2. loads' \in 0..MaxLoads
    BY <1>0, <1>5 DEF Judge!LoadWithPlatforms, Judge!InterceptorAssumption
  <2> QED BY <2>1, <2>2, IcLoads
<1>6. ASSUME NEW l \in Lists, Judge!LoadReads(l) PROVE Judge!IInv'
  <2>1. UNCHANGED <<list, msg, iAt, since>>
    BY <1>6 DEF Judge!LoadReads
  <2>2. loads' \in 0..MaxLoads
    BY <1>0, <1>6 DEF Judge!LoadReads, Judge!InterceptorAssumption
  <2>3. Judge!TypeOK'
    BY <1>0, <2>1, <2>2 DEF Judge!TypeOK
  <2>4. Judge!ListIsInForce' /\ Judge!ChecksPassed' /\ Judge!PassedByOne'
    BY <2>1 DEF Judge!IInv, Judge!ListIsInForce, Judge!ChecksPassed, Judge!PassedByOne,
       Judge!PassedBy, Judge!Private, Judge!PlatformEnabled, Judge!BlockedInGroup
  <2>5. Judge!HardRulesHold' /\ Judge!VerdictIsDocumented'
    BY <2>1 DEF Judge!IInv, Judge!HardRulesHold, Judge!VerdictIsDocumented, Judge!VerdictOf,
       Judge!Documented, Judge!IsWhitelist, Judge!Private, Judge!PlatformEnabled,
       Judge!BlockedInGroup
  <2> QED BY <2>3, <2>4, <2>5 DEF Judge!IInv
<1> QED BY <1>1, <1>2, <1>3, <1>4, <1>5, <1>6 DEF Judge!Next

LEMMA IcStutter == ASSUME Judge!IInv, UNCHANGED Judge!vars PROVE Judge!IInv'
<1>1. UNCHANGED <<list, msg, iAt, since, loads>>
  BY DEF Judge!vars
<1>2. Judge!TypeOK' /\ Judge!ListIsInForce' /\ Judge!ChecksPassed' /\ Judge!PassedByOne'
  BY <1>1 DEF Judge!IInv, Judge!TypeOK, Judge!ListIsInForce, Judge!ChecksPassed,
     Judge!PassedByOne, Judge!PassedBy, Judge!Private, Judge!PlatformEnabled,
     Judge!BlockedInGroup
<1>3. Judge!HardRulesHold' /\ Judge!VerdictIsDocumented'
  BY <1>1 DEF Judge!IInv, Judge!HardRulesHold, Judge!VerdictIsDocumented, Judge!VerdictOf,
     Judge!Documented, Judge!IsWhitelist, Judge!Private, Judge!PlatformEnabled,
     Judge!BlockedInGroup
<1> QED BY <1>2, <1>3 DEF Judge!IInv

-------------------------------------------------------------------------------
(* LlmClient.                                                              *)

LmPart == {"main", "backup"} \X Nat \X Nat

LEMMA LmInit == ASSUME Model!LlmAssumption, Model!Init PROVE Model!IInv
<1>1. <<>> \in Seq(LmPart) /\ DOMAIN <<>> = {} /\ Model!Most \in Nat \ {0}
  BY DEF Model!Most, Model!LlmAssumption
<1>2. Model!TypeOK
  BY <1>1 DEF Model!Init, Model!TypeOK, LmPart
<1>3. Model!ShownIsGot /\ Model!ShownIsAnswer
  BY <1>1 DEF Model!Init, Model!ShownIsGot, Model!ShownIsAnswer
<1>4. Model!AttemptsAreCounted /\ Model!RequestsAreBounded
  BY <1>1 DEF Model!Init, Model!AttemptsAreCounted, Model!RequestsAreBounded
<1> QED BY <1>2, <1>3, <1>4 DEF Model!IInv

\* What is shown is taken back, if anything was.
LEMMA LmTakenBack ==
  ASSUME Model!LlmAssumption, Model!IInv, lAt = "stream", ~(started /\ Visible /\ ~Restartable), Model!Restart
  PROVE  shown' = <<>>
BY DEF Model!IInv, Model!ShownIsGot, Model!Restart, Model!LlmAssumption

LEMMA LmPiece == ASSUME Model!LlmAssumption, Model!IInv, Model!Piece PROVE Model!IInv'
<1> DEFINE piece == <<client, attempt, Len(got) + 1>>
<1>1. /\ got \in Seq(LmPart) /\ shown \in Seq(LmPart) /\ answer \in Seq(LmPart)
      /\ client \in {"main", "backup"} /\ attempt \in Nat
  BY DEF Model!IInv, Model!TypeOK, LmPart
<1>2. /\ lAt = "stream" /\ started' = TRUE /\ got' = Append(got, piece)
      /\ shown' = IF Visible THEN Append(shown, piece) ELSE shown
      /\ UNCHANGED <<client, attempt, lAt, answer, dead, requests>>
  BY DEF Model!Piece
<1>3. piece \in LmPart
  BY <1>1 DEF LmPart
<1>4. got' \in Seq(LmPart) /\ shown' \in Seq(LmPart) /\ answer' \in Seq(LmPart)
  BY <1>1, <1>2, <1>3
<1>5. Model!TypeOK'
  BY <1>2, <1>4 DEF Model!IInv, Model!TypeOK, LmPart
<1>6. \A i \in DOMAIN got' : got'[i] = <<client', attempt', i>>
  <2>1. \A i \in DOMAIN got : got[i] = <<client, attempt, i>>
    BY <1>2 DEF Model!IInv, Model!ShownIsGot
  <2> HIDE DEF piece
  <2>a. got' = Append(got, piece) /\ got \in Seq(LmPart) /\ piece \in LmPart
    BY <1>1, <1>2, <1>3
  <2>b. Len(got') = Len(got) + 1 /\ Len(got) \in Nat /\ got' \in Seq(LmPart)
    BY <2>a
  <2>c. \A i \in 1..Len(got) : got'[i] = got[i]
    BY <2>a
  <2>d. got'[Len(got) + 1] = piece
    BY <2>a
  <2>e. DOMAIN got = 1..Len(got) /\ DOMAIN got' = 1..(Len(got) + 1)
    BY <2>a, <2>b
  <2>2. \A i \in DOMAIN got' : (i \in DOMAIN got /\ got'[i] = got[i])
                             \/ (i = Len(got) + 1 /\ got'[i] = piece)
    BY <2>b, <2>c, <2>d, <2>e
  <2> QED BY <1>2, <2>1, <2>2 DEF piece
<1>7. Visible => shown' = got'
  BY <1>2 DEF Model!IInv, Model!ShownIsGot
<1>8. ~Visible => shown' = <<>>
  BY <1>2 DEF Model!IInv, Model!ShownIsGot
<1>9. Model!ShownIsGot'
  BY <1>2, <1>6, <1>7, <1>8 DEF Model!ShownIsGot
<1>10. \A i, j \in DOMAIN shown' : shown'[i][1] = shown'[j][1] /\ shown'[i][2] = shown'[j][2]
  <2>1. CASE Visible
    BY <1>6, <1>7, <2>1
  <2>2. CASE ~Visible
    BY <1>8, <2>2
  <2> QED BY <2>1, <2>2
<1>11. Model!ShownIsAnswer'
  BY <1>2, <1>10 DEF Model!ShownIsAnswer
<1> QED BY <1>2, <1>5, <1>9, <1>11 DEF Model!IInv, Model!AttemptsAreCounted,
   Model!RequestsAreBounded, Model!Most

\* The end of a generation, at whatever point.
LEMMA LmReturns ==
  ASSUME Model!LlmAssumption, Model!IInv, NEW outcome, NEW what, Model!Return(outcome, what), UNCHANGED shown,
         \/ outcome \in {"answered", "partial"} /\ what = got /\ lAt = "stream"
         \/ outcome \in {"failed", "cancelled"} /\ what = <<>>
  PROVE  Model!IInv'
<1>1. what \in Seq(LmPart)
  <2>1. got \in Seq(LmPart)
    BY DEF Model!IInv, Model!TypeOK, LmPart
  <2>2. <<>> \in Seq(LmPart)
    OBVIOUS
  <2> QED BY <2>1, <2>2
<1>2. Model!TypeOK'
  BY <1>1 DEF Model!IInv, Model!TypeOK, Model!Return, LmPart
<1>3. Model!ShownIsGot' /\ Model!AttemptsAreCounted' /\ Model!RequestsAreBounded'
  BY DEF Model!IInv, Model!Return, Model!ShownIsGot, Model!AttemptsAreCounted,
     Model!RequestsAreBounded, Model!Most
<1>4. Model!ShownIsAnswer'
  BY DEF Model!IInv, Model!Return, Model!ShownIsGot, Model!ShownIsAnswer
<1> QED BY <1>2, <1>3, <1>4 DEF Model!IInv

\* Anything that is shown is taken back, and another attempt begins now or later.
LEMMA LmStartsAnew ==
  ASSUME Model!LlmAssumption, Model!IInv, shown' = <<>>, answer' = answer, lAt' \in {"stream", "wait"},
         client' \in {"main", "backup"}, attempt' \in Nat, requests' \in Nat,
         lAt' = "stream" => got' = <<>>, lAt' = "wait" => got' = got,
         Model!AttemptsAreCounted', Model!RequestsAreBounded'
  PROVE  Model!IInv'
<1>1. <<>> \in Seq(LmPart) /\ DOMAIN <<>> = {}
  OBVIOUS
<1>2. Model!TypeOK'
  BY <1>1 DEF Model!IInv, Model!TypeOK, LmPart
<1>3. Model!ShownIsGot' /\ Model!ShownIsAnswer'
  BY <1>1 DEF Model!ShownIsGot, Model!ShownIsAnswer
<1> QED BY <1>2, <1>3 DEF Model!IInv

LEMMA LmBreaks == ASSUME Model!LlmAssumption, Model!IInv, NEW retryable, Model!Breaks(retryable)
  PROVE  Model!IInv'
<1>0. /\ Model!Most \in Nat /\ MaxAttempts \in Nat /\ attempt \in Nat /\ requests \in Nat
      /\ lAt = "stream"
      /\ client \in {"main", "backup"} /\ attempt < Model!Most
      /\ requests <= IF HasBackup THEN Model!Most + Model!Most ELSE Model!Most
      /\ client = "main" => requests = attempt + 1
      /\ client = "backup" => HasBackup /\ requests <= Model!Most + attempt + 1
  BY DEF Model!IInv, Model!TypeOK, Model!AttemptsAreCounted, Model!RequestsAreBounded,
     Model!Breaks, Model!LlmAssumption, Model!Most
<1>1. CASE dead
  BY <1>1, LmReturns DEF Model!Breaks
<1>2. CASE ~dead /\ started /\ Visible /\ ~Restartable
  BY <1>0, <1>2, LmReturns DEF Model!Breaks
<1>3. CASE ~dead /\ ~(started /\ Visible /\ ~Restartable) /\ retryable /\ attempt + 1 < MaxAttempts
  <2>1. lAt' = "wait" /\ Model!Restart /\ UNCHANGED <<client, attempt, got, started, answer, dead, requests>>
    BY <1>3 DEF Model!Breaks
  <2>2. shown' = <<>>
    BY <1>0, <1>3, <2>1, LmTakenBack
  <2>3. attempt + 1 < Model!Most
    BY <1>0, <1>3 DEF Model!Most
  <2>4. Model!AttemptsAreCounted' /\ Model!RequestsAreBounded'
    BY <1>0, <2>1, <2>3 DEF Model!AttemptsAreCounted, Model!RequestsAreBounded, Model!Most
  <2> QED BY <1>0, <2>1, <2>2, <2>4, LmStartsAnew
<1>4. CASE /\ ~dead /\ ~(started /\ Visible /\ ~Restartable)
           /\ ~(retryable /\ attempt + 1 < MaxAttempts) /\ HasBackup /\ client = "main"
  <2>1. /\ Model!Restart /\ client' = "backup" /\ attempt' = 0 /\ lAt' = "stream" /\ got' = <<>>
        /\ requests' = requests + 1 /\ answer' = answer
    BY <1>4 DEF Model!Breaks, Model!Backup
  <2>2. shown' = <<>>
    BY <1>0, <1>4, <2>1, LmTakenBack
  <2>3. Model!AttemptsAreCounted' /\ Model!RequestsAreBounded'
    BY <1>0, <1>4, <2>1 DEF Model!AttemptsAreCounted, Model!RequestsAreBounded, Model!Most
  <2> QED BY <1>0, <2>1, <2>2, <2>3, LmStartsAnew
<1>5. CASE /\ ~dead /\ ~(started /\ Visible /\ ~Restartable)
           /\ ~(retryable /\ attempt + 1 < MaxAttempts) /\ ~(HasBackup /\ client = "main")
  BY <1>5, LmReturns DEF Model!Breaks
<1> QED BY <1>1, <1>2, <1>3, <1>4, <1>5

LEMMA LmRetries == ASSUME Model!LlmAssumption, Model!IInv, Model!Retries PROVE Model!IInv'
<1>0. /\ Model!Most \in Nat /\ attempt \in Nat /\ requests \in Nat /\ lAt = "wait"
      /\ attempt + 1 < Model!Most
      /\ client \in {"main", "backup"} /\ shown = <<>>
      /\ client = "main" => requests = attempt + 1
      /\ client = "backup" => HasBackup /\ requests <= Model!Most + attempt + 1
  BY DEF Model!IInv, Model!TypeOK, Model!AttemptsAreCounted, Model!RequestsAreBounded,
     Model!ShownIsGot, Model!Retries, Model!LlmAssumption, Model!Most
<1>1. /\ attempt' = attempt + 1 /\ requests' = requests + 1 /\ lAt' = "stream" /\ got' = <<>>
      /\ UNCHANGED <<client, shown, answer>>
  BY DEF Model!Retries
<1>2. Model!AttemptsAreCounted' /\ Model!RequestsAreBounded'
  BY <1>0, <1>1 DEF Model!AttemptsAreCounted, Model!RequestsAreBounded, Model!Most
<1> QED BY <1>0, <1>1, <1>2, LmStartsAnew

LEMMA LmSame ==
  ASSUME Model!IInv, UNCHANGED <<client, attempt, lAt, got, shown, answer, requests>>, started => started'
  PROVE  Model!IInv'
BY DEF Model!IInv, Model!TypeOK, Model!ShownIsGot, Model!AttemptsAreCounted,
   Model!ShownIsAnswer, Model!RequestsAreBounded, Model!Most

LEMMA LmStep == ASSUME Model!LlmAssumption, Model!IInv, Model!Next PROVE Model!IInv'
<1>1. CASE Model!Piece
  BY <1>1, LmPiece
<1>2. CASE Model!Event
  BY <1>2, LmSame DEF Model!Event
<1>3. CASE Model!Completes
  BY <1>3, LmReturns DEF Model!Completes
<1>4. CASE Model!Retries
  BY <1>4, LmRetries
<1>5. CASE Model!GivesUp
  BY <1>5, LmReturns DEF Model!GivesUp
<1>6. CASE Model!Cancel
  BY <1>6, LmSame DEF Model!Cancel
<1>7. ASSUME NEW retryable \in BOOLEAN, Model!Breaks(retryable) PROVE Model!IInv'
  BY <1>7, LmBreaks
<1> QED BY <1>1, <1>2, <1>3, <1>4, <1>5, <1>6, <1>7 DEF Model!Next

LEMMA LmStutter == ASSUME Model!IInv, UNCHANGED Model!vars PROVE Model!IInv'
BY LmSame DEF Model!vars

-------------------------------------------------------------------------------
(* QidMigration.                                                           *)

QdSides == {"old", "new"}
QdRow   == UNION {Ids!Row(t) : t \in Tables}
QdOdd(t) == \E g \in QdSides : origin[t][g].ids = "odd"

\* At rest: under its last key and converted, but for rules that were odd at first.
QdRest(t, f, row) ==
  /\ f = "new" \/ ~Ids!Keyed(t)
  /\ row.ids = "new" \/ (row.ids = "odd" /\ QdOdd(t))

\* Moved on: rows of a table that came about from those there were at first.
QdFrom(t, q) ==
  /\ q["old"].tag # "bornNew" /\ (q["old"] # Ids!NoRow => origin[t]["old"].tag = "bornOld")
  /\ q["new"].tag = "bornOld" => origin[t]["old"].tag = "bornOld"
  /\ Ids!Keyed(t) \/ q["new"] = Ids!NoRow
  /\ \A f \in QdSides : q[f].ids = "odd" => QdOdd(t)

LEMMA QdOrder ==
  /\ Len(Ids!Order) = 5 /\ DOMAIN Ids!Order = 1..5
  /\ \A i, j \in 1..5 : \A t \in Ids!Order[i] : t \in Ids!Order[j] => i = j
  /\ \A t \in Ids!Order[2] : t # "kv"
BY DEF Ids!Order

LEMMA QdNoRow == Ids!NoRow.tag = "none" /\ Ids!NoRow.ids = "new"
BY DEF Ids!NoRow

LEMMA QdRow1 == ASSUME NEW t, NEW r \in Ids!Row(t)
                PROVE  /\ r.tag \in {"none", "bornOld", "bornNew"} /\ r.ids \in {"old", "odd", "new"}
                       /\ r = Ids!NoRow <=> r.tag = "none"
                       /\ r = Ids!NoRow => r.ids = "new"
                       /\ t \notin InValue => r.ids = "new"
                       /\ Ids!NoRow \in Ids!Row(t)
<1> DEFINE S == {"bornOld", "bornNew"}
           I == CASE t = "kv" /\ t \in InValue -> {"old", "odd", "new"}
                  [] t # "kv" /\ t \in InValue -> {"old", "new"}
                  [] OTHER -> {"new"}
<1>0. Ids!Row(t) = {Ids!NoRow} \cup [tag : S, ids : I]
  BY DEF Ids!Row
<1>1. I \subseteq {"old", "odd", "new"} /\ (t \notin InValue => I = {"new"})
  OBVIOUS
<1>2. CASE r = Ids!NoRow
  BY <1>0, <1>2, QdNoRow
<1>3. CASE r \in [tag : S, ids : I]
  <2>1. r.tag \in S /\ r.ids \in I
    BY <1>3
  <2> QED BY <1>0, <1>1, <2>1, QdNoRow
<1> QED BY <1>0, <1>2, <1>3

LEMMA QdConverted == ASSUME NEW t, NEW r \in Ids!Row(t), NEW c \in Ids!Converted(r)
                     PROVE  /\ c \in Ids!Row(t) /\ c.tag = r.tag /\ c.ids \in {"odd", "new"}
                            /\ c.ids = "odd" => r.ids = "odd"
                            /\ c = Ids!NoRow <=> r = Ids!NoRow
<1> DEFINE S == {"bornOld", "bornNew"}
           I == CASE t = "kv" /\ t \in InValue -> {"old", "odd", "new"}
                  [] t # "kv" /\ t \in InValue -> {"old", "new"}
                  [] OTHER -> {"new"}
<1>0. Ids!Row(t) = {Ids!NoRow} \cup [tag : S, ids : I]
  BY DEF Ids!Row
<1>1. PICK i \in IF r.ids = "odd" THEN {"odd", "new"} ELSE {"new"} : c = [r EXCEPT !.ids = i]
  BY DEF Ids!Converted
<1>2. CASE r = Ids!NoRow
  <2>1. i = "new"
    BY <1>1, <1>2, QdNoRow
  <2>2. c = Ids!NoRow
    BY <1>1, <1>2, <2>1 DEF Ids!NoRow
  <2> QED BY <1>0, <1>2, <2>2, QdNoRow
<1>3. CASE r \in [tag : S, ids : I]
  <2>1. PICK g \in S, j \in I : r = [tag |-> g, ids |-> j]
    BY <1>3
  <2>2. r.tag = g /\ r.ids = j
    BY <2>1
  <2>3. c = [tag |-> g, ids |-> i]
    BY <1>1, <2>1
  <2>4. c.tag = g /\ c.ids = i
    BY <2>3
  <2>5. i \in I
    <3>1. "new" \in I
      OBVIOUS
    <3> QED BY <1>1, <2>2, <3>1
  <2>6. c \in [tag : S, ids : I]
    BY <2>3, <2>5
  <2>7. c # Ids!NoRow /\ r # Ids!NoRow
    BY <2>2, <2>4, QdNoRow
  <2> QED BY <1>0, <1>1, <2>2, <2>4, <2>6, <2>7
<1> QED BY <1>0, <1>2, <1>3

\* The same of a function of rows.
LEMMA QdRows == ASSUME NEW t, NEW q \in [QdSides -> Ids!Row(t)]
                PROVE  /\ q["old"] \in Ids!Row(t) /\ q["new"] \in Ids!Row(t)
                       /\ q["old"].tag \in {"none", "bornOld", "bornNew"}
                       /\ q["new"].tag \in {"none", "bornOld", "bornNew"}
                       /\ q["old"] = Ids!NoRow <=> q["old"].tag = "none"
                       /\ q["new"] = Ids!NoRow <=> q["new"].tag = "none"
<1>1. q["old"] \in Ids!Row(t) /\ q["new"] \in Ids!Row(t)
  BY DEF QdSides
<1> QED BY <1>1, QdRow1

\* What holds of the variables, in these words.
LEMMA QdTyped ==
  ASSUME Ids!QidAssumption, Ids!IInv
  PROVE  /\ stage \in 0..6 /\ qTodo \subseteq Tables \X QdSides /\ qPassed \subseteq Tables
         /\ qHalf \in BOOLEAN /\ qRunning \in BOOLEAN
         /\ starts \in 0..MaxStarts /\ qWrites \in 0..MaxRowWrites
         /\ MaxStarts \in Nat /\ MaxRowWrites \in Nat
         /\ qRows \in [Tables -> [QdSides -> QdRow]]
         /\ qAsRead \in [Tables -> [QdSides -> QdRow]]
         /\ \A t \in Tables : qRows[t] \in [QdSides -> Ids!Row(t)] /\ qAsRead[t] \in [QdSides -> Ids!Row(t)]
<1>0. Ids!TypeOK
  BY DEF Ids!IInv
<1>1. stage \in 0..6 /\ qTodo \subseteq Tables \X QdSides /\ qPassed \subseteq Tables
  BY <1>0, QdOrder DEF Ids!TypeOK, QdSides
<1>2. {qHalf, qRunning} \subseteq BOOLEAN
  BY <1>0 DEF Ids!TypeOK
<1>3. qHalf \in BOOLEAN /\ qRunning \in BOOLEAN
  BY <1>2, Zenon
<1>4. starts \in 0..MaxStarts /\ qWrites \in 0..MaxRowWrites /\ MaxStarts \in Nat /\ MaxRowWrites \in Nat
  BY <1>0 DEF Ids!TypeOK, Ids!QidAssumption
<1>5. /\ qRows \in [Tables -> [QdSides -> QdRow]] /\ qAsRead \in [Tables -> [QdSides -> QdRow]]
      /\ \A t \in Tables : qRows[t] \in [QdSides -> Ids!Row(t)] /\ qAsRead[t] \in [QdSides -> Ids!Row(t)]
  BY <1>0 DEF Ids!TypeOK, QdSides, QdRow
<1> QED BY <1>1, <1>3, <1>4, <1>5
LEMMA QdKnown ==
  ASSUME Ids!QidAssumption, Ids!IInv
  PROVE  /\ \A t \in Tables : QdFrom(t, qRows[t]) /\ QdFrom(t, qAsRead[t])
         /\ \A t \in Tables, f \in QdSides : Ids!AtRest(t, f) <=> QdRest(t, f, qRows[t][f])
         /\ \A t \in Tables, f \in QdSides : <<t, f>> \in qTodo =>
              /\ qAsRead[t][f] = qRows[t][f] \/ (t = "kv" /\ f = "new" /\ QdRest(t, f, qRows[t][f]))
              /\ stage # 2 => qAsRead[t][f] # Ids!NoRow /\ qRows[t][f] # Ids!NoRow
              /\ stage = 2 => f = "old"
         /\ qRunning => stage \in {0, 6}
         /\ \A x \in qTodo : stage \in 1..5 /\ x[1] \in Ids!Order[stage] \ qPassed
         /\ stage \in 1..5 =>
              \A t \in (Ids!Order[stage] \cap Tables) \ qPassed, f \in QdSides :
                qRows[t][f] # Ids!NoRow => QdRest(t, f, qRows[t][f]) \/ <<t, f>> \in qTodo
         /\ \A t \in qPassed : \E i \in 1..5 : t \in Ids!Order[i] /\ i <= stage
         /\ \A i \in 1..5 : stage > i =>
              \A t \in (Ids!Order[i] \cap Tables) \ qPassed, f \in QdSides :
                qRows[t][f] # Ids!NoRow => QdRest(t, f, qRows[t][f])
         /\ qHalf => <<"kv", "old">> \in qTodo
<1>1. \A t \in Tables : QdFrom(t, qRows[t]) /\ QdFrom(t, qAsRead[t])
  BY DEF Ids!IInv, Ids!RowsMoveOn, QdFrom, QdSides, QdOdd
<1>2. \A t \in Tables, f \in QdSides : Ids!AtRest(t, f) <=> QdRest(t, f, qRows[t][f])
  BY DEF Ids!AtRest, QdRest, QdOdd, QdSides
<1>3. \A t \in Tables, f \in QdSides : <<t, f>> \in qTodo =>
        /\ qAsRead[t][f] = qRows[t][f] \/ (t = "kv" /\ f = "new" /\ QdRest(t, f, qRows[t][f]))
        /\ stage # 2 => qAsRead[t][f] # Ids!NoRow /\ qRows[t][f] # Ids!NoRow
        /\ stage = 2 => f = "old"
  BY <1>2 DEF Ids!IInv, Ids!ItemsAreRows, Ids!Holds, QdSides
<1>4. /\ qRunning => stage \in {0, 6}
      /\ \A x \in qTodo : stage \in 1..5 /\ x[1] \in Ids!Order[stage] \ qPassed
      /\ \A t \in qPassed : \E i \in 1..5 : t \in Ids!Order[i] /\ i <= stage
  BY QdOrder DEF Ids!IInv, Ids!TodoIsRead
<1>5. ASSUME stage \in 1..5, NEW t \in (Ids!Order[stage] \cap Tables) \ qPassed, NEW f \in QdSides, qRows[t][f] # Ids!NoRow
      PROVE  QdRest(t, f, qRows[t][f]) \/ <<t, f>> \in qTodo
  <2>1. stage \in DOMAIN Ids!Order =>
          \A u \in (Ids!Order[stage] \cap Tables) \ qPassed, g \in QdSides :
            Ids!Holds(u, g) => Ids!AtRest(u, g) \/ <<u, g>> \in qTodo
    BY DEF Ids!IInv, Ids!TodoIsRead, QdSides
  <2>2. Ids!AtRest(t, f) \/ <<t, f>> \in qTodo
    BY <1>5, <2>1, QdOrder DEF Ids!Holds
  <2> QED BY <1>2, <2>2
<1>6. ASSUME NEW i \in 1..5, stage > i, NEW t \in (Ids!Order[i] \cap Tables) \ qPassed, NEW f \in QdSides, qRows[t][f] # Ids!NoRow
      PROVE  QdRest(t, f, qRows[t][f])
  BY <1>2, <1>6, QdOrder DEF Ids!IInv, Ids!Converges, Ids!Holds, QdSides
<1>7. qHalf => <<"kv", "old">> \in qTodo
  BY DEF Ids!IInv, Ids!CopyIsConverted
<1> QED BY <1>1, <1>2, <1>3, <1>4, <1>5, <1>6, <1>7

\* What a stage reads are keys of its tables, and all that are to be rewritten.
LEMMA QdRead ==
  ASSUME Ids!QidAssumption, Ids!IInv, NEW i \in 1..5, NEW tabs \in SUBSET (Ids!Order[i] \cap Tables)
  PROVE  /\ Ids!Read(i, tabs) \subseteq tabs \X QdSides
         /\ \A t \in tabs, f \in QdSides :
              qRows[t][f] # Ids!NoRow => QdRest(t, f, qRows[t][f]) \/ <<t, f>> \in Ids!Read(i, tabs)
         /\ \A t \in Tables, f \in QdSides : <<t, f>> \in Ids!Read(i, tabs) =>
              (i # 2 => qRows[t][f] # Ids!NoRow) /\ (i = 2 => f = "old")
<1>1. Ids!Read(i, tabs) \subseteq tabs \X QdSides
  BY DEF Ids!Read, QdSides
<1>2. ASSUME NEW t \in tabs, NEW f \in QdSides, qRows[t][f] # Ids!NoRow, ~QdRest(t, f, qRows[t][f])
      PROVE  <<t, f>> \in Ids!Read(i, tabs)
  <2>1. qRows[t][f] \in Ids!Row(t)
    BY QdTyped
  <2>2. CASE i = 2
    <3>1. t \in {"session", "message"}
      BY <2>2 DEF Ids!Order
    <3>2. qRows[t][f].ids = "new"
      BY <2>1, <3>1, QdRow1 DEF Ids!QidAssumption
    <3>3. f = "old"
      BY <1>2, <3>2 DEF QdRest, QdSides
    <3> QED BY <1>2, <2>2, <3>3 DEF Ids!Read, QdSides, Ids!Holds
  <2>3. CASE i # 2
    BY <1>2, <2>3 DEF Ids!Read, QdSides, Ids!Holds
  <2> QED BY <2>2, <2>3
<1>3. ASSUME NEW t \in Tables, NEW f \in QdSides, <<t, f>> \in Ids!Read(i, tabs)
      PROVE  (i # 2 => qRows[t][f] # Ids!NoRow) /\ (i = 2 => f = "old")
  BY <1>3 DEF Ids!Read, Ids!Holds
<1> QED BY <1>1, <1>2, <1>3

LEMMA QdNothing ==
  /\ Ids!Nothing \in [Tables -> [QdSides -> QdRow]] /\ \A t \in Tables : Ids!Nothing[t] \in [QdSides -> Ids!Row(t)]
  /\ \A t \in Tables : QdFrom(t, Ids!Nothing[t])
<1>1. \A t \in Tables : Ids!NoRow \in Ids!Row(t)
  BY DEF Ids!Row
<1>2. \A t \in Tables : Ids!Nothing[t] = [f \in QdSides |-> Ids!NoRow]
  BY DEF Ids!Nothing, QdSides
<1>3. \A t \in Tables : Ids!Nothing[t] \in [QdSides -> Ids!Row(t)]
  BY <1>1, <1>2
<1>4. Ids!Nothing \in [Tables -> [QdSides -> QdRow]]
  BY <1>1 DEF Ids!Nothing, QdSides, QdRow
<1>5. \A t \in Tables : QdFrom(t, Ids!Nothing[t])
  BY <1>2, QdNoRow DEF QdFrom, QdSides
<1> QED BY <1>3, <1>4, <1>5

\* The parts of the invariant in the words used here, of the next state.
LEMMA QdSums ==
  ASSUME \A t \in Tables : QdFrom(t, qRows[t]) /\ QdFrom(t, qAsRead[t])
  PROVE  Ids!RowsMoveOn
BY DEF Ids!RowsMoveOn, QdFrom, QdSides, QdOdd

LEMMA QdInit == ASSUME Ids!QidAssumption, Ids!Init PROVE Ids!IInv
<1>1. /\ qRows \in [Tables -> UNION {Ids!Begins(t) : t \in Tables}]
      /\ \A t \in Tables : qRows[t] \in Ids!Begins(t)
      /\ origin = qRows /\ stage = 0 /\ qTodo = {} /\ qHalf = FALSE /\ starts = 0
      /\ qRunning = FALSE /\ qWrites = 0 /\ qAsRead = Ids!Nothing /\ qPassed = {}
  BY DEF Ids!Init
<1>2. \A t \in Tables : /\ qRows[t] \in [QdSides -> Ids!Row(t)]
                        /\ qRows[t]["old"].tag # "bornNew" /\ qRows[t]["new"].tag # "bornOld"
                        /\ Ids!Keyed(t) \/ qRows[t]["new"] = Ids!NoRow
  BY <1>1 DEF Ids!Begins, QdSides
<1>3. \A t \in Tables : qRows[t] \in [QdSides -> QdRow]
  BY <1>2 DEF QdRow
<1>4. qRows \in [Tables -> [QdSides -> QdRow]]
  BY <1>1, <1>3
<1>5. Ids!TypeOK
  <2>1. 0 \in 0..(Len(Ids!Order) + 1) /\ 0 \in 0..MaxStarts /\ 0 \in 0..MaxRowWrites
    BY QdOrder DEF Ids!QidAssumption
  <2> QED BY <1>1, <1>2, <1>4, <2>1, QdNothing DEF Ids!TypeOK, QdSides, QdRow
<1>6. Ids!RowsMoveOn
  <2>1. ASSUME NEW t \in Tables PROVE QdFrom(t, qRows[t])
    <3>1. qRows[t] \in [QdSides -> Ids!Row(t)]
      BY <1>2
    <3>2. qRows[t]["old"] # Ids!NoRow => qRows[t]["old"].tag = "bornOld"
      BY <1>2, <3>1, QdRows
    <3> QED BY <1>1, <1>2, <3>2 DEF QdFrom, QdOdd
  <2> QED BY <1>1, <2>1, QdNothing, QdSums
<1>7. Ids!TodoIsRead /\ Ids!CopyIsConverted /\ Ids!ItemsAreRows
  BY <1>1, QdOrder DEF Ids!TodoIsRead, Ids!CopyIsConverted, Ids!ItemsAreRows
<1>8. Ids!Converges
  BY <1>1, QdOrder DEF Ids!Converges
<1>9. Ids!NothingVanishes
  <2>1. \A t \in Tables : qRows[t]["new"] # Ids!NoRow => qRows[t]["new"].tag = "bornNew"
    <3> SUFFICES ASSUME NEW t \in Tables, qRows[t]["new"] # Ids!NoRow
                 PROVE  qRows[t]["new"].tag = "bornNew"
      OBVIOUS
    <3>1. /\ qRows[t]["new"].tag \in {"none", "bornOld", "bornNew"}
          /\ qRows[t]["new"] = Ids!NoRow <=> qRows[t]["new"].tag = "none"
      <4>1. qRows[t] \in [QdSides -> Ids!Row(t)]
        BY <1>2
      <4> QED BY <4>1, QdRows
    <3> QED BY <1>2, <3>1
  <2>2. \A t \in Tables : qRows[t]["new"].tag # "bornOld"
    BY <1>2
  <2> QED BY <1>1, <2>1, <2>2 DEF Ids!NothingVanishes, Ids!Holds
<1> QED BY <1>5, <1>6, <1>7, <1>8, <1>9 DEF Ids!IInv

\* A step that leaves the rows alone.
LEMMA QdKeep ==
  ASSUME Ids!QidAssumption, Ids!IInv, qRows' = qRows, origin' = origin, qWrites' = qWrites,
         stage' \in 0..6, qTodo' \subseteq Tables \X QdSides, qPassed' \subseteq Tables,
         qHalf' \in BOOLEAN, qRunning' \in BOOLEAN, starts' \in 0..MaxStarts,
         qAsRead' \in {qAsRead, qRows, Ids!Nothing},
         Ids!ItemsAreRows', Ids!TodoIsRead', Ids!CopyIsConverted', Ids!Converges'
  PROVE  Ids!IInv'
<1>1. /\ qAsRead' \in [Tables -> [QdSides -> QdRow]]
      /\ \A t \in Tables : qAsRead'[t] \in [QdSides -> Ids!Row(t)] /\ QdFrom(t, qAsRead'[t])
  <2>1. CASE qAsRead' = qAsRead
    BY <2>1, QdTyped, QdKnown
  <2>2. CASE qAsRead' = qRows
    BY <2>2, QdTyped, QdKnown
  <2>3. CASE qAsRead' = Ids!Nothing
    BY <2>3, QdNothing
  <2> QED BY <2>1, <2>2, <2>3
<1>2. Ids!TypeOK'
  <2>1. Ids!TypeOK
    BY DEF Ids!IInv
  <2>2. {qHalf', qRunning'} \subseteq BOOLEAN
    BY Zenon
  <2>3. stage' \in 0..(Len(Ids!Order) + 1)
    BY QdOrder
  <2> QED BY <1>1, <2>1, <2>2, <2>3 DEF Ids!TypeOK, QdSides, QdRow
<1>3. \A t \in Tables : QdFrom(t, qAsRead[t])' /\ QdFrom(t, qRows[t])'
  BY <1>1, QdKnown DEF QdFrom, QdOdd
<1>4. Ids!RowsMoveOn'
  BY <1>3 DEF Ids!RowsMoveOn, QdFrom, QdSides, QdOdd
<1>5. Ids!NothingVanishes'
  BY DEF Ids!IInv, Ids!NothingVanishes, Ids!Holds
<1> QED BY <1>2, <1>4, <1>5 DEF Ids!IInv

\* A stage begins.
LEMMA QdEnters ==
  ASSUME Ids!QidAssumption, Ids!IInv, NEW i \in 1..5, Ids!Enter(i), UNCHANGED <<qRows, origin>>, qHalf' = FALSE,
         ~qRunning, qRunning' = qRunning, i # 1 => (stage = i - 1 /\ qTodo = {})
  PROVE  /\ stage' = i /\ qTodo' \subseteq Tables \X QdSides /\ qPassed' \subseteq Tables /\ qAsRead' = qRows
         /\ Ids!ItemsAreRows' /\ Ids!TodoIsRead' /\ Ids!CopyIsConverted' /\ Ids!Converges'
<1>1. PICK tabs \in SUBSET (Ids!Order[i] \cap Tables) :
        /\ i = 1 => tabs = Ids!Order[i] \cap Tables
        /\ qTodo' = Ids!Read(i, tabs)
        /\ qPassed' = (IF i = 1 THEN {} ELSE qPassed) \cup ((Ids!Order[i] \cap Tables) \ tabs)
  BY DEF Ids!Enter
<1>2. stage' = i /\ qAsRead' = qRows
  BY DEF Ids!Enter
<1>3. /\ qTodo' \subseteq tabs \X QdSides
      /\ \A t \in tabs, f \in QdSides : qRows[t][f] # Ids!NoRow => QdRest(t, f, qRows[t][f]) \/ <<t, f>> \in qTodo'
      /\ \A t \in Tables, f \in QdSides : <<t, f>> \in qTodo' =>
           (i # 2 => qRows[t][f] # Ids!NoRow) /\ (i = 2 => f = "old")
  BY <1>1, QdRead
<1>4. qPassed' \subseteq Tables /\ qTodo' \subseteq Tables \X QdSides
  BY <1>1, <1>3, QdTyped
<1>5. \A t \in tabs : t \notin qPassed'
  <2>1. i # 1 => \A t \in qPassed : \E j \in 1..5 : t \in Ids!Order[j] /\ j < i
    BY QdKnown
  <2> QED BY <1>1, <2>1, QdOrder
<1>6. Ids!ItemsAreRows'
  BY <1>2, <1>3, <1>4 DEF Ids!ItemsAreRows, Ids!Holds, QdSides
<1>7. Ids!TodoIsRead'
  <2>1. \A x \in qTodo' : x[1] \in Ids!Order[i] \ qPassed'
    BY <1>1, <1>3, <1>5
  <2>2. \A t \in (Ids!Order[i] \cap Tables) \ qPassed', f \in QdSides :
          qRows[t][f] # Ids!NoRow => QdRest(t, f, qRows[t][f]) \/ <<t, f>> \in qTodo'
    BY <1>1, <1>3
  <2>3. \A t \in qPassed' : \E j \in 1..5 : t \in Ids!Order[j] /\ j <= i
    <3>1. i # 1 => \A t \in qPassed : \E j \in 1..5 : t \in Ids!Order[j] /\ j <= i
      BY QdKnown
    <3> QED BY <1>1, <3>1
  <2>4. \A t \in Tables, f \in QdSides : Ids!AtRest(t, f)' <=> QdRest(t, f, qRows[t][f])
    BY DEF Ids!AtRest, QdRest, QdOdd, QdSides
  <2> QED BY <1>2, <2>1, <2>2, <2>3, <2>4, QdOrder DEF Ids!TodoIsRead, Ids!Holds, QdSides
<1>8. Ids!CopyIsConverted'
  BY DEF Ids!CopyIsConverted
<1>9. Ids!Converges'
  <2> SUFFICES ASSUME NEW j \in 1..5, i > j, NEW t \in (Ids!Order[j] \cap Tables) \ qPassed',
                      NEW f \in QdSides, qRows[t][f] # Ids!NoRow
               PROVE  QdRest(t, f, qRows[t][f])
    <3>1. \A t \in Tables, f \in QdSides : Ids!AtRest(t, f)' <=> QdRest(t, f, qRows[t][f])
      BY DEF Ids!AtRest, QdRest, QdOdd, QdSides
    <3> QED BY <1>2, <3>1, QdOrder DEF Ids!Converges, Ids!Holds, QdSides
  <2>1. stage = i - 1 /\ qTodo = {} /\ t \notin qPassed
    BY <1>1
  <2>2. CASE j < stage
    BY <2>1, <2>2, QdKnown
  <2>3. CASE j = stage
    <3>1. QdRest(t, f, qRows[t][f]) \/ <<t, f>> \in qTodo
      BY <2>1, <2>3, QdKnown
    <3> QED BY <2>1, <3>1
  <2> QED BY <2>1, <2>2, <2>3
<1> QED BY <1>2, <1>4, <1>6, <1>7, <1>8, <1>9

LEMMA QdStart == ASSUME Ids!QidAssumption, Ids!IInv, Ids!Start PROVE Ids!IInv'
<1>1. /\ ~qRunning /\ qRunning' = qRunning /\ stage = 0 /\ starts < MaxStarts
      /\ starts' = starts + 1 /\ Ids!Enter(1)
      /\ qHalf' = FALSE /\ UNCHANGED <<qRows, origin, qWrites>>
  BY DEF Ids!Start
<1>2. /\ stage' = 1 /\ qTodo' \subseteq Tables \X QdSides /\ qPassed' \subseteq Tables
      /\ qAsRead' = qRows
      /\ Ids!ItemsAreRows' /\ Ids!TodoIsRead' /\ Ids!CopyIsConverted' /\ Ids!Converges'
  <2>1. 1 \in 1..5 /\ (1 # 1 => (stage = 1 - 1 /\ qTodo = {}))
    OBVIOUS
  <2> QED BY <1>1, <2>1, QdEnters
<1>3. starts' \in 0..MaxStarts
  BY <1>1, QdTyped
<1>4. qHalf' \in BOOLEAN /\ qRunning' \in BOOLEAN
  <2>1. qHalf' = FALSE /\ qRunning' = qRunning /\ qRunning \in BOOLEAN
    BY <1>1, QdTyped
  <2> QED BY <2>1, Zenon
<1> QED BY <1>1, <1>2, <1>3, <1>4, QdKeep

LEMMA QdNextTable == ASSUME Ids!QidAssumption, Ids!IInv, Ids!NextTable PROVE Ids!IInv'
<1>1. /\ stage \in 1..5 /\ qTodo = {} /\ ~qHalf
      /\ UNCHANGED <<qRows, origin, qHalf, starts, qWrites>>
      /\ \/ stage < 5 /\ Ids!Enter(stage + 1) /\ UNCHANGED qRunning
         \/ stage = 5 /\ stage' = 6 /\ qRunning' = TRUE /\ qAsRead' = Ids!Nothing /\ UNCHANGED <<qTodo, qPassed>>
  BY QdOrder DEF Ids!NextTable
<1>2. CASE stage = 5
  <2>0. stage' = 6 /\ qRunning' = TRUE /\ qAsRead' = Ids!Nothing /\ UNCHANGED <<qTodo, qPassed>>
    BY <1>1, <1>2
  <2>1. Ids!CopyIsConverted' /\ Ids!ItemsAreRows'
    BY <1>1, <2>0 DEF Ids!CopyIsConverted, Ids!ItemsAreRows
  <2>2. Ids!TodoIsRead'
    <3>1. \A t \in qPassed : \E j \in 1..5 : t \in Ids!Order[j] /\ j <= 6
      BY QdKnown
    <3> QED BY <1>1, <2>0, <3>1, QdOrder DEF Ids!TodoIsRead
  <2>3. Ids!Converges'
    <3> SUFFICES ASSUME NEW j \in 1..5, NEW t \in (Ids!Order[j] \cap Tables) \ qPassed,
                        NEW f \in QdSides, qRows[t][f] # Ids!NoRow
                 PROVE  QdRest(t, f, qRows[t][f])
      <4>1. \A t \in Tables, f \in QdSides : Ids!AtRest(t, f)' <=> QdRest(t, f, qRows[t][f])
        BY <1>1 DEF Ids!AtRest, QdRest, QdOdd, QdSides
      <4> QED BY <1>1, <2>0, <4>1, QdOrder DEF Ids!Converges, Ids!Holds, QdSides
    <3>1. CASE j < stage
      BY <3>1, QdKnown
    <3>2. CASE j = stage
      <4>1. QdRest(t, f, qRows[t][f]) \/ <<t, f>> \in qTodo
        BY <3>2, QdKnown
      <4> QED BY <1>1, <4>1
    <3> QED BY <1>2, <3>1, <3>2
  <2>4. qRunning' \in BOOLEAN /\ qHalf' \in BOOLEAN
    <3>1. qRunning' = TRUE /\ qHalf' = qHalf /\ qHalf \in BOOLEAN
      BY <1>1, <2>0, QdTyped
    <3> QED BY <3>1, Zenon
  <2> QED BY <1>1, <2>0, <2>1, <2>2, <2>3, <2>4, QdKeep, QdTyped
<1>3. CASE stage < 5
  <2>0. Ids!Enter(stage + 1) /\ qRunning' = qRunning /\ ~qRunning /\ qHalf' = FALSE /\ stage + 1 \in 1..5
    BY <1>1, <1>3, QdKnown, QdTyped
  <2>1. /\ stage' = stage + 1 /\ qTodo' \subseteq Tables \X QdSides /\ qPassed' \subseteq Tables
        /\ qAsRead' = qRows
        /\ Ids!ItemsAreRows' /\ Ids!TodoIsRead' /\ Ids!CopyIsConverted' /\ Ids!Converges'
    <3>1. stage + 1 # 1 => (stage = (stage + 1) - 1 /\ qTodo = {})
      BY <1>1
    <3> QED BY <1>1, <2>0, <3>1, QdEnters
  <2>2. qHalf' \in BOOLEAN /\ qRunning' \in BOOLEAN
    <3>1. qHalf' = FALSE /\ qRunning' = qRunning /\ qRunning \in BOOLEAN
      BY <2>0, QdTyped
    <3> QED BY <3>1, Zenon
  <2> QED BY <1>1, <1>3, <2>0, <2>1, <2>2, QdKeep, QdTyped
<1> QED BY <1>1, <1>2, <1>3

LEMMA QdEnds == ASSUME Ids!QidAssumption, Ids!IInv, Ids!Fails \/ Ids!Stop PROVE Ids!IInv'
<1>1. /\ stage' = 0 /\ qTodo' = {} /\ qHalf' = FALSE /\ qAsRead' = Ids!Nothing /\ qPassed' = {}
      /\ qRunning' \in BOOLEAN /\ UNCHANGED <<qRows, origin, starts, qWrites>>
  BY DEF Ids!Fails, Ids!Stop, Ids!Ends
<1>2. Ids!TodoIsRead' /\ Ids!CopyIsConverted' /\ Ids!Converges' /\ Ids!ItemsAreRows'
  BY <1>1, QdOrder DEF Ids!TodoIsRead, Ids!CopyIsConverted, Ids!Converges, Ids!ItemsAreRows
<1>7. qHalf' \in BOOLEAN
  <2>1. qHalf' = FALSE
    BY <1>1
  <2> QED BY <2>1, Zenon
<1> QED BY <1>1, <1>2, <1>7, QdKeep, QdTyped

LEMMA QdSkip ==
  ASSUME Ids!QidAssumption, Ids!IInv, NEW t \in Tables, NEW f \in QdSides, Ids!Skip(t, f)
  PROVE  Ids!IInv'
<1>1. /\ ~qHalf /\ <<t, f>> \in qTodo /\ Ids!Skipped(t, f) /\ qTodo' = qTodo \ {<<t, f>>}
      /\ UNCHANGED <<qRows, origin, stage, qAsRead, qPassed, qHalf, starts, qRunning, qWrites>>
  BY DEF Ids!Skip, Ids!Turn, Ids!Done
<1>2. qRows[t][f] # Ids!NoRow => QdRest(t, f, qRows[t][f])
  <2>1. (f = "new" \/ ~Ids!Keyed(t)) /\ qAsRead[t][f].ids = "new"
    BY <1>1 DEF Ids!Skipped, Ids!Settled
  <2> QED BY <1>1, <2>1, QdKnown DEF QdRest
<1>3. Ids!TodoIsRead'
  <2>1. \A u \in Tables, g \in QdSides : Ids!AtRest(u, g)' <=> QdRest(u, g, qRows[u][g])
    BY <1>1 DEF Ids!AtRest, QdRest, QdOdd, QdSides
  <2>2. stage \in 1..5 => \A u \in (Ids!Order[stage] \cap Tables) \ qPassed, g \in QdSides :
          qRows[u][g] # Ids!NoRow => QdRest(u, g, qRows[u][g]) \/ <<u, g>> \in qTodo'
    <3> SUFFICES ASSUME stage \in 1..5, NEW u \in (Ids!Order[stage] \cap Tables) \ qPassed, NEW g \in QdSides,
                        qRows[u][g] # Ids!NoRow, ~QdRest(u, g, qRows[u][g])
                 PROVE  <<u, g>> \in qTodo'
      OBVIOUS
    <3>1. <<u, g>> \in qTodo
      BY QdKnown
    <3> QED BY <1>1, <1>2, <3>1
  <2> QED BY <1>1, <2>1, <2>2, QdOrder DEF Ids!IInv, Ids!TodoIsRead, Ids!Holds, QdSides
<1>4. Ids!CopyIsConverted' /\ Ids!Converges'
  BY <1>1 DEF Ids!IInv, Ids!CopyIsConverted, Ids!Converges, Ids!Holds, Ids!AtRest
<1>5. Ids!ItemsAreRows'
  <2>1. \A u \in Tables, g \in QdSides : Ids!AtRest(u, g)' <=> QdRest(u, g, qRows[u][g])
    BY <1>1 DEF Ids!AtRest, QdRest, QdOdd, QdSides
  <2>2. ASSUME NEW u \in Tables, NEW g \in QdSides, <<u, g>> \in qTodo'
        PROVE  /\ qAsRead[u][g] = qRows[u][g] \/ (u = "kv" /\ g = "new" /\ QdRest(u, g, qRows[u][g]))
               /\ stage # 2 => qAsRead[u][g] # Ids!NoRow /\ qRows[u][g] # Ids!NoRow
               /\ stage = 2 => g = "old"
    <3>1. <<u, g>> \in qTodo
      BY <1>1, <2>2
    <3> QED BY <3>1, QdKnown
  <2> QED BY <1>1, <2>1, <2>2 DEF Ids!ItemsAreRows, Ids!Holds, QdSides
<1> QED BY <1>1, <1>3, <1>4, <1>5, QdKeep, QdTyped

\* The rows of one table change.
QdMoves(t, r) ==
  /\ r \in [QdSides -> Ids!Row(t)] /\ qRows' = [qRows EXCEPT ![t] = r] /\ QdFrom(t, r)
  /\ (\E f \in QdSides : qRows[t][f] # Ids!NoRow) => \E f \in QdSides : r[f] # Ids!NoRow
  /\ (t # "kv" /\ qRows[t]["new"].tag = "bornNew") => r["new"].tag = "bornNew"

LEMMA QdMoved ==
  ASSUME Ids!QidAssumption, Ids!IInv, NEW t \in Tables, NEW r, QdMoves(t, r), UNCHANGED <<origin, qAsRead>>
  PROVE  /\ qRows' \in [Tables -> [QdSides -> QdRow]] /\ qRows'[t] = r
         /\ \A u \in Tables : u # t => qRows'[u] = qRows[u]
         /\ \A u \in Tables : qRows'[u] \in [QdSides -> Ids!Row(u)]
         /\ Ids!RowsMoveOn' /\ Ids!NothingVanishes'
<1>1. qRows \in [Tables -> [QdSides -> QdRow]] /\ \A u \in Tables : qRows[u] \in [QdSides -> Ids!Row(u)]
  BY QdTyped
<1>2. qRows' = [qRows EXCEPT ![t] = r] /\ r \in [QdSides -> Ids!Row(t)] /\ QdFrom(t, r)
  BY DEF QdMoves
<1>3. r \in [QdSides -> QdRow]
  BY <1>2 DEF QdRow
<1>4. qRows' \in [Tables -> [QdSides -> QdRow]] /\ qRows'[t] = r
  BY <1>1, <1>2, <1>3
<1>5. \A u \in Tables : u # t => qRows'[u] = qRows[u]
  BY <1>1, <1>2
<1>6. \A u \in Tables : qRows'[u] \in [QdSides -> Ids!Row(u)]
  BY <1>1, <1>2, <1>4, <1>5
<1>7. Ids!RowsMoveOn'
  <2>1. \A u \in Tables : QdFrom(u, qRows'[u]) /\ QdFrom(u, qAsRead[u])
    BY <1>2, <1>4, <1>5, QdKnown
  <2>2. \A u \in Tables : QdFrom(u, qRows[u])' /\ QdFrom(u, qAsRead[u])'
    BY <2>1 DEF QdFrom, QdOdd
  <2> QED BY <2>2 DEF Ids!RowsMoveOn, QdFrom, QdSides, QdOdd
<1>8. Ids!NothingVanishes'
  <2> SUFFICES ASSUME NEW u \in Tables
               PROVE  /\ (\E f \in QdSides : origin[u][f] # Ids!NoRow) => \E f \in QdSides : qRows'[u][f] # Ids!NoRow
                      /\ (u # "kv" /\ origin[u]["new"] # Ids!NoRow) => qRows'[u]["new"].tag = "bornNew"
                      /\ (qRows'[u]["new"] # Ids!NoRow /\ qRows'[u]["new"].tag = "bornOld")
                           => origin[u]["old"].tag = "bornOld"
    BY DEF Ids!NothingVanishes, Ids!Holds, QdSides
  <2>1. /\ (\E f \in QdSides : origin[u][f] # Ids!NoRow) => \E f \in QdSides : qRows[u][f] # Ids!NoRow
        /\ (u # "kv" /\ origin[u]["new"] # Ids!NoRow) => qRows[u]["new"].tag = "bornNew"
        /\ (qRows[u]["new"] # Ids!NoRow /\ qRows[u]["new"].tag = "bornOld")
             => origin[u]["old"].tag = "bornOld"
    BY DEF Ids!IInv, Ids!NothingVanishes, Ids!Holds, QdSides
  <2>2. CASE u = t
    BY <1>2, <1>4, <2>1, <2>2 DEF QdMoves, QdFrom
  <2>3. CASE u # t
    BY <1>5, <2>1, <2>3
  <2> QED BY <2>2, <2>3
<1> QED BY <1>4, <1>5, <1>6, <1>7, <1>8

\* A row under migration changes; those of the tables done before do not.
LEMMA QdTurn ==
  ASSUME Ids!QidAssumption, Ids!IInv, NEW t \in Tables, NEW f \in QdSides, <<t, f>> \in qTodo, NEW r,
         QdMoves(t, r), UNCHANGED <<origin, stage, qAsRead, qPassed, starts, qRunning, qWrites>>,
         qTodo' \subseteq qTodo, qHalf' \in BOOLEAN,
         \A x \in qTodo : x \in qTodo' \/ x = <<t, f>>,
         \A g \in QdSides : r[g] # Ids!NoRow =>
           \/ QdRest(t, g, r[g])
           \/ r[g] = qRows[t][g] /\ (g # f \/ <<t, f>> \in qTodo'),
         \A g \in QdSides : <<t, g>> \in qTodo' =>
           \/ r[g] = qRows[t][g]
           \/ t = "kv" /\ g = "new" /\ QdRest(t, g, r[g]) /\ r[g] # Ids!NoRow,
         qHalf' => (<<"kv", "old">> \in qTodo' /\ t = "kv" /\ r["new"] # Ids!NoRow /\ QdRest(t, "new", r["new"]))
  PROVE  Ids!IInv'
<1>1. /\ qRows' \in [Tables -> [QdSides -> QdRow]] /\ qRows'[t] = r
      /\ \A u \in Tables : u # t => qRows'[u] = qRows[u]
      /\ \A u \in Tables : qRows'[u] \in [QdSides -> Ids!Row(u)]
      /\ Ids!RowsMoveOn' /\ Ids!NothingVanishes'
  BY QdMoved
<1>2. Ids!TypeOK'
  BY <1>1 DEF Ids!IInv, Ids!TypeOK, QdSides, QdRow
<1>3. stage \in 1..5 /\ t \in Ids!Order[stage] \ qPassed
  <2>1. stage \in 1..5 /\ <<t, f>>[1] \in Ids!Order[stage] \ qPassed
    BY QdKnown
  <2> QED BY <2>1
<1>a. \A u \in Tables, g \in QdSides : Ids!AtRest(u, g)' <=> QdRest(u, g, qRows'[u][g])
  BY DEF Ids!AtRest, QdRest, QdOdd, QdSides
<1>4. Ids!TodoIsRead'
  <2>1. /\ \A x \in qTodo' : stage \in 1..5 /\ x[1] \in Ids!Order[stage] \ qPassed
        /\ qRunning => stage \in {0, 6}
        /\ \A u \in qPassed : \E i \in 1..5 : u \in Ids!Order[i] /\ i <= stage
    BY QdKnown
  <2>2. ASSUME NEW u \in (Ids!Order[stage] \cap Tables) \ qPassed, NEW g \in QdSides, qRows'[u][g] # Ids!NoRow,
               ~QdRest(u, g, qRows'[u][g])
        PROVE  <<u, g>> \in qTodo'
    <3>1. qRows[u][g] # Ids!NoRow => QdRest(u, g, qRows[u][g]) \/ <<u, g>> \in qTodo
      BY <1>3, QdKnown
    <3>2. CASE u = t
      BY <1>1, <2>2, <3>1, <3>2
    <3>3. CASE u # t
      BY <1>1, <2>2, <3>1, <3>3
    <3> QED BY <3>2, <3>3
  <2> QED BY <1>a, <2>1, <2>2, QdOrder DEF Ids!TodoIsRead, Ids!Holds, QdSides
<1>5. Ids!Converges'
  <2> SUFFICES ASSUME NEW i \in 1..5, stage > i, NEW u \in (Ids!Order[i] \cap Tables) \ qPassed,
                      NEW g \in QdSides, qRows'[u][g] # Ids!NoRow
               PROVE  QdRest(u, g, qRows'[u][g])
    BY <1>a, QdOrder DEF Ids!Converges, Ids!Holds, QdSides
  <2>1. u # t
    BY <1>3, QdOrder
  <2>2. qRows[u][g] # Ids!NoRow /\ qRows'[u] = qRows[u]
    BY <1>1, <2>1
  <2> QED BY <2>2, QdKnown
<1>6. Ids!ItemsAreRows'
  <2> SUFFICES ASSUME NEW u \in Tables, NEW g \in QdSides, <<u, g>> \in qTodo'
               PROVE  /\ qAsRead[u][g] = qRows'[u][g] \/ (u = "kv" /\ g = "new" /\ QdRest(u, g, qRows'[u][g]))
                      /\ stage # 2 => qAsRead[u][g] # Ids!NoRow /\ qRows'[u][g] # Ids!NoRow
                      /\ stage = 2 => g = "old"
    BY <1>a DEF Ids!ItemsAreRows, Ids!Holds, QdSides
  <2>1. /\ qAsRead[u][g] = qRows[u][g] \/ (u = "kv" /\ g = "new" /\ QdRest(u, g, qRows[u][g]))
        /\ stage # 2 => qAsRead[u][g] # Ids!NoRow /\ qRows[u][g] # Ids!NoRow
        /\ stage = 2 => g = "old"
    BY QdKnown
  <2>2. CASE u = t
    BY <1>1, <2>1, <2>2
  <2>3. CASE u # t
    BY <1>1, <2>1, <2>3
  <2> QED BY <2>2, <2>3
<1>7. Ids!CopyIsConverted'
  BY <1>1, <1>a DEF Ids!CopyIsConverted, Ids!Holds, QdSides
<1> QED BY <1>1, <1>2, <1>4, <1>5, <1>6, <1>7 DEF Ids!IInv

LEMMA QdRewrite ==
  ASSUME Ids!QidAssumption, Ids!IInv, NEW t \in Tables, NEW f \in QdSides, Ids!Rewrite(t, f)
  PROVE  Ids!IInv'
<1> DEFINE to == IF f = "old" THEN Ids!ConvertedKey(t) ELSE f
<1>0. PICK c \in Ids!Converted(qAsRead[t][f]) :
        qRows' = [qRows EXCEPT ![t] = [g \in QdSides |-> IF g = to THEN c
                                                         ELSE IF g = f THEN Ids!NoRow ELSE qRows[t][g]]]
  BY DEF Ids!Rewrite, QdSides
<1> DEFINE r == [g \in QdSides |-> IF g = to THEN c ELSE IF g = f THEN Ids!NoRow ELSE qRows[t][g]]
<1>1. /\ ~qHalf /\ <<t, f>> \in qTodo /\ ~Ids!Skipped(t, f)
      /\ (f = "old" /\ Ids!Keyed(t)) => qRows[t]["new"] = Ids!NoRow
      /\ qRows' = [qRows EXCEPT ![t] = r] /\ qTodo' = qTodo \ {<<t, f>>}
      /\ UNCHANGED <<origin, stage, qAsRead, qPassed, qHalf, starts, qRunning, qWrites>>
  BY <1>0 DEF Ids!Rewrite, Ids!Turn, Ids!Done, QdSides, Ids!Holds
<1>2. /\ qRows[t] \in [QdSides -> Ids!Row(t)] /\ qAsRead[t][f] \in Ids!Row(t)
      /\ QdFrom(t, qRows[t]) /\ QdFrom(t, qAsRead[t])
  BY QdTyped, QdKnown
<1>3. /\ c \in Ids!Row(t) /\ c.tag = qAsRead[t][f].tag /\ c.ids \in {"odd", "new"}
      /\ c.ids = "odd" => QdOdd(t)
      /\ c = Ids!NoRow <=> qAsRead[t][f] = Ids!NoRow
      /\ Ids!NoRow \in Ids!Row(t) /\ (c = Ids!NoRow <=> c.tag = "none") /\ c.tag \in {"none", "bornOld", "bornNew"}
  <2>1. /\ c \in Ids!Row(t) /\ c.tag = qAsRead[t][f].tag /\ c.ids \in {"odd", "new"}
        /\ c.ids = "odd" => qAsRead[t][f].ids = "odd"
        /\ c = Ids!NoRow <=> qAsRead[t][f] = Ids!NoRow
    BY <1>0, <1>2, QdConverted
  <2>2. qAsRead[t][f].ids = "odd" => QdOdd(t)
    BY <1>2 DEF QdFrom
  <2> QED BY <2>1, <2>2, QdRow1
<1>5. /\ r \in [QdSides -> Ids!Row(t)]
      /\ r["old"] = IF to = "old" THEN c ELSE IF f = "old" THEN Ids!NoRow ELSE qRows[t]["old"]
      /\ r["new"] = IF to = "new" THEN c ELSE IF f = "new" THEN Ids!NoRow ELSE qRows[t]["new"]
  <2>1. to \in QdSides
    BY DEF Ids!ConvertedKey, QdSides
  <2> QED BY <1>2, <1>3, <2>1 DEF QdSides
<1>6. \/ Ids!Keyed(t) /\ f = "old" /\ qRows[t]["new"] = Ids!NoRow /\ r["old"] = Ids!NoRow /\ r["new"] = c
      \/ ~Ids!Keyed(t) /\ f = "old" /\ r["old"] = c /\ r["new"] = qRows[t]["new"]
      \/ f = "new" /\ r["new"] = c /\ r["old"] = qRows[t]["old"]
  BY <1>1, <1>5 DEF Ids!ConvertedKey, QdSides
<1> HIDE DEF r, to
<1>i. /\ qAsRead[t][f] = qRows[t][f] \/ (t = "kv" /\ f = "new")
      /\ f = "new" => qAsRead[t][f] # Ids!NoRow
      /\ <<t, "new">> \in qTodo => qRows[t]["new"] # Ids!NoRow
  BY <1>1, QdKnown DEF QdSides
<1>7. QdMoves(t, r)
  <2>1. QdFrom(t, r)
    <3>0. /\ qAsRead[t]["old"].tag # "bornNew" /\ (qAsRead[t]["old"] # Ids!NoRow => origin[t]["old"].tag = "bornOld")
          /\ qAsRead[t]["new"].tag = "bornOld" => origin[t]["old"].tag = "bornOld"
          /\ Ids!Keyed(t) \/ qAsRead[t]["new"] = Ids!NoRow
          /\ qRows[t]["old"].tag # "bornNew" /\ (qRows[t]["old"] # Ids!NoRow => origin[t]["old"].tag = "bornOld")
          /\ qRows[t]["new"].tag = "bornOld" => origin[t]["old"].tag = "bornOld"
          /\ Ids!Keyed(t) \/ qRows[t]["new"] = Ids!NoRow
          /\ \A g \in QdSides : qRows[t][g].ids = "odd" => QdOdd(t)
      BY <1>2 DEF QdFrom
    <3>1. r["old"].tag # "bornNew" /\ (r["old"] # Ids!NoRow => origin[t]["old"].tag = "bornOld")
      BY <1>3, <1>6, <3>0, QdNoRow
    <3>2. r["new"].tag = "bornOld" => origin[t]["old"].tag = "bornOld"
      BY <1>3, <1>6, <3>0, QdNoRow
    <3>3. Ids!Keyed(t) \/ r["new"] = Ids!NoRow
      BY <1>3, <1>6, <3>0
    <3>4. \A g \in QdSides : r[g].ids = "odd" => QdOdd(t)
      BY <1>3, <1>6, <3>0, QdNoRow DEF QdSides
    <3> QED BY <3>1, <3>2, <3>3, <3>4 DEF QdFrom
  <2>2. (\E g \in QdSides : qRows[t][g] # Ids!NoRow) => \E g \in QdSides : r[g] # Ids!NoRow
    BY <1>3, <1>6, <1>i DEF QdSides
  <2>3. (t # "kv" /\ qRows[t]["new"].tag = "bornNew") => r["new"].tag = "bornNew"
    BY <1>3, <1>6, <1>i, QdNoRow
  <2> QED BY <1>1, <1>5, <2>1, <2>2, <2>3 DEF QdMoves
<1>8. ASSUME NEW g \in QdSides, r[g] # Ids!NoRow
      PROVE  \/ QdRest(t, g, r[g])
             \/ r[g] = qRows[t][g] /\ (g # f \/ <<t, f>> \in qTodo')
  BY <1>3, <1>6, <1>8 DEF QdSides, QdRest
<1>9. ASSUME NEW g \in QdSides, <<t, g>> \in qTodo'
      PROVE  r[g] = qRows[t][g]
  <2>1. g # f /\ <<t, g>> \in qTodo
    BY <1>1, <1>9
  <2> QED BY <1>6, <1>i, <2>1 DEF QdSides
<1>10. qHalf' = qHalf /\ qHalf' \in BOOLEAN /\ qTodo' \subseteq qTodo /\ \A x \in qTodo : x \in qTodo' \/ x = <<t, f>>
  BY <1>1, QdTyped
<1>11. ~qHalf'
  BY <1>1
<1> QED BY <1>1, <1>7, <1>8, <1>9, <1>10, <1>11, QdTurn

LEMMA QdCopies ==
  ASSUME Ids!QidAssumption, Ids!IInv, NEW t \in Tables, Ids!CopyOver(t) PROVE Ids!IInv'
<1>0. PICK c \in Ids!Converted(qAsRead[t]["old"]) : qRows' = [qRows EXCEPT ![t]["new"] = c]
  BY DEF Ids!CopyOver
<1> DEFINE r == [qRows[t] EXCEPT !["new"] = c]
<1>1. /\ ~qHalf /\ <<t, "old">> \in qTodo /\ t = "kv" /\ qRows[t]["new"] # Ids!NoRow
      /\ qAsRead[t]["old"].ids # "new" /\ qHalf' = TRUE
      /\ UNCHANGED <<origin, stage, qTodo, qAsRead, qPassed, starts, qRunning, qWrites>>
  BY DEF Ids!CopyOver, Ids!Turn, Ids!Holds
<1>2. /\ qRows[t] \in [QdSides -> Ids!Row(t)] /\ qRows \in [Tables -> [QdSides -> QdRow]]
      /\ qAsRead[t]["old"] \in Ids!Row(t) /\ QdFrom(t, qRows[t]) /\ QdFrom(t, qAsRead[t])
  BY QdTyped, QdKnown DEF QdSides
<1>3. qAsRead[t]["old"] # Ids!NoRow /\ Ids!Keyed(t)
  BY <1>1, QdNoRow DEF Ids!Keyed
<1>4. /\ c \in Ids!Row(t) /\ c # Ids!NoRow /\ c.ids \in {"odd", "new"} /\ (c.ids = "odd" => QdOdd(t))
  <2>1. qAsRead[t]["old"].ids = "odd" => QdOdd(t)
    BY <1>2 DEF QdFrom, QdSides
  <2> QED BY <1>0, <1>2, <1>3, <2>1, QdConverted
<1>5. /\ r \in [QdSides -> Ids!Row(t)] /\ r["old"] = qRows[t]["old"] /\ r["new"] = c
      /\ qRows' = [qRows EXCEPT ![t] = r]
  BY <1>0, <1>2, <1>4 DEF QdSides
<1> HIDE DEF r
<1>6. QdMoves(t, r)
  <2>1. QdFrom(t, r)
    <3>1. origin[t]["old"].tag = "bornOld"
      BY <1>2, <1>3 DEF QdFrom
    <3> QED BY <1>2, <1>3, <1>4, <1>5, <3>1 DEF QdFrom, QdSides
  <2>2. "new" \in QdSides /\ r["new"] # Ids!NoRow
    BY <1>4, <1>5 DEF QdSides
  <2> QED BY <1>1, <1>5, <2>1, <2>2 DEF QdMoves
<1>7. QdRest(t, "new", r["new"]) /\ r["new"] # Ids!NoRow
  BY <1>4, <1>5 DEF QdRest
<1>8. \A g \in QdSides : r[g] # Ids!NoRow =>
        \/ QdRest(t, g, r[g])
        \/ r[g] = qRows[t][g] /\ (g # "old" \/ <<t, "old">> \in qTodo')
  BY <1>1, <1>5, <1>7 DEF QdSides
<1>9. \A g \in QdSides : <<t, g>> \in qTodo' =>
        \/ r[g] = qRows[t][g]
        \/ t = "kv" /\ g = "new" /\ QdRest(t, g, r[g]) /\ r[g] # Ids!NoRow
  BY <1>1, <1>5, <1>7 DEF QdSides
<1>10. /\ qHalf' \in BOOLEAN /\ qTodo' \subseteq qTodo /\ "old" \in QdSides
       /\ \A x \in qTodo : x \in qTodo' \/ x = <<t, "old">>
  <2>1. qHalf' = TRUE
    BY <1>1
  <2>2. qHalf' \in BOOLEAN
    BY <2>1, Zenon
  <2> QED BY <1>1, <2>2 DEF QdSides
<1>11. qHalf' => (<<"kv", "old">> \in qTodo' /\ t = "kv" /\ r["new"] # Ids!NoRow /\ QdRest(t, "new", r["new"]))
  BY <1>1, <1>7
<1> QED BY <1>1, <1>6, <1>8, <1>9, <1>10, <1>11, QdTurn

LEMMA QdDrops ==
  ASSUME Ids!QidAssumption, Ids!IInv, NEW t \in Tables, Ids!DropOld(t) PROVE Ids!IInv'
<1> DEFINE r == [qRows[t] EXCEPT !["old"] = Ids!NoRow]
<1>1. /\ <<t, "old">> \in qTodo /\ Ids!Keyed(t) /\ qRows[t]["new"] # Ids!NoRow
      /\ qRows' = [qRows EXCEPT ![t]["old"] = Ids!NoRow] /\ qHalf' = FALSE
      /\ qTodo' = qTodo \ {<<t, "old">>}
      /\ UNCHANGED <<origin, stage, qAsRead, qPassed, starts, qRunning, qWrites>>
  BY DEF Ids!DropOld, Ids!Holds, Ids!Done
<1>2. /\ qRows[t] \in [QdSides -> Ids!Row(t)] /\ qRows \in [Tables -> [QdSides -> QdRow]]
      /\ QdFrom(t, qRows[t])
  BY QdTyped, QdKnown
<1>3. Ids!NoRow \in Ids!Row(t)
  BY DEF Ids!Row
<1>4. /\ r \in [QdSides -> Ids!Row(t)] /\ r["old"] = Ids!NoRow /\ r["new"] = qRows[t]["new"]
      /\ qRows' = [qRows EXCEPT ![t] = r]
  BY <1>1, <1>2, <1>3 DEF QdSides
<1> HIDE DEF r
<1>5. QdMoves(t, r)
  <2>1. QdFrom(t, r)
    BY <1>2, <1>4, QdNoRow DEF QdFrom, QdSides
  <2>2. "new" \in QdSides /\ r["new"] # Ids!NoRow
    BY <1>1, <1>4 DEF QdSides
  <2> QED BY <1>4, <2>1, <2>2 DEF QdMoves
<1>6. ~qHalf' /\ qHalf' \in BOOLEAN /\ qTodo' \subseteq qTodo /\ "old" \in QdSides
  <2>1. qHalf' = FALSE
    BY <1>1
  <2>2. qHalf' \in BOOLEAN
    BY <2>1, Zenon
  <2> QED BY <1>1, <2>2 DEF QdSides
<1>7. \A g \in QdSides : r[g] # Ids!NoRow =>
        \/ QdRest(t, g, r[g])
        \/ r[g] = qRows[t][g] /\ (g # "old" \/ <<t, "old">> \in qTodo')
  BY <1>4 DEF QdSides
<1>8. \A x \in qTodo : x \in qTodo' \/ x = <<t, "old">>
  BY <1>1
<1>9. \A g \in QdSides : <<t, g>> \in qTodo' => r[g] = qRows[t][g]
  BY <1>1, <1>4 DEF QdSides
<1> QED BY <1>1, <1>5, <1>6, <1>7, <1>8, <1>9, QdTurn

LEMMA QdWrites ==
  ASSUME Ids!QidAssumption, Ids!IInv, NEW t \in Tables, Ids!Write(t) PROVE Ids!IInv'
<1> DEFINE w == [tag |-> "bornNew", ids |-> "new"]
           r == [qRows[t] EXCEPT !["new"] = w]
<1>1. /\ qRunning /\ Ids!Keyed(t) /\ qRows[t]["new"] = Ids!NoRow /\ qWrites < MaxRowWrites
      /\ qRows' = [qRows EXCEPT ![t]["new"] = w] /\ qWrites' = qWrites + 1
      /\ UNCHANGED <<origin, stage, qTodo, qAsRead, qPassed, qHalf, starts, qRunning>>
  BY DEF Ids!Write, Ids!Holds
<1>2. /\ qRows[t] \in [QdSides -> Ids!Row(t)] /\ qRows \in [Tables -> [QdSides -> QdRow]]
      /\ QdFrom(t, qRows[t])
  BY QdTyped, QdKnown
<1>3. w \in Ids!Row(t) /\ w # Ids!NoRow /\ w.tag = "bornNew" /\ w.ids = "new"
  BY DEF Ids!Row, Ids!NoRow
<1>4. /\ r \in [QdSides -> Ids!Row(t)] /\ r["old"] = qRows[t]["old"] /\ r["new"] = w
      /\ qRows' = [qRows EXCEPT ![t] = r]
  BY <1>1, <1>2, <1>3 DEF QdSides
<1> HIDE DEF r, w
<1>6. QdMoves(t, r)
  <2>1. QdFrom(t, r)
    BY <1>1, <1>2, <1>3, <1>4 DEF QdFrom, QdSides
  <2>2. "new" \in QdSides /\ r["new"] # Ids!NoRow
    BY <1>3, <1>4 DEF QdSides
  <2> QED BY <1>3, <1>4, <2>1, <2>2 DEF QdMoves
<1>7. /\ qRows' \in [Tables -> [QdSides -> QdRow]] /\ qRows'[t] = r
      /\ \A u \in Tables : u # t => qRows'[u] = qRows[u]
      /\ \A u \in Tables : qRows'[u] \in [QdSides -> Ids!Row(u)]
      /\ Ids!RowsMoveOn' /\ Ids!NothingVanishes'
  BY <1>1, <1>6, QdMoved
<1>8. qWrites' \in 0..MaxRowWrites
  BY <1>1, QdTyped
<1>9. Ids!TypeOK'
  BY <1>1, <1>7, <1>8 DEF Ids!IInv, Ids!TypeOK, QdSides, QdRow
<1>10. stage \in {0, 6}
  BY <1>1, QdKnown
<1>11. qTodo = {} /\ ~qHalf
  BY <1>10, QdKnown
<1>12. Ids!TodoIsRead' /\ Ids!ItemsAreRows' /\ Ids!CopyIsConverted'
  <2>1. \A u \in qPassed : \E i \in 1..5 : u \in Ids!Order[i] /\ i <= stage
    BY QdKnown
  <2> QED BY <1>1, <1>10, <1>11, <2>1, QdOrder DEF Ids!TodoIsRead, Ids!ItemsAreRows,
     Ids!CopyIsConverted
<1>13. Ids!Converges'
  <2> SUFFICES ASSUME NEW i \in 1..5, stage > i, NEW u \in (Ids!Order[i] \cap Tables) \ qPassed,
                      NEW g \in QdSides, qRows'[u][g] # Ids!NoRow
               PROVE  QdRest(u, g, qRows'[u][g])
    <3>1. \A u \in Tables, g \in QdSides : Ids!AtRest(u, g)' <=> QdRest(u, g, qRows'[u][g])
      BY <1>1 DEF Ids!AtRest, QdRest, QdOdd, QdSides
    <3> QED BY <1>1, <3>1, QdOrder DEF Ids!Converges, Ids!Holds, QdSides
  <2>1. CASE u = t /\ g = "new"
    BY <1>3, <1>4, <1>7, <2>1 DEF QdRest
  <2>2. CASE ~(u = t /\ g = "new")
    <3>1. qRows'[u][g] = qRows[u][g]
      BY <1>4, <1>7, <2>2 DEF QdSides
    <3> QED BY <3>1, QdKnown
  <2> QED BY <2>1, <2>2
<1> QED BY <1>7, <1>9, <1>12, <1>13 DEF Ids!IInv

LEMMA QdStep == ASSUME Ids!QidAssumption, Ids!IInv, Ids!Next PROVE Ids!IInv'
<1>1. CASE Ids!Start \/ Ids!NextTable
  BY <1>1, QdStart, QdNextTable
<1>2. CASE Ids!Fails \/ Ids!Stop
  BY <1>2, QdEnds
<1>3. ASSUME NEW t \in Tables, Ids!CopyOver(t) \/ Ids!DropOld(t) \/ Ids!Write(t) PROVE Ids!IInv'
  BY <1>3, QdCopies, QdDrops, QdWrites
<1>4. ASSUME NEW t \in Tables, NEW f \in QdSides, Ids!Skip(t, f) \/ Ids!Rewrite(t, f)
      PROVE  Ids!IInv'
  BY <1>4, QdSkip, QdRewrite
<1> QED BY <1>1, <1>2, <1>3, <1>4 DEF Ids!Next, Ids!Step, QdSides

LEMMA QdStutter == ASSUME Ids!IInv, UNCHANGED Ids!vars PROVE Ids!IInv'
<1>1. UNCHANGED <<qRows, origin, stage, qTodo, qAsRead, qPassed, qHalf, starts, qRunning, qWrites>>
  BY DEF Ids!vars
<1>2. Ids!TypeOK' /\ Ids!RowsMoveOn'
  BY <1>1 DEF Ids!IInv, Ids!TypeOK, Ids!RowsMoveOn
<1>a. \A t \in Tables, f \in {"old", "new"} : Ids!AtRest(t, f)' <=> Ids!AtRest(t, f)
  BY <1>1 DEF Ids!AtRest
<1>b. \A t \in Tables, f \in {"old", "new"} : Ids!Holds(t, f)' <=> Ids!Holds(t, f)
  BY <1>1 DEF Ids!Holds
<1>c. Ids!ItemsAreRows'
  <2>1. Ids!ItemsAreRows
    BY DEF Ids!IInv
  <2> QED BY <1>1, <1>a, <1>b, <2>1 DEF Ids!ItemsAreRows
<1>d. Ids!TodoIsRead'
  <2>1. Ids!TodoIsRead
    BY DEF Ids!IInv
  <2> QED BY <1>1, <1>a, <1>b, <2>1 DEF Ids!TodoIsRead
<1>3. Ids!CopyIsConverted' /\ Ids!Converges' /\ Ids!NothingVanishes'
  BY <1>1 DEF Ids!IInv, Ids!CopyIsConverted, Ids!Converges, Ids!NothingVanishes, Ids!Holds,
     Ids!AtRest
<1> QED BY <1>2, <1>3, <1>c, <1>d DEF Ids!IInv

-------------------------------------------------------------------------------
(* Skills.                                                                 *)

LEMMA SkPlaces ==
  ASSUME Skills!SkillsAssumption
  PROVE  /\ \A o \in SkillOps : o.id \in Skills!Places /\ o.id \notin Skills!Dirs
         /\ \A o \in SkillOps : o.kind = "install" => o.dir \in Skills!Dirs /\ o.skill # Skills!NoSkill
         /\ \A o, x \in SkillOps : o.id = x.id => o = x
         /\ Skills!Dirs \subseteq Skills!Places /\ Skills!NoSkill \in Skills!Shelved
         /\ Skills!NoSkill.ok
         /\ \A o \in SkillOps : o.skill \in Skills!Shelved
         /\ \A d \in Skills!Dirs : Present[d] \in Skills!Shelved /\ Present[d].ok
BY DEF Skills!SkillsAssumption, Skills!Temps, Skills!Dirs, Skills!Shelved, Skills!NoSkill

LEMMA SkInit == ASSUME Skills!SkillsAssumption, Skills!Init PROVE Skills!IInv
<1>1. disk \in [Skills!Places -> Skills!Shelved] /\ \A d \in Skills!Dirs : disk[d] = Present[d]
  BY SkPlaces DEF Skills!Init
<1>2. sStep \in [SkillOps -> Skills!Steps] /\ \A o \in SkillOps : sStep[o] = "new"
  BY DEF Skills!Init, Skills!Steps
<1>3. Skills!UnpackedStays
  BY <1>2 DEF Skills!UnpackedStays
<1>4. Skills!ClearedIsReplaced
  BY <1>1, SkPlaces DEF Skills!ClearedIsReplaced
<1> QED BY <1>1, <1>2, <1>3, <1>4 DEF Skills!IInv

LEMMA SkPut ==
  ASSUME Skills!IInv, NEW p, NEW k \in Skills!Shelved, Skills!Put(p, k)
  PROVE  /\ disk' \in [Skills!Places -> Skills!Shelved] /\ (p \in Skills!Places => disk'[p] = k)
         /\ \A q \in Skills!Places : q # p => disk'[q] = disk[q]
<1>1. disk \in [Skills!Places -> Skills!Shelved] /\ disk' = [disk EXCEPT ![p] = k]
  BY DEF Skills!IInv, Skills!Put
<1> QED BY <1>1

LEMMA SkTo ==
  ASSUME Skills!IInv, NEW o \in SkillOps, NEW s \in Skills!Steps, Skills!To(o, s)
  PROVE  /\ sStep' \in [SkillOps -> Skills!Steps] /\ sStep'[o] = s
         /\ \A x \in SkillOps : x # o => sStep'[x] = sStep[x]
<1>1. sStep \in [SkillOps -> Skills!Steps] /\ sStep' = [sStep EXCEPT ![o] = s]
  BY DEF Skills!IInv, Skills!To
<1> QED BY <1>1

\* A step that leaves the directory alone, of a call that has nothing in it.
LEMMA SkPasses ==
  ASSUME Skills!SkillsAssumption, Skills!IInv, NEW o \in SkillOps, NEW s \in Skills!Steps, Skills!To(o, s),
         disk' = disk, deleted' = deleted, torn' = torn,
         sStep[o] \notin {"unpacked", "validated", "cleared"},
         s \notin {"unpacked", "validated", "cleared"}
  PROVE  Skills!IInv'
<1>1. /\ sStep' \in [SkillOps -> Skills!Steps] /\ sStep'[o] = s
      /\ \A x \in SkillOps : x # o => sStep'[x] = sStep[x]
  BY SkTo
<1>2. Skills!UnpackedStays'
  BY <1>1 DEF Skills!IInv, Skills!UnpackedStays
<1>3. Skills!ClearedIsReplaced'
  BY <1>1 DEF Skills!IInv, Skills!ClearedIsReplaced
<1> QED BY <1>1, <1>2, <1>3 DEF Skills!IInv, Skills!Shelved

LEMMA SkSame ==
  ASSUME Skills!IInv, sStep' = sStep, disk' = disk, deleted' = deleted, torn' = torn
  PROVE  Skills!IInv'
<1>1. Skills!UnpackedStays'
  BY DEF Skills!IInv, Skills!UnpackedStays
<1>2. Skills!ClearedIsReplaced'
  BY DEF Skills!IInv, Skills!ClearedIsReplaced
<1> QED BY <1>1, <1>2 DEF Skills!IInv, Skills!Shelved

LEMMA SkUnpacks ==
  ASSUME Skills!SkillsAssumption, Skills!IInv, NEW o \in SkillOps, Skills!Unpacks(o)
  PROVE  Skills!IInv'
<1>1. /\ o.kind = "install" /\ sStep[o] = "new" /\ Skills!Put(o.id, o.skill)
      /\ Skills!To(o, "unpacked")
      /\ deleted' = deleted /\ torn' = torn
  BY DEF Skills!Unpacks
<1>2. /\ disk' \in [Skills!Places -> Skills!Shelved] /\ disk'[o.id] = o.skill
      /\ \A q \in Skills!Places : q # o.id => disk'[q] = disk[q]
  BY <1>1, SkPut, SkPlaces
<1>3. /\ sStep' \in [SkillOps -> Skills!Steps] /\ sStep'[o] = "unpacked"
      /\ \A x \in SkillOps : x # o => sStep'[x] = sStep[x]
  BY <1>1, SkTo DEF Skills!Steps
<1>4. \A x \in SkillOps : x # o => disk'[x.id] = disk[x.id]
  BY <1>2, SkPlaces
<1>5. \A d \in Skills!Dirs : disk'[d] = disk[d]
  BY <1>2, SkPlaces
<1>6. Skills!UnpackedStays'
  BY <1>1, <1>2, <1>3, <1>4 DEF Skills!IInv, Skills!UnpackedStays
<1>7. Skills!ClearedIsReplaced'
  <2> SUFFICES ASSUME NEW d \in Skills!Dirs
               PROVE  /\ disk[d].ok
                      /\ (Present[d] # Skills!NoSkill /\ d \notin deleted \cup torn /\ disk[d] = Skills!NoSkill)
                           => \E x \in SkillOps : x.dir = d /\ sStep'[x] = "cleared" /\ disk'[x.id] # Skills!NoSkill
    BY <1>1, <1>5 DEF Skills!ClearedIsReplaced
  <2>1. \A x \in SkillOps : sStep[x] = "cleared" => x # o /\ sStep'[x] = "cleared" /\ disk'[x.id] = disk[x.id]
    BY <1>1, <1>3, <1>4
  <2> QED BY <2>1 DEF Skills!IInv, Skills!ClearedIsReplaced
<1> QED BY <1>2, <1>3, <1>6, <1>7 DEF Skills!IInv, Skills!Shelved

LEMMA SkValidates ==
  ASSUME Skills!SkillsAssumption, Skills!IInv, NEW o \in SkillOps, Skills!Validates(o)
  PROVE  Skills!IInv'
<1>1. sStep[o] = "unpacked" /\ deleted' = deleted /\ torn' = torn
  BY DEF Skills!Validates, Skills!ghosts
<1>2. o.kind = "install" /\ disk[o.id] \in {o.skill, Skills!NoSkill}
  BY <1>1 DEF Skills!IInv, Skills!UnpackedStays
<1>3. \A x \in SkillOps : sStep[x] = "cleared" => x # o
  BY <1>1
<1>4. CASE disk[o.id] # Skills!NoSkill /\ o.skill.ok
  <2>1. Skills!To(o, "validated") /\ disk' = disk
    BY <1>4 DEF Skills!Validates
  <2>2. /\ sStep' \in [SkillOps -> Skills!Steps] /\ sStep'[o] = "validated"
        /\ \A x \in SkillOps : x # o => sStep'[x] = sStep[x]
    BY <2>1, SkTo DEF Skills!Steps
  <2>3. Skills!UnpackedStays'
    BY <1>1, <1>2, <1>4, <2>1, <2>2 DEF Skills!IInv, Skills!UnpackedStays
  <2>4. Skills!ClearedIsReplaced'
    BY <1>1, <1>3, <2>1, <2>2 DEF Skills!IInv, Skills!ClearedIsReplaced
  <2> QED BY <2>1, <2>2, <2>3, <2>4 DEF Skills!IInv, Skills!Shelved
<1>5. CASE ~(disk[o.id] # Skills!NoSkill /\ o.skill.ok)
  <2>1. Skills!To(o, "refused") /\ Skills!Put(o.id, Skills!NoSkill)
    BY <1>5 DEF Skills!Validates
  <2>2. /\ sStep' \in [SkillOps -> Skills!Steps] /\ sStep'[o] = "refused"
        /\ \A x \in SkillOps : x # o => sStep'[x] = sStep[x]
    BY <2>1, SkTo DEF Skills!Steps
  <2>3. /\ disk' \in [Skills!Places -> Skills!Shelved]
        /\ \A q \in Skills!Places : q # o.id => disk'[q] = disk[q]
    BY <2>1, SkPut, SkPlaces
  <2>4. /\ \A x \in SkillOps : x # o => disk'[x.id] = disk[x.id]
        /\ \A d \in Skills!Dirs : disk'[d] = disk[d]
    BY <2>3, SkPlaces
  <2>5. Skills!UnpackedStays'
    BY <1>1, <2>2, <2>4 DEF Skills!IInv, Skills!UnpackedStays
  <2>6. Skills!ClearedIsReplaced'
    BY <1>1, <1>3, <2>2, <2>4 DEF Skills!IInv, Skills!ClearedIsReplaced
  <2> QED BY <2>2, <2>3, <2>5, <2>6 DEF Skills!IInv, Skills!Shelved
<1> QED BY <1>4, <1>5

LEMMA SkClears ==
  ASSUME Skills!SkillsAssumption, Skills!IInv, NEW o \in SkillOps, Skills!Clears(o)
  PROVE  Skills!IInv'
<1>1. /\ sStep[o] = "validated" /\ Skills!Put(o.dir, Skills!NoSkill) /\ Skills!To(o, "cleared")
      /\ deleted' = deleted /\ torn' = torn
  BY DEF Skills!Clears, Skills!ghosts
<1>2. /\ o.kind = "install" /\ disk[o.id] \in {o.skill, Skills!NoSkill} /\ o.skill.ok
      /\ disk[o.id] = Skills!NoSkill => o.dir \in deleted
  BY <1>1 DEF Skills!IInv, Skills!UnpackedStays
<1>3. /\ disk' \in [Skills!Places -> Skills!Shelved] /\ disk'[o.dir] = Skills!NoSkill
      /\ \A q \in Skills!Places : q # o.dir => disk'[q] = disk[q]
  BY <1>1, <1>2, SkPut, SkPlaces
<1>4. /\ sStep' \in [SkillOps -> Skills!Steps] /\ sStep'[o] = "cleared"
      /\ \A x \in SkillOps : x # o => sStep'[x] = sStep[x]
  BY <1>1, SkTo DEF Skills!Steps
<1>5. \A x \in SkillOps : disk'[x.id] = disk[x.id]
  BY <1>2, <1>3, SkPlaces
<1>6. Skills!UnpackedStays'
  BY <1>1, <1>2, <1>4, <1>5 DEF Skills!IInv, Skills!UnpackedStays
<1>7. Skills!ClearedIsReplaced'
  <2> SUFFICES ASSUME NEW d \in Skills!Dirs
               PROVE  /\ disk'[d].ok
                      /\ (Present[d] # Skills!NoSkill /\ d \notin deleted \cup torn /\ disk'[d] = Skills!NoSkill)
                           => \E x \in SkillOps : x.dir = d /\ sStep'[x] = "cleared" /\ disk'[x.id] # Skills!NoSkill
    BY <1>1 DEF Skills!ClearedIsReplaced
  <2>1. CASE d = o.dir
    BY <1>2, <1>3, <1>4, <1>5, <2>1, SkPlaces
  <2>2. CASE d # o.dir
    <3>1. disk'[d] = disk[d]
      BY <1>3, <2>2, SkPlaces
    <3>2. \A x \in SkillOps : sStep[x] = "cleared" => sStep'[x] = "cleared"
      BY <1>4
    <3> QED BY <1>5, <3>1, <3>2 DEF Skills!IInv, Skills!ClearedIsReplaced
  <2> QED BY <2>1, <2>2
<1> QED BY <1>3, <1>4, <1>6, <1>7 DEF Skills!IInv, Skills!Shelved

LEMMA SkRenames ==
  ASSUME Skills!SkillsAssumption, Skills!IInv, NEW o \in SkillOps, Skills!Renames(o)
  PROVE  Skills!IInv'
<1>1. sStep[o] = "cleared" /\ deleted' = deleted /\ torn' = torn
  BY DEF Skills!Renames, Skills!ghosts
<1>2. /\ o.kind = "install" /\ disk[o.id] \in {o.skill, Skills!NoSkill} /\ o.skill.ok
      /\ disk[o.id] = Skills!NoSkill => o.dir \in deleted
  BY <1>1 DEF Skills!IInv, Skills!UnpackedStays
<1>3. o.dir \in Skills!Dirs /\ o.id \in Skills!Places /\ o.dir \in Skills!Places /\ o.id # o.dir
  BY <1>2, SkPlaces
<1>4. CASE disk[o.dir] = Skills!NoSkill /\ disk[o.id] # Skills!NoSkill
  <2>1. /\ disk' = [disk EXCEPT ![o.dir] = disk[o.id], ![o.id] = Skills!NoSkill]
        /\ Skills!To(o, "reload")
    BY <1>4 DEF Skills!Renames
  <2>2. disk \in [Skills!Places -> Skills!Shelved] /\ disk[o.id] \in Skills!Shelved /\ Skills!NoSkill \in Skills!Shelved
    BY <1>3, SkPlaces DEF Skills!IInv
  <2>3. /\ disk' \in [Skills!Places -> Skills!Shelved] /\ disk'[o.dir] = disk[o.id]
        /\ \A q \in Skills!Places : q # o.dir /\ q # o.id => disk'[q] = disk[q]
    BY <1>3, <2>1, <2>2
  <2>4. /\ sStep' \in [SkillOps -> Skills!Steps] /\ sStep'[o] = "reload"
        /\ \A x \in SkillOps : x # o => sStep'[x] = sStep[x]
    BY <2>1, SkTo DEF Skills!Steps
  <2>5. \A x \in SkillOps : x # o => disk'[x.id] = disk[x.id]
    BY <1>3, <2>3, SkPlaces
  <2>6. Skills!UnpackedStays'
    BY <1>1, <2>4, <2>5 DEF Skills!IInv, Skills!UnpackedStays
  <2>7. Skills!ClearedIsReplaced'
    <3> SUFFICES ASSUME NEW d \in Skills!Dirs
                 PROVE  /\ disk'[d].ok
                        /\ (Present[d] # Skills!NoSkill /\ d \notin deleted \cup torn /\ disk'[d] = Skills!NoSkill)
                             => \E x \in SkillOps : x.dir = d /\ sStep'[x] = "cleared" /\ disk'[x.id] # Skills!NoSkill
      BY <1>1 DEF Skills!ClearedIsReplaced
    <3>1. CASE d = o.dir
      BY <1>2, <1>4, <2>3, <3>1
    <3>2. CASE d # o.dir
      <4>1. disk'[d] = disk[d]
        BY <2>3, <3>2, SkPlaces
      <4>2. \A x \in SkillOps : x.dir = d => x # o
        BY <3>2
      <4> QED BY <2>4, <2>5, <4>1, <4>2 DEF Skills!IInv, Skills!ClearedIsReplaced
    <3> QED BY <3>1, <3>2
  <2> QED BY <2>3, <2>4, <2>6, <2>7 DEF Skills!IInv, Skills!Shelved
<1>5. CASE ~(disk[o.dir] = Skills!NoSkill /\ disk[o.id] # Skills!NoSkill)
  <2>1. Skills!To(o, "failed") /\ Skills!Put(o.id, Skills!NoSkill)
    BY <1>5 DEF Skills!Renames
  <2>2. /\ sStep' \in [SkillOps -> Skills!Steps] /\ sStep'[o] = "failed"
        /\ \A x \in SkillOps : x # o => sStep'[x] = sStep[x]
    BY <2>1, SkTo DEF Skills!Steps
  <2>3. /\ disk' \in [Skills!Places -> Skills!Shelved]
        /\ \A q \in Skills!Places : q # o.id => disk'[q] = disk[q]
    BY <2>1, SkPut, SkPlaces
  <2>4. /\ \A x \in SkillOps : x # o => disk'[x.id] = disk[x.id]
        /\ \A d \in Skills!Dirs : disk'[d] = disk[d]
    BY <2>3, SkPlaces
  <2>5. Skills!UnpackedStays'
    BY <1>1, <2>2, <2>4 DEF Skills!IInv, Skills!UnpackedStays
  <2>6. Skills!ClearedIsReplaced'
    <3> SUFFICES ASSUME NEW d \in Skills!Dirs
                 PROVE  /\ disk[d].ok
                        /\ (Present[d] # Skills!NoSkill /\ d \notin deleted \cup torn /\ disk[d] = Skills!NoSkill)
                             => \E x \in SkillOps : x.dir = d /\ sStep'[x] = "cleared" /\ disk'[x.id] # Skills!NoSkill
      BY <1>1, <2>4 DEF Skills!ClearedIsReplaced
    <3>1. disk[d].ok
      BY DEF Skills!IInv, Skills!ClearedIsReplaced
    <3>2. ASSUME Present[d] # Skills!NoSkill, d \notin deleted \cup torn, disk[d] = Skills!NoSkill
          PROVE  \E x \in SkillOps : x.dir = d /\ sStep'[x] = "cleared" /\ disk'[x.id] # Skills!NoSkill
      <4>1. PICK x \in SkillOps : x.dir = d /\ sStep[x] = "cleared" /\ disk[x.id] # Skills!NoSkill
        BY <3>2 DEF Skills!IInv, Skills!ClearedIsReplaced
      <4>2. x # o
        BY <1>5, <3>2, <4>1
      <4> QED BY <2>2, <2>4, <4>1, <4>2
    <3> QED BY <3>1, <3>2
  <2> QED BY <2>2, <2>3, <2>5, <2>6 DEF Skills!IInv, Skills!Shelved
<1> QED BY <1>4, <1>5

LEMMA SkRemoves ==
  ASSUME Skills!SkillsAssumption, Skills!IInv, NEW o \in SkillOps, Skills!Removes(o)
  PROVE  Skills!IInv'
<1> DEFINE p == path[o]
           gone == {x.dir : x \in {y \in SkillOps : y.id = p /\ sStep[y] \in {"validated", "cleared"}}}
<1>1. /\ sStep[o] = "remove" /\ Skills!Put(p, Skills!NoSkill) /\ Skills!To(o, "reload")
      /\ deleted' = deleted \cup {p} \cup gone /\ torn' = torn
  BY DEF Skills!Removes
<1>2. /\ disk' \in [Skills!Places -> Skills!Shelved] /\ (p \in Skills!Places => disk'[p] = Skills!NoSkill)
      /\ \A q \in Skills!Places : q # p => disk'[q] = disk[q]
  BY <1>1, SkPut, SkPlaces
<1>3. /\ sStep' \in [SkillOps -> Skills!Steps] /\ sStep'[o] = "reload"
      /\ \A x \in SkillOps : x # o => sStep'[x] = sStep[x]
  BY <1>1, SkTo DEF Skills!Steps
<1>4. \A x \in SkillOps : x.id = p /\ sStep[x] \in {"validated", "cleared"} => x.dir \in deleted'
  BY <1>1
<1>5. deleted \subseteq deleted' /\ p \in deleted'
  BY <1>1
<1> HIDE DEF p, gone
<1>6. Skills!UnpackedStays'
  <2> SUFFICES ASSUME NEW x \in SkillOps, sStep'[x] \in {"unpacked", "validated", "cleared"}
               PROVE  /\ x.kind = "install" /\ disk'[x.id] \in {x.skill, Skills!NoSkill}
                      /\ sStep'[x] # "unpacked" =>
                           x.skill.ok /\ (disk'[x.id] = Skills!NoSkill => x.dir \in deleted')
    BY DEF Skills!UnpackedStays
  <2>1. x # o /\ sStep'[x] = sStep[x]
    BY <1>3
  <2>2. /\ x.kind = "install" /\ disk[x.id] \in {x.skill, Skills!NoSkill}
        /\ sStep[x] # "unpacked" => x.skill.ok /\ (disk[x.id] = Skills!NoSkill => x.dir \in deleted)
    BY <2>1 DEF Skills!IInv, Skills!UnpackedStays
  <2>3. CASE x.id = p
    BY <1>2, <1>4, <2>1, <2>2, <2>3, SkPlaces
  <2>4. CASE x.id # p
    BY <1>2, <1>5, <2>1, <2>2, <2>4, SkPlaces
  <2> QED BY <2>3, <2>4
<1>7. Skills!ClearedIsReplaced'
  <2> SUFFICES ASSUME NEW d \in Skills!Dirs
               PROVE  /\ disk'[d].ok
                      /\ (Present[d] # Skills!NoSkill /\ d \notin deleted' \cup torn /\ disk'[d] = Skills!NoSkill)
                           => \E x \in SkillOps : x.dir = d /\ sStep'[x] = "cleared" /\ disk'[x.id] # Skills!NoSkill
    BY <1>1 DEF Skills!ClearedIsReplaced
  <2>1. CASE d = p
    BY <1>2, <1>5, <2>1, SkPlaces
  <2>2. CASE d # p
    <3>1. disk'[d] = disk[d] /\ disk[d].ok
      BY <1>2, <2>2, SkPlaces DEF Skills!IInv, Skills!ClearedIsReplaced
    <3>2. ASSUME Present[d] # Skills!NoSkill, d \notin deleted' \cup torn, disk[d] = Skills!NoSkill
          PROVE  \E x \in SkillOps : x.dir = d /\ sStep'[x] = "cleared" /\ disk'[x.id] # Skills!NoSkill
      <4>1. PICK x \in SkillOps : x.dir = d /\ sStep[x] = "cleared" /\ disk[x.id] # Skills!NoSkill
        BY <1>5, <3>2 DEF Skills!IInv, Skills!ClearedIsReplaced
      <4>2. x # o /\ x.id # p
        BY <1>1, <1>4, <3>2, <4>1
      <4> QED BY <1>2, <1>3, <4>1, <4>2, SkPlaces
    <3> QED BY <3>1, <3>2
  <2> QED BY <2>1, <2>2
<1> QED BY <1>2, <1>3, <1>6, <1>7 DEF Skills!IInv, Skills!Shelved

LEMMA SkRestart == ASSUME Skills!SkillsAssumption, Skills!IInv, Skills!Restart
  PROVE  Skills!IInv'
<1>1. /\ torn' = torn \cup {x.dir : x \in {y \in SkillOps : sStep[y] = "cleared"}}
      /\ sStep' = [x \in SkillOps |-> IF Skills!Over(x) THEN sStep[x] ELSE "killed"]
      /\ disk' = disk /\ deleted' = deleted
  BY DEF Skills!Restart
<1>2. sStep \in [SkillOps -> Skills!Steps]
  BY DEF Skills!IInv
<1>3. sStep' \in [SkillOps -> Skills!Steps]
  BY <1>1, <1>2 DEF Skills!Steps
<1>4. \A x \in SkillOps : sStep'[x] \notin {"unpacked", "validated", "cleared"}
  BY <1>1 DEF Skills!Over
<1>5. Skills!UnpackedStays'
  BY <1>4 DEF Skills!UnpackedStays
<1>6. Skills!ClearedIsReplaced'
  <2> SUFFICES ASSUME NEW d \in Skills!Dirs
               PROVE  /\ disk[d].ok
                      /\ ~(Present[d] # Skills!NoSkill /\ d \notin deleted \cup torn' /\ disk[d] = Skills!NoSkill)
    BY <1>1 DEF Skills!ClearedIsReplaced
  <2>1. /\ disk[d].ok
        /\ (Present[d] # Skills!NoSkill /\ d \notin deleted \cup torn /\ disk[d] = Skills!NoSkill)
             => \E x \in SkillOps : x.dir = d /\ sStep[x] = "cleared"
    BY DEF Skills!IInv, Skills!ClearedIsReplaced
  <2> QED BY <1>1, <2>1
<1> QED BY <1>1, <1>3, <1>5, <1>6 DEF Skills!IInv, Skills!Shelved

LEMMA SkStep == ASSUME Skills!SkillsAssumption, Skills!IInv, Skills!Next PROVE Skills!IInv'
<1>1. ASSUME NEW o \in SkillOps,
             Skills!Unpacks(o) \/ Skills!Validates(o) \/ Skills!Clears(o) \/ Skills!Renames(o) \/ Skills!Removes(o)
      PROVE  Skills!IInv'
  BY <1>1, SkUnpacks, SkValidates, SkClears, SkRenames, SkRemoves
<1>2. ASSUME NEW o \in SkillOps, Skills!Finds(o) PROVE Skills!IInv'
  <2>1. /\ sStep[o] = "new" /\ disk' = disk /\ deleted' = deleted /\ torn' = torn
        /\ Skills!To(o, "refused") \/ Skills!To(o, "remove")
    BY <1>2 DEF Skills!Finds
  <2> QED BY <2>1, SkPasses DEF Skills!Steps
<1>3. ASSUME NEW o \in SkillOps, Skills!Refreshes(o) PROVE Skills!IInv'
  <2>1. /\ sStep[o] = "new" /\ disk' = disk /\ deleted' = deleted /\ torn' = torn
        /\ Skills!To(o, "refused") \/ Skills!To(o, "reload")
    BY <1>3 DEF Skills!Refreshes
  <2> QED BY <2>1, SkPasses DEF Skills!Steps
<1>4. ASSUME NEW o \in SkillOps, Skills!ReadsDir(o) PROVE Skills!IInv'
  <2>1. /\ sStep[o] = "reload" /\ disk' = disk /\ deleted' = deleted /\ torn' = torn
        /\ Skills!To(o, "load")
    BY <1>4 DEF Skills!ReadsDir, Skills!ghosts
  <2> QED BY <2>1, SkPasses DEF Skills!Steps
<1>5. ASSUME NEW o \in SkillOps, Skills!Loads(o) PROVE Skills!IInv'
  <2>1. /\ sStep[o] = "load" /\ disk' = disk /\ deleted' = deleted /\ torn' = torn
        /\ sStep' = sStep \/ Skills!To(o, "failed")
    BY <1>5 DEF Skills!Loads, Skills!ghosts
  <2> QED BY <2>1, SkPasses, SkSame DEF Skills!Steps
<1>6. ASSUME NEW o \in SkillOps, Skills!Swaps(o) PROVE Skills!IInv'
  <2>1. /\ sStep[o] = "load" /\ disk' = disk /\ deleted' = deleted /\ torn' = torn
        /\ Skills!To(o, "look") \/ Skills!To(o, "done")
    BY <1>6 DEF Skills!Swaps, Skills!ghosts
  <2> QED BY <2>1, SkPasses DEF Skills!Steps
<1>7. ASSUME NEW o \in SkillOps, Skills!Looks(o) PROVE Skills!IInv'
  <2>1. /\ sStep[o] = "look" /\ disk' = disk /\ deleted' = deleted /\ torn' = torn
        /\ Skills!To(o, "done") \/ Skills!To(o, "unlisted")
    BY <1>7 DEF Skills!Looks, Skills!ghosts
  <2> QED BY <2>1, SkPasses DEF Skills!Steps
<1> QED BY <1>1, <1>2, <1>3, <1>4, <1>5, <1>6, <1>7, SkRestart DEF Skills!Next, Skills!Step

LEMMA SkStutter == ASSUME Skills!IInv, UNCHANGED Skills!vars PROVE Skills!IInv'
BY SkSame DEF Skills!vars

LEMMA SkKeeps == ASSUME Skills!SkillsAssumption, Skills!IInv PROVE Skills!SkillsSurvive
BY DEF Skills!IInv, Skills!ClearedIsReplaced, Skills!SkillsSurvive, Skills!Quiet, Skills!Over

-------------------------------------------------------------------------------
(* The services together.                                                  *)

IInv ==
  /\ scenario = "quota" => Quota!IInv
  /\ scenario = "chats" => Chats!IInv
  /\ scenario = "config" => Conf!IInv
  /\ scenario = "mcp" => Mcp!IInv
  /\ scenario = "interceptor" => Judge!IInv
  /\ scenario = "model" => Model!IInv
  /\ scenario = "ids" => Ids!IInv
  /\ scenario = "skills" => Skills!IInv

LEMMA InitInv == Init => IInv
<1> SUFFICES ASSUME Init PROVE IInv
  OBVIOUS
<1>1. scenario = "quota" => Quota!IInv
  BY QuInit, ServicesAssumption DEF Init, InitQuota
<1>2. scenario = "chats" => Chats!IInv
  BY CrInit, ServicesAssumption DEF CrAssumption, Init, InitChats
<1>3. scenario = "config" => Conf!IInv
  BY CsInit, ServicesAssumption DEF Init, InitConf
<1>4. scenario = "mcp" => Mcp!IInv
  BY McInit, ServicesAssumption DEF Init, InitMcp
<1>5. scenario = "interceptor" => Judge!IInv
  BY IcInit, ServicesAssumption DEF Init, InitLists
<1>6. scenario = "model" => Model!IInv
  BY LmInit, ServicesAssumption DEF Init, InitModel
<1>7. scenario = "ids" => Ids!IInv
  BY QdInit, ServicesAssumption DEF Init, InitIds
<1>8. scenario = "skills" => Skills!IInv
  BY SkInit, ServicesAssumption DEF Init, InitSkills
<1> QED BY <1>1, <1>2, <1>3, <1>4, <1>5, <1>6, <1>7, <1>8 DEF IInv

LEMMA QuotaKept ==
  ASSUME Quota!IInv, Quota!Next \/ UNCHANGED quotaVars PROVE Quota!IInv'
<1>1. CASE Quota!Next
  BY <1>1, QuStep, ServicesAssumption
<1>2. CASE UNCHANGED quotaVars
  BY <1>2, QuStutter DEF quotaVars, Quota!vars
<1> QED BY <1>1, <1>2

LEMMA ChatsKept ==
  ASSUME Chats!IInv, Chats!Next \/ UNCHANGED chatVars PROVE Chats!IInv'
<1>1. CASE Chats!Next
  BY <1>1, CrStep, ServicesAssumption DEF CrAssumption
<1>2. CASE UNCHANGED chatVars
  BY <1>2, CrStutter DEF chatVars, Chats!vars
<1> QED BY <1>1, <1>2

LEMMA ConfKept ==
  ASSUME Conf!IInv, Conf!Next \/ UNCHANGED confVars PROVE Conf!IInv'
<1>1. CASE Conf!Next
  BY <1>1, CsStep, ServicesAssumption
<1>2. CASE UNCHANGED confVars
  BY <1>2, CsStutter DEF confVars, Conf!vars
<1> QED BY <1>1, <1>2

LEMMA McpKept ==
  ASSUME Mcp!IInv, Mcp!Next \/ UNCHANGED mcpVars PROVE Mcp!IInv'
<1>1. CASE Mcp!Next
  BY <1>1, McStep, ServicesAssumption
<1>2. CASE UNCHANGED mcpVars
  BY <1>2, McStutter DEF mcpVars, Mcp!vars
<1> QED BY <1>1, <1>2

LEMMA ListsKept ==
  ASSUME Judge!IInv, Judge!Next \/ UNCHANGED listVars PROVE Judge!IInv'
<1>1. CASE Judge!Next
  BY <1>1, IcStep, ServicesAssumption
<1>2. CASE UNCHANGED listVars
  BY <1>2, IcStutter DEF listVars, Judge!vars
<1> QED BY <1>1, <1>2

LEMMA ModelKept ==
  ASSUME Model!IInv, Model!Next \/ UNCHANGED modelVars PROVE Model!IInv'
<1>1. CASE Model!Next
  BY <1>1, LmStep, ServicesAssumption
<1>2. CASE UNCHANGED modelVars
  BY <1>2, LmStutter DEF modelVars, Model!vars
<1> QED BY <1>1, <1>2

LEMMA IdsKept ==
  ASSUME Ids!IInv, Ids!Next \/ UNCHANGED idVars PROVE Ids!IInv'
<1>1. CASE Ids!Next
  BY <1>1, QdStep, ServicesAssumption
<1>2. CASE UNCHANGED idVars
  BY <1>2, QdStutter DEF idVars, Ids!vars
<1> QED BY <1>1, <1>2

LEMMA SkillsKept ==
  ASSUME Skills!IInv, Skills!Next \/ UNCHANGED skillVars PROVE Skills!IInv'
<1>1. CASE Skills!Next
  BY <1>1, SkStep, ServicesAssumption
<1>2. CASE UNCHANGED skillVars
  BY <1>2, SkStutter DEF skillVars, Skills!vars
<1> QED BY <1>1, <1>2

LEMMA NextInv == IInv /\ [Next]_serviceVars => IInv'
<1> SUFFICES ASSUME IInv, [Next]_serviceVars PROVE IInv'
  OBVIOUS
<1>1. /\ scenario' = scenario
      /\ scenario = "quota" => Quota!Next \/ UNCHANGED quotaVars
      /\ scenario = "chats" => Chats!Next \/ UNCHANGED chatVars
      /\ scenario = "config" => Conf!Next \/ UNCHANGED confVars
      /\ scenario = "mcp" => Mcp!Next \/ UNCHANGED mcpVars
      /\ scenario = "interceptor" => Judge!Next \/ UNCHANGED listVars
      /\ scenario = "model" => Model!Next \/ UNCHANGED modelVars
      /\ scenario = "ids" => Ids!Next \/ UNCHANGED idVars
      /\ scenario = "skills" => Skills!Next \/ UNCHANGED skillVars
  BY DEF Next, serviceVars, Counting, Evicting, Configuring, Serving, Judging, Generating,
         Migrating, Installing
<1>2. scenario = "quota" => Quota!IInv'
  BY <1>1, QuotaKept DEF IInv
<1>3. scenario = "chats" => Chats!IInv'
  BY <1>1, ChatsKept DEF IInv
<1>4. scenario = "config" => Conf!IInv'
  BY <1>1, ConfKept DEF IInv
<1>5. scenario = "mcp" => Mcp!IInv'
  BY <1>1, McpKept DEF IInv
<1>6. scenario = "interceptor" => Judge!IInv'
  BY <1>1, ListsKept DEF IInv
<1>7. scenario = "model" => Model!IInv'
  BY <1>1, ModelKept DEF IInv
<1>8. scenario = "ids" => Ids!IInv'
  BY <1>1, IdsKept DEF IInv
<1>9. scenario = "skills" => Skills!IInv'
  BY <1>1, SkillsKept DEF IInv
<1> QED BY <1>1, <1>2, <1>3, <1>4, <1>5, <1>6, <1>7, <1>8, <1>9 DEF IInv

\* The inductive invariants of the services hold in every reachable state.
THEOREM InductiveInvariant == Spec => []IInv
<1> QED BY InitInv, NextInv, PTL DEF Spec

\* quota.go, chatcache.go, nomention.go, configstore.go, qid_migration.go, skillpanel.go: what is
\* kept survives concurrent calls, crashes and restarts, whatever the requests, the groups, the
\* keys, the tables, the skills and the bounds are.
THEOREM DataAlwaysSurvives == Spec => []DataSurvives
<1>1. ASSUME IInv PROVE DataSurvives
  <2>1. scenario = "quota" => Quota!TypeOK /\ Quota!CountsAreUse
    BY <1>1, QuKeeps DEF IInv
  <2>2. scenario = "chats" =>
          /\ Chats!TypeOK /\ Chats!AnsweredIsStored /\ Chats!DueIsStored
          /\ Chats!NoStaleClear => Chats!RowsAreWindow
    BY <1>1, CrKeeps, ServicesAssumption DEF CrAssumption, IInv
  <2>3. Conf!IInv =>
          /\ Conf!TypeOK /\ Conf!WrittenStays
          /\ Conf!SetupIsAskedOnce /\ Conf!MaskIsNotStored /\ Conf!ListenIsSet
    BY DEF Conf!IInv
  <2>4. scenario = "config" => Conf!IInv /\ Conf!DefaultsAreThere
    BY <1>1, CsKeeps DEF IInv
  <2>5. scenario = "ids" => Ids!TypeOK /\ Ids!Converges /\ Ids!NothingVanishes
    BY <1>1 DEF IInv, Ids!IInv
  <2>6. scenario = "skills" => Skills!SkillsSurvive
    BY <1>1, SkKeeps, ServicesAssumption DEF IInv
  <2> QED BY <2>1, <2>2, <2>3, <2>4, <2>5, <2>6 DEF DataSurvives
<1> QED BY <1>1, InductiveInvariant, PTL

\* plugininterceptor, quota.go, mcpserver.go, chatcache.go, llmclient.go: what is let through,
\* offered, driven and shown is what it should be, whatever lists, limits, servers, sessions
\* and attempts there are and however they change meanwhile.
THEOREM AnswersStaySound == Spec => []AnswersAreSound
<1>1. ASSUME IInv PROVE AnswersAreSound
  <2>1. scenario = "interceptor" => /\ Judge!TypeOK /\ Judge!HardRulesHold
                                   /\ Judge!VerdictIsDocumented
    BY <1>1 DEF IInv, Judge!IInv
  <2>2. scenario = "quota" => Quota!LetThroughBelow /\ Quota!PassedByTheLast
    BY <1>1, QuKeeps DEF IInv
  <2>3. scenario = "mcp" => /\ Mcp!TypeOK /\ Mcp!OfferedToolsWork /\ Mcp!CacheIsCurrent
                           /\ Mcp!NoConnectionLeaks
    <3>1. Mcp!IInv => Mcp!TypeOK /\ Mcp!OfferedToolsWork /\ Mcp!CacheIsCurrent
      BY DEF Mcp!IInv
    <3>2. Mcp!IInv => Mcp!NoConnectionLeaks
      BY McKeeps, ServicesAssumption
    <3> QED BY <1>1, <3>1, <3>2 DEF IInv
  <2>4. scenario = "chats" => Chats!DriverIsResident
    BY <1>1, CrKeeps, ServicesAssumption DEF CrAssumption, IInv
  <2>5. scenario = "model" => Model!TypeOK /\ Model!ShownIsAnswer /\ Model!RequestsAreBounded
    BY <1>1 DEF IInv, Model!IInv
  <2> QED BY <2>1, <2>2, <2>3, <2>4, <2>5 DEF AnswersAreSound
<1> QED BY <1>1, InductiveInvariant, PTL
===============================================================================
