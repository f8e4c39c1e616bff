-------------------------- MODULE UnattendedABProofs --------------------------
(* Proofs about UnattendedAB, for any speeds, baseline and KEEP_PCT.       *)
EXTENDS UnattendedAB, TLAPS

Trying == {"prepare", "set", "sync", "boot", "bench", "decide"}
OnTrial == {"sync", "boot", "bench", "decide"}

(* The head's .env has the trial and what was chosen and, in a run that    *)
(* started from nothing else, only these; its stock image likewise.        *)
HeadFollows ==
  /\ pc \in OnTrial => env["head"][Key] = "trial"
  /\ \A s \in chosen : env["head"][s] = "trial"
  /\ clean /\ pc \in Trying =>
       /\ \A s \in Setting : env["head"][s] =
            IF s \in chosen \/ (s = Key /\ pc \in OnTrial) THEN "trial" ELSE "base"
       /\ step = 1 => stock = IF "IMAGE" \in chosen THEN "trial" ELSE "base"

(* Trials are kept in order.                                               *)
Untried == pc \in Trying => \A i \in DOMAIN Trials : i >= step => kept[Trials[i]] = 0

(* Where the copy went through the worker has the head's .env, and both    *)
(* ranks have been started from it.                                        *)
RanksFollow ==
  copied => /\ pc \in {"boot", "bench", "decide"} => env["worker"] = env["head"]
            /\ pc \in {"bench", "decide"} => served = env

(* Each decision rests on a soak of the trial itself.                      *)
Measured == measured /\ pc = "decide" => fresh \in Speed /\ results.soak = fresh

(* No kept trial, nor the baseline, is better than the best.               *)
BestIsBest ==
  measured => /\ best >= Baseline
              /\ \A i \in DOMAIN Trials : kept[Trials[i]] \in Speed \cup {0} /\ kept[Trials[i]] <= best

ABInv ==
  TypeOK /\ HeadFollows /\ Untried /\ RanksFollow /\ Measured /\ BestIsBest /\ KeptChainImproves
-----------------------------------------------------------------------------
LEMMA TrialsFacts ==
  /\ DOMAIN Trials = 1 .. 4 /\ Len(Trials) = 4
  /\ Setting = {"IMAGE", "DISABLE_FLASHINFER_AUTOTUNE", "APPLY_GATE_LINEAR", "ENFORCE_EAGER"}
  /\ \A i \in 1 .. 4 : Trials[i] \in Setting /\ (Trials[i] = "IMAGE" <=> i = 1)
  /\ \A i, j \in 1 .. 4 : Trials[i] = Trials[j] => i = j
  /\ \A s \in Setting : \E i \in 1 .. 4 : s = Trials[i]
<1>1. DOMAIN Trials = 1 .. 4 /\ Len(Trials) = 4
  BY DEF Trials
<1>2. \A i \in 1 .. 4 : i = 1 \/ i = 2 \/ i = 3 \/ i = 4
  OBVIOUS
<1>3. /\ Trials[1] = "IMAGE" /\ Trials[2] = "DISABLE_FLASHINFER_AUTOTUNE"
      /\ Trials[3] = "APPLY_GATE_LINEAR" /\ Trials[4] = "ENFORCE_EAGER"
  BY DEF Trials
<1>4. Setting = {Trials[1], Trials[2], Trials[3], Trials[4]}
  BY <1>1, <1>2 DEF Setting
<1> QED BY <1>1, <1>2, <1>3, <1>4

(* An improvement of KEEP_PCT over the best is one over all that is no     *)
(* better, and itself no worse.                                            *)
LEMMA Improves ==
  ASSUME NEW new \in Nat, NEW old \in Nat, NEW b \in Nat, old <= b,
         new * 100 >= b * (100 + KeepPct)
  PROVE  new * 100 >= old * (100 + KeepPct) /\ new >= b
<1>1. KeepPct \in Nat
  BY ABAssumption
<1> DEFINE K == 100 + KeepPct
<1>2. PICK d \in Nat : b = old + d
  <2>1. b - old \in Nat /\ b = old + (b - old)
    OBVIOUS
  <2> QED BY <2>1
<1>3. b * K = old * K + d * K /\ d * K \in Nat /\ old * K \in Int
  BY <1>1, <1>2
<1>4. b * K = b * 100 + b * KeepPct /\ b * KeepPct \in Nat
  BY <1>1
<1> QED BY <1>3, <1>4

LEMMA SoakRead ==
  ASSUME TypeOK
  PROVE  /\ ReadSoak \in Speed \cup C6Speed \cup {0}
         /\ results.soak \in Speed => ReadSoak = results.soak
<1>1. results.soak \in Speed \cup {NoResult} /\ results.c6 \in C6Speed \cup {NoResult}
  BY DEF TypeOK, Results
<1>2. NoResult \notin Speed
  BY ABAssumption
<1> QED BY <1>1, <1>2 DEF ReadSoak
-----------------------------------------------------------------------------
LEMMA InitABInv == Init => ABInv
<1> SUFFICES ASSUME Init PROVE ABInv
  OBVIOUS
<1>1. env \in [Node -> Env] /\ "IMAGE" \in Setting /\ env["head"] \in [Setting -> Value]
  BY TrialsFacts DEF Init, Node, Env
<1>2. TypeOK
  <2>1. stock \in Value
    BY <1>1 DEF Init
  <2>2. runs \in 1 .. MaxRuns
    BY ABAssumption DEF Init
  <2> QED BY <1>1, <2>1, <2>2, TrialsFacts DEF TypeOK, Init, NoResults, Results
<1>3. \A i \in DOMAIN Trials : kept[Trials[i]] = 0
  BY TrialsFacts DEF Init
<1>4. HeadFollows
  BY <1>1 DEF HeadFollows, Init, OnTrial, Value
<1>5. BestIsBest /\ KeptChainImproves
  BY <1>3, ABAssumption DEF BestIsBest, KeptChainImproves, Init
<1> QED BY <1>2, <1>3, <1>4, <1>5 DEF ABInv, Untried, RanksFollow, Measured, Init

(* The steps of a trial, which decide nothing.                             *)
LEMMA TrialStep ==
  ASSUME ABInv, UNCHANGED <<best, step, kept>>, TypeOK', HeadFollows', RanksFollow',
         Measured', pc \in Trying \/ pc' \notin Trying, measured' => measured
  PROVE  ABInv'
<1> USE DEF ABInv
<1>1. Untried'
  BY DEF Untried
<1>2. BestIsBest' /\ KeptChainImproves'
  BY DEF BestIsBest, KeptChainImproves
<1> QED BY <1>1, <1>2

LEMMA PrepareKeeps == ASSUME ABInv, NEW ok \in BOOLEAN, Prepare(ok) PROVE ABInv'
<1>1. TypeOK'
  BY DEF ABInv, TypeOK, Prepare, ghosts
<1>2. HeadFollows'
  BY DEF ABInv, HeadFollows, Key, Prepare, ghosts, Trying, OnTrial
<1>3. RanksFollow' /\ Measured'
  BY DEF RanksFollow, Measured, Prepare
<1> QED BY <1>1, <1>2, <1>3, TrialStep DEF Prepare, ghosts, Trying

LEMMA SetTrialKeeps == ASSUME ABInv, NEW old \in Results, SetTrial(old) PROVE ABInv'
<1>1. step \in 1 .. 4 /\ Key \in Setting /\ env \in [Node -> Env] /\ Key' = Key
  BY TrialsFacts DEF ABInv, TypeOK, Key, SetTrial
<1>2. TypeOK'
  BY <1>1 DEF ABInv, TypeOK, SetTrial, Env, Value, Node
<1>3. \A s \in Setting : env'["head"][s] = IF s = Key THEN "trial" ELSE env["head"][s]
  BY <1>1 DEF SetTrial, Env, Node
<1>4. HeadFollows'
  <2>1. chosen \subseteq Setting
    BY DEF ABInv, TypeOK
  <2> QED BY <1>1, <1>3, <2>1 DEF ABInv, HeadFollows, SetTrial, Trying, OnTrial
<1>5. RanksFollow' /\ Measured'
  BY DEF RanksFollow, Measured, SetTrial
<1> QED BY <1>2, <1>4, <1>5, TrialStep DEF SetTrial, Trying

LEMMA SyncKeeps == ASSUME ABInv, NEW ok \in BOOLEAN, SyncRepo(ok) PROVE ABInv'
<1>1. env \in [Node -> Env]
  BY DEF ABInv, TypeOK
<1>2. TypeOK'
  BY <1>1 DEF ABInv, TypeOK, SyncRepo, Node
<1>3. env'["head"] = env["head"] /\ (ok => env'["worker"] = env["head"])
  BY <1>1 DEF SyncRepo, Node
<1>4. HeadFollows'
  BY <1>3 DEF ABInv, HeadFollows, Key, SyncRepo, Trying, OnTrial
<1>5. RanksFollow' /\ Measured'
  BY <1>3 DEF RanksFollow, Measured, SyncRepo
<1> QED BY <1>2, <1>4, <1>5, TrialStep DEF SyncRepo, Trying

(* A restart: the types of what serves, and that it serves .env where no   *)
(* node fell back.                                                         *)
LEMMA RestartFacts ==
  ASSUME TypeOK, NEW ok \in BOOLEAN, NEW fell \in SUBSET Node, Restart(ok, fell)
  PROVE  /\ served' \in [Node -> Env \cup {OnFallback(e) : e \in Env} \cup {Off}]
         /\ copied' \in BOOLEAN /\ (copied' => copied)
         /\ ok /\ copied' => served' = env
<1>1. env \in [Node -> Env] /\ copied \in BOOLEAN
  BY DEF TypeOK
<1>2. copied' \in BOOLEAN /\ (copied' => copied /\ fell = {})
  BY DEF Restart
<1>3. ASSUME NEW n \in Node
      PROVE  env[n] \in Env /\ OnFallback(env[n]) \in {OnFallback(e) : e \in Env}
  BY <1>1
<1>4. served' \in [Node -> Env \cup {OnFallback(e) : e \in Env} \cup {Off}]
  BY <1>3 DEF Restart
<1>5. ASSUME ok, fell = {} PROVE served' = env
  <2>1. served' = [n \in Node |-> env[n]]
    BY <1>5 DEF Restart
  <2> QED BY <1>1, <2>1
<1> QED BY <1>2, <1>4, <1>5

LEMMA BootKeeps ==
  ASSUME ABInv, NEW ok \in BOOLEAN, NEW fell \in SUBSET Node, Boot(ok, fell) PROVE ABInv'
<1>1. /\ served' \in [Node -> Env \cup {OnFallback(e) : e \in Env} \cup {Off}]
      /\ copied' \in BOOLEAN /\ (copied' => copied)
      /\ ok /\ copied' => served' = env
  BY RestartFacts DEF ABInv, Boot
<1>2. TypeOK'
  BY <1>1 DEF ABInv, TypeOK, Boot
<1>3. HeadFollows'
  BY DEF ABInv, HeadFollows, Key, Boot, Trying, OnTrial
<1>4. RanksFollow' /\ Measured'
  BY <1>1 DEF ABInv, RanksFollow, Measured, Boot
<1> QED BY <1>2, <1>3, <1>4, TrialStep DEF Boot, Trying

LEMMA BenchKeeps ==
  ASSUME ABInv, NEW ready \in BOOLEAN, NEW r \in Results, Bench(ready, r) PROVE ABInv'
<1>1. r.soak \in Speed \cup {NoResult}
  BY DEF Results
<1>2. TypeOK'
  BY <1>1 DEF ABInv, TypeOK, Bench
<1>3. HeadFollows'
  BY DEF ABInv, HeadFollows, Key, Bench, Trying, OnTrial
<1>4. RanksFollow' /\ Measured'
  BY <1>1 DEF ABInv, RanksFollow, Measured, Bench
<1> QED BY <1>2, <1>3, <1>4, TrialStep DEF Bench, Trying

(* Where the script goes once a trial has been decided on.                 *)
LEMMA AdvanceFacts ==
  ASSUME TypeOK, Advance
  PROVE  \/ step < 4 /\ step' = step + 1 /\ pc' = "set" /\ step' \in 1 .. 4
         \/ step = 4 /\ step' = step /\ pc' = "final"
BY TrialsFacts DEF TypeOK, Advance

LEMMA KeepKeeps == ASSUME ABInv, Keep PROVE ABInv'
<1> DEFINE soak == ReadSoak
<1>1. step \in 1 .. 4 /\ Key \in Setting /\ Key = Trials[step] /\ TypeOK
  BY TrialsFacts DEF ABInv, TypeOK, Key
<1>2. /\ pc = "decide" /\ best' = soak /\ soak > 0 /\ soak * 100 >= best * (100 + KeepPct)
      /\ kept' = [kept EXCEPT ![Key] = fresh] /\ Advance
      /\ chosen' = chosen \cup {Key}
      /\ UNCHANGED <<env, stock, served, results, runs, clean, fresh, copied, measured>>
  BY DEF Keep, KeepWin, BestAfter
<1>3. soak \in Speed \cup C6Speed /\ (results.soak \in Speed => soak = results.soak)
  BY <1>1, <1>2, SoakRead
<1>4. \/ step < 4 /\ step' = step + 1 /\ pc' = "set" /\ step' \in 1 .. 4
      \/ step = 4 /\ step' = step /\ pc' = "final"
  BY <1>1, <1>2, AdvanceFacts
<1>5. TypeOK'
  <2>1. kept' \in [Setting -> Speed \cup {0, NoResult}]
    BY <1>1, <1>2 DEF TypeOK
  <2> QED BY <1>1, <1>2, <1>3, <1>4, <2>1, TrialsFacts DEF TypeOK
<1>6. /\ \A i \in 1 .. 4 : kept'[Trials[i]] = IF i = step THEN fresh ELSE kept[Trials[i]]
      /\ fresh # 0
  <2>1. fresh # 0
    BY <1>1, ABAssumption DEF TypeOK
  <2> QED BY <1>1, <1>2, <2>1, TrialsFacts DEF TypeOK
<1>7. HeadFollows'
  <2>1. chosen \subseteq Setting /\ \A s \in chosen : env["head"][s] = "trial"
    BY DEF ABInv, TypeOK, HeadFollows
  <2>2. clean => \A s \in Setting :
          env["head"][s] = IF s \in chosen \/ s = Key THEN "trial" ELSE "base"
    BY <1>2 DEF ABInv, HeadFollows, Trying, OnTrial
  <2>3. pc' \notin OnTrial /\ (pc' \in Trying => step' # 1)
    BY <1>1, <1>4 DEF OnTrial, Trying
  <2>4. env["head"][Key] = "trial"
    BY <1>2 DEF ABInv, HeadFollows, OnTrial
  <2> QED BY <1>1, <1>2, <2>1, <2>2, <2>3, <2>4 DEF HeadFollows
<1>8. Untried'
  BY <1>1, <1>2, <1>4, <1>6, TrialsFacts DEF ABInv, Untried, Trying
<1>9. RanksFollow' /\ Measured'
  BY <1>4 DEF RanksFollow, Measured
<1>10. BestIsBest' /\ KeptChainImproves'
  <2> SUFFICES ASSUME measured PROVE BestIsBest' /\ KeptChainImproves'
    BY <1>2 DEF BestIsBest, KeptChainImproves
  <2>1. fresh \in Speed /\ soak = fresh /\ best' = fresh
    BY <1>2, <1>3 DEF ABInv, Measured
  <2>2. fresh \in Nat /\ best \in Nat /\ Baseline \in Nat /\ fresh * 100 >= best * (100 + KeepPct)
    BY <1>1, <1>2, <2>1, ABAssumption DEF TypeOK
  <2>3. /\ best >= Baseline
        /\ \A i \in 1 .. 4 : kept[Trials[i]] \in Speed \cup {0} /\ kept[Trials[i]] <= best
    BY TrialsFacts DEF ABInv, BestIsBest
  <2>4. \A i \in 1 .. 4 : kept[Trials[i]] \in Nat /\ kept[Trials[i]] <= best
    <3>1. \A x \in Speed \cup {0} : x \in Nat
      BY ABAssumption
    <3> QED BY <2>3, <3>1
  <2>5. fresh >= best
    BY <2>2, Improves
  <2>6. fresh * 100 >= Baseline * (100 + KeepPct)
    BY <2>2, <2>3, Improves
  <2>7. \A j \in 1 .. 4 : fresh * 100 >= kept[Trials[j]] * (100 + KeepPct)
    <3> SUFFICES ASSUME NEW j \in 1 .. 4 PROVE fresh * 100 >= kept[Trials[j]] * (100 + KeepPct)
      OBVIOUS
    <3>1. kept[Trials[j]] \in Nat /\ kept[Trials[j]] <= best
      BY <2>4
    <3> QED BY <2>2, <3>1, Improves
  <2>8. BestIsBest'
    <3>1. \A i \in 1 .. 4 : kept'[Trials[i]] \in Speed \cup {0} /\ kept'[Trials[i]] <= fresh
      BY <1>6, <2>1, <2>2, <2>3, <2>4, <2>5
    <3> QED BY <2>1, <2>2, <2>3, <2>5, <3>1, TrialsFacts DEF BestIsBest
  <2>9. KeptChainImproves'
    <3> SUFFICES ASSUME NEW i \in 1 .. 4, kept'[Trials[i]] # 0
                 PROVE  /\ kept'[Trials[i]] * 100 >= Baseline * (100 + KeepPct)
                        /\ \A j \in 1 .. i - 1 : kept'[Trials[j]] # 0 =>
                             kept'[Trials[i]] * 100 >= kept'[Trials[j]] * (100 + KeepPct)
      BY TrialsFacts DEF KeptChainImproves
    <3>1. CASE i = step
      <4>1. \A j \in 1 .. i - 1 : j \in 1 .. 4 /\ kept'[Trials[j]] = kept[Trials[j]]
        BY <1>6, <3>1
      <4> QED BY <1>6, <2>6, <2>7, <3>1, <4>1
    <3>2. CASE i < step
      <4>1. kept'[Trials[i]] = kept[Trials[i]]
            /\ \A j \in 1 .. i - 1 : kept'[Trials[j]] = kept[Trials[j]]
        BY <1>1, <1>6, <3>2
      <4> QED BY <3>2, <4>1, TrialsFacts DEF ABInv, KeptChainImproves
    <3>3. CASE i > step
      BY <1>1, <1>2, <1>6, <3>3, TrialsFacts DEF ABInv, Untried, Trying
    <3> QED BY <1>1, <3>1, <3>2, <3>3
  <2> QED BY <2>8, <2>9
<1> QED BY <1>5, <1>7, <1>8, <1>9, <1>10 DEF ABInv

LEMMA DropKeeps == ASSUME ABInv, Drop PROVE ABInv'
<1>1. step \in 1 .. 4 /\ Key \in Setting /\ Key = Trials[step] /\ TypeOK /\ env \in [Node -> Env]
      /\ Reset \in Value
  BY TrialsFacts DEF ABInv, TypeOK, Key, Reset, Value
<1>2. /\ pc = "decide" /\ env' = [env EXCEPT !["head"][Key] = Reset] /\ Advance
      /\ chosen' = IF Reset = "base" THEN chosen \ {Key} ELSE chosen
      /\ UNCHANGED <<stock, served, results, best, runs, clean, kept, fresh, copied, measured>>
  BY DEF Drop
<1>3. \/ step < 4 /\ step' = step + 1 /\ pc' = "set" /\ step' \in 1 .. 4
      \/ step = 4 /\ step' = step /\ pc' = "final"
  BY <1>1, <1>2, AdvanceFacts
<1>4. TypeOK'
  <2>1. env' \in [Node -> Env]
    BY <1>1, <1>2 DEF Env, Node
  <2> QED BY <1>1, <1>2, <1>3, <2>1, TrialsFacts DEF TypeOK
<1>5. \A s \in Setting : env'["head"][s] = IF s = Key THEN Reset ELSE env["head"][s]
  BY <1>1, <1>2 DEF Env, Node
<1>6. Reset = "base" \/ (Reset = "trial" /\ step = 1 /\ Key = "IMAGE" /\ stock = "trial")
  BY <1>1, TrialsFacts DEF Reset, Value
<1>7. HeadFollows'
  <2>1. chosen \subseteq Setting /\ \A s \in chosen : env["head"][s] = "trial"
    BY DEF ABInv, TypeOK, HeadFollows
  <2>2. clean => /\ \A s \in Setting :
                      env["head"][s] = IF s \in chosen \/ s = Key THEN "trial" ELSE "base"
                 /\ step = 1 => stock = IF "IMAGE" \in chosen THEN "trial" ELSE "base"
    BY <1>2 DEF ABInv, HeadFollows, Trying, OnTrial
  <2>3. pc' \notin OnTrial /\ (pc' \in Trying => step' # 1)
    BY <1>1, <1>3 DEF OnTrial, Trying
  <2>4. \A s \in chosen' : env'["head"][s] = "trial"
    BY <1>2, <1>5, <1>6, <2>1
  <2>5. clean => \A s \in Setting : env'["head"][s] = IF s \in chosen' THEN "trial" ELSE "base"
    BY <1>1, <1>2, <1>5, <1>6, <2>1, <2>2
  <2> QED BY <1>2, <2>3, <2>4, <2>5 DEF HeadFollows
<1>8. Untried'
  BY <1>1, <1>2, <1>3, TrialsFacts DEF ABInv, Untried, Trying
<1>9. RanksFollow' /\ Measured'
  BY <1>3 DEF RanksFollow, Measured
<1>10. BestIsBest' /\ KeptChainImproves'
  BY <1>2 DEF ABInv, BestIsBest, KeptChainImproves
<1> QED BY <1>4, <1>7, <1>8, <1>9, <1>10 DEF ABInv

LEMMA FinalKeeps ==
  ASSUME ABInv, NEW ok \in BOOLEAN, NEW fell \in SUBSET Node, Final(ok, fell) PROVE ABInv'
<1>1. /\ served' \in [Node -> Env \cup {OnFallback(e) : e \in Env} \cup {Off}]
      /\ copied' \in BOOLEAN
  BY RestartFacts DEF ABInv, Final
<1>2. TypeOK'
  BY <1>1 DEF ABInv, TypeOK, Final
<1>3. HeadFollows' /\ RanksFollow' /\ Measured'
  BY DEF ABInv, HeadFollows, RanksFollow, Measured, Final, Trying, OnTrial
<1> QED BY <1>2, <1>3, TrialStep DEF Final, Trying

LEMMA KilledKeeps == ASSUME ABInv, Killed PROVE ABInv'
<1>1. TypeOK'
  BY DEF ABInv, TypeOK, Killed, ghosts
<1>2. HeadFollows' /\ RanksFollow' /\ Measured'
  BY DEF ABInv, HeadFollows, RanksFollow, Measured, Killed, ghosts, Trying, OnTrial
<1> QED BY <1>1, <1>2, TrialStep DEF Killed, ghosts, Trying

LEMMA RunAgainKeeps == ASSUME ABInv, RunAgain PROVE ABInv'
<1>1. env \in [Node -> Env] /\ env["head"] \in [Setting -> Value] /\ "IMAGE" \in Setting
      /\ chosen \subseteq Setting
  BY TrialsFacts DEF ABInv, TypeOK, Node, Env
<1>2. stock' \in Value /\ runs' \in 1 .. MaxRuns
  <2>1. runs \in 1 .. MaxRuns /\ MaxRuns \in Nat /\ runs < MaxRuns /\ runs' = runs + 1
    BY ABAssumption DEF ABInv, TypeOK, RunAgain
  <2>2. runs' \in 1 .. MaxRuns
    BY <2>1
  <2> QED BY <1>1, <2>2 DEF RunAgain
<1>3. TypeOK'
  <2>1. results' \in Results
    BY DEF RunAgain, NoResults, Results
  <2>2. best' \in {Baseline} \cup Speed \cup C6Speed /\ step' \in DOMAIN Trials
    BY TrialsFacts DEF RunAgain
  <2>3. clean' \in BOOLEAN /\ kept' \in [Setting -> Speed \cup {0, NoResult}]
    BY DEF RunAgain
  <2>4. /\ fresh' \in Speed \cup {NoResult} /\ copied' \in BOOLEAN /\ measured' \in BOOLEAN
        /\ pc' \in {"prepare"}
    BY DEF RunAgain
  <2>5. env' = env /\ served' = served /\ chosen' = chosen
    BY DEF RunAgain
  <2> QED BY <1>2, <2>1, <2>2, <2>3, <2>4, <2>5 DEF ABInv, TypeOK
<1>4. HeadFollows'
  BY <1>1 DEF ABInv, HeadFollows, RunAgain, OnTrial, Value
<1>5. \A i \in DOMAIN Trials : kept'[Trials[i]] = 0
  BY TrialsFacts DEF RunAgain
<1>6. BestIsBest' /\ KeptChainImproves'
  BY <1>5, ABAssumption DEF BestIsBest, KeptChainImproves, RunAgain
<1> QED BY <1>3, <1>4, <1>5, <1>6 DEF ABInv, Untried, RanksFollow, Measured, RunAgain

LEMMA NextABInv == ABInv /\ [Next]_vars => ABInv'
<1> SUFFICES ASSUME ABInv, [Next]_vars PROVE ABInv'
  OBVIOUS
<1>1. CASE UNCHANGED vars
  <2>1. TypeOK' /\ HeadFollows' /\ RanksFollow' /\ Measured'
    BY <1>1 DEF vars, ABInv, TypeOK, HeadFollows, Key, RanksFollow, Measured
  <2> QED BY <1>1, <2>1, TrialStep DEF vars
<1> QED BY <1>1, PrepareKeeps, SetTrialKeeps, SyncKeeps, BootKeeps, BenchKeeps, KeepKeeps,
           DropKeeps, FinalKeeps, KilledKeeps, RunAgainKeeps DEF Next

LEMMA ABInvIsolates == ABInv => TrialIsolated
<1> SUFFICES ASSUME ABInv, pc = "decide", clean, copied, NEW n \in Node, NEW s \in Setting
             PROVE  served[n][s] = IF s = Key \/ s \in chosen THEN "trial" ELSE "base"
  BY DEF TrialIsolated
<1>1. served[n][s] = env["head"][s]
  BY DEF ABInv, RanksFollow, Node
<1> QED BY <1>1 DEF ABInv, HeadFollows, Trying, OnTrial
-----------------------------------------------------------------------------
(* Type correctness of unattended-onward.sh, killed anywhere.              *)
THEOREM ABTypeOK == Spec => []TypeOK
<1>1. ABInv => TypeOK
  BY DEF ABInv
<1> QED BY InitABInv, NextABInv, <1>1, PTL DEF Spec

(* For any speeds, any threshold and any number of runs, killed or not: a  *)
(* run that starts from no trial value an ended one left decides a trial   *)
(* whose copy went through with both ranks running exactly the trial and   *)
(* what was chosen so far (set_env, boot_and_bench).                       *)
THEOREM TrialsAreIsolated == Spec => []TrialIsolated
BY InitABInv, NextABInv, ABInvIsolates, PTL DEF Spec

(* And what is kept is a chain of improvements by KEEP_PCT over the        *)
(* baseline and everything kept before (keep_win, BEST_SOAK).              *)
THEOREM KeptTrialsImprove == Spec => []KeptChainImproves
<1>1. ABInv => KeptChainImproves
  BY DEF ABInv
<1> QED BY InitABInv, NextABInv, <1>1, PTL DEF Spec
=============================================================================
