----------------------------- MODULE UnattendedAB -----------------------------
(***************************************************************************)
(* docker/unattended-onward.sh: the unattended A/B of the cluster.  After  *)
(* the native image is built, committed and shipped, four settings of .env *)
(* are tried one after the other: set the trial value, copy the checkout   *)
(* to the worker, restart the cluster, bench, keep the setting if its C1   *)
(* soak beats the best one by KEEP_PCT and P1 passes, else put it back.    *)
(* Any step may fail (set -e ends the script where a restart does), a kill *)
(* may end it anywhere, and it may be run again from the .env it left.     *)
(*                                                                         *)
(* A setting has its "base" and its "trial" value.  Of a label's results   *)
(* only what the decision reads is kept: soak.json, c6.json and p1.txt.    *)
(***************************************************************************)
EXTENDS Integers, Sequences

CONSTANTS
  Speed,      (* tok/s a soak may measure                                  *)
  C6Speed,    (* aggregate tok/s of six requests                           *)
  Baseline,   (* BASELINE_SOAK                                             *)
  KeepPct,    (* KEEP_PCT                                                  *)
  NoResult,   (* a file without the number                                 *)
  MaxRuns     (* bound: runs of the script                                 *)

ASSUME ABAssumption ==
  /\ Speed \subseteq Nat \ {0} /\ C6Speed \subseteq Nat \ {0}
  /\ Baseline \in Nat \ {0} /\ KeepPct \in Nat
  /\ NoResult \notin Nat /\ MaxRuns \in Nat \ {0}

(* In the order they are tried.                                            *)
Trials  == <<"IMAGE", "DISABLE_FLASHINFER_AUTOTUNE", "APPLY_GATE_LINEAR", "ENFORCE_EAGER">>
Setting == {Trials[i] : i \in DOMAIN Trials}
Value   == {"base", "trial"}
Env     == [Setting -> Value]
Node    == {"head", "worker"}
Off     == [s \in Setting |-> "off"]    (* a rank that does not serve      *)

(* A .env on IMAGE_FALLBACK, which a launch without the image takes.       *)
OnFallback(e) == [e EXCEPT !.IMAGE = "fallback"]

Results == [soak : Speed \cup {NoResult}, c6 : C6Speed \cup {NoResult}, p1 : BOOLEAN]

VARIABLES
  env,      (* node -> its .env                                            *)
  stock,    (* STOCK_IMAGE                                                 *)
  served,   (* node -> the .env its rank was started from                  *)
  results,  (* benchmarks/<label> of the trial                             *)
  best,     (* BEST_SOAK                                                   *)
  step,     (* the trial                                                   *)
  pc,
  runs,
  chosen,   (* ghost: settings whose trial value the operator chose or a   *)
            (* run kept                                                    *)
  clean,    (* ghost: .env held no other trial value when the run started  *)
  kept,     (* ghost: setting -> soak its kept trial measured, 0 if not    *)
            (* kept, NoResult if kept without one                          *)
  fresh,    (* ghost: this trial's soak                                    *)
  copied,   (* ghost: this trial's copy went through and neither node fell *)
            (* back to another image                                       *)
  measured  (* ghost: every soak of this run was measured                  *)

vars == <<env, stock, served, results, best, step, pc, runs,
          chosen, clean, kept, fresh, copied, measured>>
ghosts == <<chosen, clean, kept, fresh, copied, measured>>

Key == Trials[step]
-----------------------------------------------------------------------------
(* wait_compile's verdict is only logged; install_commit and ship_image    *)
(* end the script where they fail.                                         *)
Prepare(ok) ==
  /\ pc = "prepare"
  /\ pc' = IF ok THEN "set" ELSE "ended"
  /\ UNCHANGED <<env, stock, served, results, best, step, runs, ghosts>>

(* What an earlier run left under the label is still there.                *)
SetTrial(old) ==
  /\ pc = "set"
  /\ env' = [env EXCEPT !["head"][Key] = "trial"]
  /\ results' = old /\ fresh' = NoResult
  /\ pc' = "sync"
  /\ UNCHANGED <<stock, served, best, step, runs, chosen, clean, kept, copied, measured>>

SyncRepo(ok) ==
  /\ pc = "sync"
  /\ env' = IF ok THEN [env EXCEPT !["worker"] = env["head"]] ELSE env
  /\ copied' = ok
  /\ pc' = "boot"
  /\ UNCHANGED <<stock, served, results, best, step, runs, chosen, clean, kept, fresh, measured>>

(* start.sh restart with SKIP_SYNC=1: each node launches from its own      *)
(* .env, or falls back to another image than that names.                   *)
Restart(ok, fell) ==
  /\ served' = IF ok THEN [n \in Node |-> IF n \in fell THEN OnFallback(env[n]) ELSE env[n]]
                     ELSE [n \in Node |-> Off]
  /\ copied' = (copied /\ fell = {})

Boot(ok, fell) ==
  /\ pc = "boot" /\ Restart(ok, fell)
  /\ pc' = IF ok THEN "bench" ELSE "ended"
  /\ UNCHANGED <<env, stock, results, best, step, runs, chosen, clean, kept, fresh, measured>>

(* bench_config.sh: an engine that is not ready leaves the files alone;    *)
(* otherwise each is written, with its number or without.                  *)
Bench(ready, r) ==
  /\ pc = "bench"
  /\ results' = IF ready THEN r ELSE results
  /\ fresh' = IF ready THEN r.soak ELSE NoResult
  /\ measured' = (measured /\ fresh' # NoResult)
  /\ pc' = "decide"
  /\ UNCHANGED <<env, stock, served, best, step, runs, chosen, clean, kept, copied>>

(* `echo "$soak $c6"` and `read -r SOAK C6`: leading blanks are dropped.   *)
ReadSoak ==
  CASE results.soak # NoResult -> results.soak
    [] results.soak = NoResult /\ results.c6 # NoResult -> results.c6
    [] OTHER -> 0

KeepWin(soak) == soak > 0 /\ soak * 100 >= best * (100 + KeepPct)

(* mutant: the stock image is not put back.                                *)
ResetNotImage == IF Key = "IMAGE" THEN env["head"].IMAGE ELSE "base"

Reset == IF Key = "IMAGE" THEN stock ELSE "base"

(* mutant: a later trial is still compared with the baseline.              *)
BestUnmoved(soak) == best

BestAfter(soak) == soak

(* mutant: the trial after the last one.                                   *)
AdvancePastLast == step' = step + 1 /\ pc' = IF step < Len(Trials) THEN "set" ELSE "final"

Advance == IF step < Len(Trials) THEN step' = step + 1 /\ pc' = "set"
                                 ELSE step' = step /\ pc' = "final"

Keep ==
  /\ pc = "decide" /\ results.p1 /\ KeepWin(ReadSoak)
  /\ best' = BestAfter(ReadSoak)
  /\ kept' = [kept EXCEPT ![Key] = fresh] /\ chosen' = chosen \cup {Key}
  /\ Advance
  /\ UNCHANGED <<env, stock, served, results, runs, clean, fresh, copied, measured>>

Drop ==
  /\ pc = "decide" /\ ~(results.p1 /\ KeepWin(ReadSoak))
  /\ env' = [env EXCEPT !["head"][Key] = Reset]
  /\ chosen' = IF Reset = "base" THEN chosen \ {Key} ELSE chosen
  /\ Advance
  /\ UNCHANGED <<stock, served, results, best, runs, clean, kept, fresh, copied, measured>>

(* The last restart, without a copy to the worker; its failure is ignored. *)
Final(ok, fell) ==
  /\ pc = "final" /\ Restart(ok, fell)
  /\ pc' = "done"
  /\ UNCHANGED <<env, stock, results, best, step, runs, chosen, clean, kept, fresh, measured>>

Killed ==
  /\ pc \notin {"done", "ended", "killed"}
  /\ pc' = "killed"
  /\ UNCHANGED <<env, stock, served, results, best, step, runs, ghosts>>

-----------------------------------------------------------------------------
NoResults == [soak |-> NoResult, c6 |-> NoResult, p1 |-> FALSE]

(* The script is run again: whatever IMAGE .env has is the stock image.    *)
RunAgain ==
  /\ pc \in {"done", "ended", "killed"} /\ runs < MaxRuns
  /\ stock' = env["head"].IMAGE
  /\ results' = NoResults /\ best' = Baseline /\ step' = 1 /\ pc' = "prepare" /\ runs' = runs + 1
  /\ clean' = \A s \in Setting : env["head"][s] = "trial" => s \in chosen
  /\ kept' = [s \in Setting |-> 0] /\ fresh' = NoResult /\ copied' = FALSE /\ measured' = TRUE
  /\ UNCHANGED <<env, served, chosen>>

(* .env is as the operator left it.                                        *)
Init ==
  /\ env \in {[n \in Node |-> e] : e \in Env}
  /\ stock = env["head"].IMAGE
  /\ served = [n \in Node |-> Off]
  /\ results = NoResults /\ best = Baseline /\ step = 1 /\ pc = "prepare" /\ runs = 1
  /\ chosen = {s \in Setting : env["head"][s] = "trial"} /\ clean = TRUE
  /\ kept = [s \in Setting |-> 0] /\ fresh = NoResult /\ copied = FALSE /\ measured = TRUE

Next ==
  \/ \E ok \in BOOLEAN : Prepare(ok) \/ SyncRepo(ok)
  \/ \E ok \in BOOLEAN, fell \in SUBSET Node : Boot(ok, fell) \/ Final(ok, fell)
  \/ \E old \in Results : SetTrial(old)
  \/ \E ready \in BOOLEAN, r \in Results : Bench(ready, r)
  \/ Keep
  \/ Drop
  \/ Killed
  \/ RunAgain

Spec == Init /\ [][Next]_vars

-----------------------------------------------------------------------------
TypeOK ==
  /\ env \in [Node -> Env] /\ stock \in Value
  /\ served \in [Node -> Env \cup {OnFallback(e) : e \in Env} \cup {Off}]
  /\ results \in Results
  /\ best \in {Baseline} \cup Speed \cup C6Speed
  /\ step \in DOMAIN Trials /\ runs \in 1 .. MaxRuns
  /\ pc \in {"prepare", "set", "sync", "boot", "bench", "decide", "final", "done", "ended", "killed"}
  /\ chosen \subseteq Setting /\ clean \in BOOLEAN
  /\ kept \in [Setting -> Speed \cup {0, NoResult}]
  /\ fresh \in Speed \cup {NoResult} /\ copied \in BOOLEAN /\ measured \in BOOLEAN

(* A run that did not start from a trial value an ended run left decides   *)
(* each trial on a measurement of both ranks running the trial, the        *)
(* settings chosen so far, and the base of all others.                     *)
TrialIsolated ==
  pc = "decide" /\ clean /\ copied => \A n \in Node, s \in Setting :
    served[n][s] = IF s = Key \/ s \in chosen THEN "trial" ELSE "base"

(* Settings are kept along a chain of improvements: each kept trial beats  *)
(* the baseline and every trial kept before it by KEEP_PCT.                *)
KeptChainImproves ==
  measured => \A i \in DOMAIN Trials : kept[Trials[i]] # 0 =>
    /\ kept[Trials[i]] * 100 >= Baseline * (100 + KeepPct)
    /\ \A j \in 1 .. i - 1 : kept[Trials[j]] # 0 =>
         kept[Trials[i]] * 100 >= kept[Trials[j]] * (100 + KeepPct)

(* "Keep only measured wins (>=2.5% soak C1 vs current best, P1 must       *)
(* pass)": no trial is kept without a soak of its own; and once a run has  *)
(* decided every trial, .env holds no trial value that was not chosen,     *)
(* whatever earlier runs left there, nor does a rank serve one if the      *)
(* last copy went through and no node fell back to another image.          *)
KeepsOnlyMeasuredWins ==
  /\ \A s \in Setting : kept[s] # NoResult
  /\ pc = "done" => \A s \in Setting \ chosen :
       /\ env["head"][s] = "base"
       /\ copied => \A n \in Node : served[n][s] # "trial"
=============================================================================
