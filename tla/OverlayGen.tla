------------------------------ MODULE OverlayGen ------------------------------
(***************************************************************************)
(* docs/patch_sm121_mla.py as the launcher runs it: at every launch with   *)
(* GLM53_SM121_MLA=1 a node generates six patched vLLM files in a work     *)
(* directory it keeps, and mounts them if the script exits with 0.  The    *)
(* pristine files are copied out of the image if they are not there yet,   *)
(* all six are patched in memory, written one by one and then verified.    *)
(* Every launch may name another image, and may be killed at any moment,   *)
(* the file in hand then being cut short.                                  *)
(*                                                                         *)
(* A text is abstracted to where it comes from and to what the patch finds *)
(* in it: "stock" (every anchor once), "drift" (some anchor not once),     *)
(* "ported" (all changes made), "unmarked" (the dense-MLP fix made without *)
(* its marker), "half" (one of the indexer's two trims made); or a text    *)
(* cut short: "cut" before an anchor, "torn" after them all and inside a   *)
(* statement, "short" after them all and between two statements.           *)
(***************************************************************************)
EXTENDS Integers, Sequences, FiniteSets

CONSTANTS
  ImageFiles,  (* version -> file -> what the image's file is like         *)
  BaseKinds,   (* what PATCH_KPOOL_HOST may be like                        *)
  MaxLaunches  (* bound: launches                                          *)

Files == <<"sm120", "sparse", "cuda", "indexer", "model", "mtp">>
FileSet == {Files[i] : i \in DOMAIN Files}
Versions == DOMAIN ImageFiles
Absent == [from |-> "nowhere", kind |-> "absent"]
Text(from, kind) == [from |-> from, kind |-> kind]

ASSUME OverlayAssumption ==
  /\ MaxLaunches \in Nat
  /\ \A v \in Versions : DOMAIN ImageFiles[v] = FileSet

VARIABLES
  image,     (* the version IMAGE names in this launch                     *)
  pristine,  (* file -> pristine_* in the work directory                   *)
  out,       (* file -> the patched file in the work directory             *)
  run,       (* the script: pc, at: the next file, base: its base indexer  *)
  texts,     (* the patched texts it is writing                            *)
  before,    (* ghost: out when the script began                           *)
  launches,
  exit,      (* how the script ended: "ok", "docker", "anchor", "verify",  *)
             (* "killed"; "none" while it runs                             *)
  mounted    (* file -> what the last launch mounted                       *)

overlayVars == <<image, pristine, out, run, texts, before, launches, exit, mounted>>
Nowhere == [f \in FileSet |-> Absent]
Idle == [pc |-> "idle", at |-> 1, base |-> "none"]
End(e) == run' = Idle /\ exit' = e /\ texts' = Nowhere
Next1 == [run EXCEPT !.at = @ + 1]
Here == Files[run.at]
-----------------------------------------------------------------------------
Launch(v, base) ==
  /\ run.pc = "idle" /\ launches < MaxLaunches
  /\ image' = v
  /\ run' = [pc |-> "extract", at |-> 1, base |-> base]
  /\ launches' = launches + 1 /\ before' = out /\ exit' = "none" /\ mounted' = Nowhere
  /\ UNCHANGED <<pristine, out, texts>>

(* extract_pristine: docker create, then docker cp of what is missing.     *)
DockerFails ==
  /\ run.pc = "extract" /\ (run.at = 1 \/ pristine[Here] = Absent)
  /\ End("docker")
  /\ UNCHANGED <<image, pristine, out, before, launches, mounted>>

Extract ==
  /\ run.pc = "extract"
  /\ pristine' = IF pristine[Here] # Absent THEN pristine
                 ELSE [pristine EXCEPT ![Here] = Text(image, ImageFiles[image][Here])]
  /\ run' = IF run.at < Len(Files) THEN Next1 ELSE [run EXCEPT !.pc = "patch", !.at = 1]
  /\ UNCHANGED <<image, out, texts, before, launches, exit, mounted>>

(* replace_once finds every anchor of a patch_* function, or is not asked: *)
(* marked texts, and a model with the fix, are left as they are.           *)
Anchored(t) == t.kind \notin {"drift", "cut"}
Patched(t)  == IF t.kind = "stock" THEN Text(t.from, "ported") ELSE t

(* The indexer to patch: the base's, if it is one, or the pristine one.    *)
Source(f) == IF f = "indexer" /\ run.base \notin {"none", "foreign"}
             THEN Text("base", run.base) ELSE pristine[f]

(* mutant: every file is written as soon as it is patched.                 *)
PatchAndWrite ==
  /\ run.pc = "patch"
  /\ \/ /\ \E n \in DOMAIN Files :
             /\ ~ Anchored(Source(Files[n]))
             /\ out' = [f \in FileSet |-> IF \E i \in 1 .. n - 1 : Files[i] = f
                                          THEN Patched(Source(f)) ELSE out[f]]
        /\ End("anchor")
        /\ UNCHANGED <<image, pristine, before, launches, mounted>>
     \/ /\ \A f \in FileSet : Anchored(Source(f))
        /\ texts' = [f \in FileSet |-> Patched(Source(f))]
        /\ run' = [run EXCEPT !.pc = "write", !.at = 1]
        /\ UNCHANGED <<image, pristine, out, before, launches, exit, mounted>>

Patch ==
  /\ run.pc = "patch"
  /\ \/ /\ \E f \in FileSet : ~ Anchored(Source(f))
        /\ End("anchor")
        /\ UNCHANGED <<image, pristine, out, before, launches, mounted>>
     \/ /\ \A f \in FileSet : Anchored(Source(f))
        /\ texts' = [f \in FileSet |-> Patched(Source(f))]
        /\ run' = [run EXCEPT !.pc = "write", !.at = 1]
        /\ UNCHANGED <<image, pristine, out, before, launches, exit, mounted>>

Write ==
  /\ run.pc = "write"
  /\ out' = [out EXCEPT ![Here] = texts[Here]]
  /\ run' = IF run.at < Len(Files) THEN Next1 ELSE [run EXCEPT !.pc = "verify", !.at = 1]
  /\ UNCHANGED <<image, pristine, texts, before, launches, exit, mounted>>

(* verify: every change is there, in files that compile.                   *)
Changed == {"ported", "torn", "short"}
VerifiedUncompiled == \A f \in FileSet : out[f].kind \in Changed (* mutant *)
Verified == \A f \in FileSet : out[f].kind \in Changed \ {"torn"}

Verify ==
  /\ run.pc = "verify"
  /\ End(IF Verified THEN "ok" ELSE "verify")
  /\ mounted' = IF Verified THEN out ELSE mounted
  /\ UNCHANGED <<image, pristine, out, before, launches>>

CutKinds(kind) == {"cut"} \cup (IF kind \in {"stock", "ported"} THEN {"torn", "short"} ELSE {})

(* Killed, the file in hand cut short or not yet there.                    *)
Killed ==
  /\ run.pc # "idle" /\ End("killed")
  /\ \/ UNCHANGED <<pristine, out>>
     \/ /\ run.pc = "extract" /\ pristine[Here] = Absent
        /\ \E cut \in CutKinds(ImageFiles[image][Here]) :
             pristine' = [pristine EXCEPT ![Here] = Text(image, cut)]
        /\ UNCHANGED out
     \/ /\ run.pc = "write"
        /\ out' = [out EXCEPT ![Here] = Text(texts[Here].from, "cut")] /\ UNCHANGED pristine
  /\ UNCHANGED <<image, before, launches, mounted>>

OverlayInit ==
  /\ image \in Versions
  /\ pristine = Nowhere /\ out = Nowhere /\ texts = Nowhere /\ before = Nowhere
  /\ mounted = Nowhere /\ run = Idle /\ launches = 0 /\ exit = "none"

OverlayNext ==
  \/ \E v \in Versions, b \in BaseKinds : Launch(v, b)
  \/ DockerFails \/ Extract \/ Patch \/ Write \/ Verify \/ Killed
OverlaySpec == OverlayInit /\ [][OverlayNext]_overlayVars
-----------------------------------------------------------------------------
(* What a node mounts is six files with all their changes, which compile,  *)
(* made by this launch from the pristine files it has and the base indexer *)
(* it was given, whatever killed launches left in the work directory.  (A  *)
(* pristine file cut between two statements after its last anchor passes:  *)
(* verify has nothing to know it by.)                                      *)
MountedPatched ==
  mounted # Nowhere => \A f \in FileSet :
    /\ mounted[f].kind \in {"ported", "short"}
    /\ mounted[f].from \in {pristine[f].from} \cup (IF f = "indexer" THEN {"base"} ELSE {})

(* A launch stopped by docker or by an anchor leaves the work directory's  *)
(* patched files as they were.                                             *)
AnchorErrorWritesNothing == exit \in {"docker", "anchor"} => out = before

(* The launcher says of the overlay: "Generated per node from the image    *)
(* (fail-closed: any diverged anchor ABORTS the boot".  What is mounted    *)
(* would then be made from the image that is launched.                     *)
MountedFromImage ==
  mounted # Nowhere => \A f \in FileSet : mounted[f].from \in {image, "base"}
=============================================================================
