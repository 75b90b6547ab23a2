------------------------------- MODULE OwnedScratch -------------------------------
(***************************************************************************)
(* create_owned_scratch_context (B4S, in                                   *)
(* integration/etabs_scratch_lifecycle.py): the file of the active model   *)
(* is copied, the copy is compared with the source and opened in ETABS,    *)
(* and the source is compared with what it was.  What follows works on the *)
(* copy and calls it the owned scratch.                                    *)
(*                                                                         *)
(* Files are known by their bytes, in two halves.  A snapshot and a copy   *)
(* read the source from its beginning to its end: if somebody writes it in *)
(* between, what was read has halves of two versions.  A digest stands for *)
(* the bytes.  Sizes are left out: they are compared beside the digests,   *)
(* which can only refuse more.                                             *)
(***************************************************************************)
EXTENDS Naturals

CONSTANTS
  Versions,  \* of the source file
  MaxWrites  \* bound: what others do during the creation

VARIABLES
  active,    \* the model open in ETABS
  gateway,   \* whether the session still serves calls
  source,    \* the bytes of the source file
  writes,    \* what others did so far
  at,        \* where the creation stands
  head,      \* the first half of the source, of the read of it under way
  pre,       \* the digest of source_pre
  scratch,   \* the bytes of the scratch file
  baseline,  \* the digest of source_post
  opening,   \* whether a hung OpenFile may still open the scratch
  cleanup    \* how the creation ended

creation == <<at, head, pre, scratch, baseline, cleanup>>
vars == <<active, gateway, source, writes, creation, opening>>

Bytes == [head : Versions, tail : Versions]
Whole(v) == [head |-> v, tail |-> v]
Absent == Whole("absent")
NoBytes == Whole("none")

Places == {"identity", "pre_begin", "pre_end", "copy_begin", "copy_end", "compare",
           "open", "readback", "post_begin", "post_end", "ended"}

\* "issued", or the cleanup status of the error; an exception that _failure did
\* not build carries none.
Endings == {"none", "issued", "NOT_CREATED", "PRESERVED_FOR_EVIDENCE", "unreported"}

Init ==
  /\ active = "other"
  /\ gateway = "serving"
  /\ source \in {Whole(v) : v \in Versions}
  /\ writes = 0
  /\ at = "identity"
  /\ head = "none"
  /\ pre = NoBytes
  /\ scratch = Absent
  /\ baseline = NoBytes
  /\ opening = FALSE
  /\ cleanup = "none"

--------------------------------------------------------------------------------
Answer == IF gateway = "serving" THEN {"ok", "failed", "hung"} ELSE {"failed"}

After(answer) == gateway' = IF answer = "hung" THEN "failed" ELSE gateway

Goto(p) == at' = p /\ UNCHANGED cleanup

End(how) == at' = "ended" /\ cleanup' = how

\* _failure given the path of the scratch looks whether it exists.
FailWithPath == End(IF scratch = Absent THEN "NOT_CREATED" ELSE "PRESERVED_FOR_EVIDENCE")

\* A read of the source begins if it is there, and ends with the half it has then.
ReadBegins == source # Absent /\ head' = source.head
Read == [head |-> head, tail |-> source.tail]

\* The active model must be the source of the acquisition context.
Identity ==
  /\ at = "identity"
  /\ \E answer \in Answer :
       /\ After(answer)
       /\ IF answer = "ok" /\ active = "other" THEN Goto("pre_begin") ELSE End("NOT_CREATED")
  /\ UNCHANGED <<active, source, writes, head, pre, scratch, baseline, opening>>

\* capture_physical_file_snapshot of the source: the file is looked for, sized
\* and hashed; any of these may raise an OSError, which nothing handles.
PreBegin ==
  /\ at = "pre_begin"
  /\ \/ source = Absent /\ End("NOT_CREATED") /\ UNCHANGED head
     \/ ReadBegins /\ Goto("pre_end")
     \/ End("unreported") /\ UNCHANGED head
  /\ UNCHANGED <<active, gateway, source, writes, pre, scratch, baseline, opening>>

PreEnd ==
  /\ at = "pre_end"
  /\ \/ source # Absent /\ pre' = Read /\ Goto("copy_begin")
     \/ End("unreported") /\ UNCHANGED pre
  /\ UNCHANGED <<active, gateway, source, writes, head, scratch, baseline, opening>>

\* shutil.copy2 to a name of its own.  It may fail before or after the file is there.
CopyBegin ==
  /\ at = "copy_begin"
  /\ \/ ReadBegins /\ scratch' = NoBytes /\ Goto("copy_end")
     \/ FailWithPath /\ UNCHANGED <<head, scratch>>
  /\ UNCHANGED <<active, gateway, source, writes, pre, baseline, opening>>

\* Mutant: a copy that broke off is taken for not created.
CopyEndForgotten ==
  /\ at = "copy_end"
  /\ \/ source # Absent /\ scratch' = Read /\ Goto("compare")
     \/ End("NOT_CREATED") /\ UNCHANGED scratch
  /\ UNCHANGED <<active, gateway, source, writes, head, pre, baseline, opening>>

CopyEnd ==
  /\ at = "copy_end"
  /\ \/ source # Absent /\ scratch' = Read /\ Goto("compare")
     \/ FailWithPath /\ UNCHANGED scratch
  /\ UNCHANGED <<active, gateway, source, writes, head, pre, baseline, opening>>

\* The copy, which nobody else knows of, is hashed and compared.
Compare ==
  /\ at = "compare"
  /\ \/ IF scratch = pre THEN Goto("open") ELSE FailWithPath
     \/ End("unreported")
  /\ UNCHANGED <<active, gateway, source, writes, head, pre, scratch, baseline, opening>>

\* File.OpenFile.  Whatever it answers, ETABS may have opened the scratch; if it
\* hangs, ETABS may open it later.
OpenFile ==
  /\ at = "open"
  /\ \E answer \in Answer :
       /\ After(answer)
       /\ active' \in IF gateway = "serving" THEN {active, "scratch"} ELSE {active}
       /\ opening' = (answer = "hung")
       /\ IF answer = "ok" THEN Goto("readback") ELSE FailWithPath
  /\ UNCHANGED <<source, writes, head, pre, scratch, baseline>>

Readback ==
  /\ at = "readback"
  /\ \E answer \in Answer :
       /\ After(answer)
       /\ IF answer = "ok" /\ active = "scratch" THEN Goto("post_begin") ELSE FailWithPath
  /\ UNCHANGED <<active, source, writes, head, pre, scratch, baseline, opening>>

PostBegin ==
  /\ at = "post_begin"
  /\ \/ source = Absent /\ FailWithPath /\ UNCHANGED head
     \/ ReadBegins /\ Goto("post_end")
     \/ End("unreported") /\ UNCHANGED head
  /\ UNCHANGED <<active, gateway, source, writes, pre, scratch, baseline, opening>>

\* Mutant: the source is not compared with what it was.
PostUncompared ==
  /\ at = "post_end"
  /\ source # Absent
  /\ baseline' = Read
  /\ End("issued")
  /\ UNCHANGED <<active, gateway, source, writes, head, pre, scratch, opening>>

\* The source has the digest of before: the owned scratch is issued.
PostEnd ==
  /\ at = "post_end"
  /\ \/ /\ source # Absent
        /\ baseline' = Read
        /\ IF baseline' = pre THEN End("issued") ELSE FailWithPath
     \/ End("unreported") /\ UNCHANGED baseline
  /\ UNCHANGED <<active, gateway, source, writes, head, pre, scratch, opening>>

Creation ==
  \/ Identity \/ PreBegin \/ PreEnd \/ CopyBegin \/ CopyEnd \/ Compare
  \/ OpenFile \/ Readback \/ PostBegin \/ PostEnd

--------------------------------------------------------------------------------
(* Around the creation.                                                    *)

LateOpen ==
  /\ opening
  /\ opening' = FALSE
  /\ active' = "scratch"
  /\ UNCHANGED <<gateway, source, writes, creation>>

\* Somebody writes or rewrites the source file, or the operator opens another
\* model that is there.
OthersMove ==
  /\ at # "ended"
  /\ writes < MaxWrites
  /\ writes' = writes + 1
  /\ \/ /\ source' \in ({Whole(v) : v \in Versions} \cup {Absent}) \ {source}
        /\ UNCHANGED active
     \/ /\ scratch # Absent
        /\ active' \in {"scratch", "other"} \ {active}
        /\ UNCHANGED source
  /\ UNCHANGED <<gateway, creation, opening>>

Next == Creation \/ LateOpen \/ OthersMove

Spec == Init /\ [][Next]_vars

--------------------------------------------------------------------------------
(* Properties.                                                             *)

\* Every variable has its type.
TypeOK ==
  /\ active \in {"scratch", "other"}
  /\ gateway \in {"serving", "failed"}
  /\ source \in {Whole(v) : v \in Versions} \cup {Absent}
  /\ writes \in 0 .. MaxWrites
  /\ at \in Places
  /\ head \in Versions \cup {"none"}
  /\ pre \in Bytes \cup {NoBytes} /\ baseline \in Bytes \cup {NoBytes}
  /\ scratch \in Bytes \cup {Absent, NoBytes}
  /\ opening \in BOOLEAN
  /\ cleanup \in Endings

\* What is issued is an exact copy: the bytes the source had before the copy and
\* has after the scratch was opened (the comparisons of 501-512 and 559-570).
\* They are one whole version of it, unless the source was written at least five
\* times: once inside each of the three reads, and once between each two of them.
ScratchIsExactCopy ==
  cleanup = "issued" =>
    /\ scratch = pre
    /\ scratch = baseline
    /\ writes < 5 => scratch.head = scratch.tail

\* The cleanup status of an error is what is found on the disk: an error that
\* says that no scratch was created leaves no file behind (_failure, 312-328).  An
\* error without a status ("unreported") may leave one, and does (494).
CleanupIsTruthful ==
  /\ cleanup = "NOT_CREATED" => scratch = Absent
  /\ cleanup = "PRESERVED_FOR_EVIDENCE" => scratch # Absent

================================================================================
