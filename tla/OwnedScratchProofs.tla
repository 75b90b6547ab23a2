---------------------------- MODULE OwnedScratchProofs ----------------------------
(***************************************************************************)
(* Theorems about OwnedScratch, for any versions of the source and any     *)
(* number of moves of the others.  The creation reads the source three     *)
(* times, each time in two halves.  Any two halves read one after the      *)
(* other that differ cost a write in between: the invariant counts them.   *)
(***************************************************************************)
EXTENDS OwnedScratch, TLAPS

Differ(x, y) == IF x = y THEN 0 ELSE 1

\* What the halves of a file differ by.
Mixed(b) == Differ(b.head, b.tail)

\* An error of the creation tells what is on the disk, and there is nothing
\* before the copy.
CleanupInv ==
  /\ at \in {"identity", "pre_begin", "pre_end", "copy_begin"} => scratch = Absent
  /\ cleanup \in {"NOT_CREATED"} => scratch = Absent
  /\ cleanup = "PRESERVED_FOR_EVIDENCE" => scratch # Absent
  /\ cleanup # "none" => at = "ended"

\* A file is written whole, and each write can make the next half that is read
\* differ from the last one.
ReadInv ==
  /\ writes \in Nat
  /\ source.tail = source.head
  /\ at = "pre_end" => writes >= Differ(head, source.head)
  /\ at = "copy_begin" => writes >= Mixed(pre) + Differ(pre.tail, source.head)
  /\ at = "copy_end" =>
       writes >= Mixed(pre) + Differ(pre.tail, head) + Differ(head, source.head)
  /\ at = "compare" =>
       writes >= Mixed(pre) + Differ(pre.tail, scratch.head) + Mixed(scratch)
                   + Differ(scratch.tail, source.head)

\* From the comparison on the scratch is what was read first, so that the three
\* costs above are the same.
CopyInv ==
  /\ at \in {"open", "readback", "post_begin"} =>
       scratch = pre /\ writes >= 3 * Mixed(pre) + Differ(pre.tail, source.head)
  /\ at = "post_end" =>
       /\ scratch = pre
       /\ writes >= 3 * Mixed(pre) + Differ(pre.tail, head) + Differ(head, source.head)
  /\ cleanup = "issued" => scratch = pre /\ scratch = baseline /\ writes >= 5 * Mixed(pre)

IInv == CleanupInv /\ ReadInv /\ CopyInv

--------------------------------------------------------------------------------
LEMMA DifferIsBit ==
  ASSUME NEW x, NEW y
  PROVE  Differ(x, y) \in {0, 1} /\ (Differ(x, y) = 0 <=> x = y)
  BY DEF Differ

LEMMA InitEstablishes == Init => IInv
  BY SMT DEF Init, IInv, CleanupInv, ReadInv, CopyInv, Whole, Absent, NoBytes

\* Whatever a step of the creation does, what it says of the scratch is so.
LEMMA CleanupStep == CleanupInv /\ [Next]_vars => CleanupInv'
<1> SUFFICES ASSUME CleanupInv, [Next]_vars
             PROVE  CleanupInv'
  OBVIOUS
<1> USE DEF CleanupInv, Goto, End, FailWithPath
<1>1. CASE Identity \/ PreBegin \/ PreEnd
  BY <1>1 DEF Identity, PreBegin, PreEnd
<1>2. CASE CopyBegin \/ CopyEnd \/ Compare
  BY <1>2 DEF CopyBegin, CopyEnd, Compare
<1>3. CASE OpenFile \/ Readback
  BY <1>3 DEF OpenFile, Readback
<1>4. CASE PostBegin \/ PostEnd
  BY <1>4 DEF PostBegin, PostEnd
<1>5. CASE LateOpen \/ OthersMove \/ UNCHANGED vars
  BY <1>5 DEF LateOpen, OthersMove, vars, creation
<1> QED
  BY <1>1, <1>2, <1>3, <1>4, <1>5 DEF Next, Creation

\* The steps of the creation itself do not write the source.
LEMMA CreationReads ==
  ASSUME IInv, Creation
  PROVE  (ReadInv /\ CopyInv)'
<1> USE DEF Goto
<1> writes \in Nat /\ source.tail = source.head /\ writes' = writes /\ source' = source
  BY DEF IInv, ReadInv, Creation, Identity, PreBegin, PreEnd, CopyBegin, CopyEnd, Compare,
         OpenFile, Readback, PostBegin, PostEnd
<1>0. ASSUME at' = "ended", cleanup' # "issued"
      PROVE  (ReadInv /\ CopyInv)'
  BY <1>0 DEF ReadInv, CopyInv
<1>a. ASSUME FailWithPath \/ End("unreported") \/ End("NOT_CREATED")
      PROVE  (ReadInv /\ CopyInv)'
  BY <1>a, <1>0 DEF FailWithPath, End
<1>b. at # "ended" /\ cleanup # "issued"
  BY DEF IInv, CleanupInv, Creation, Identity, PreBegin, PreEnd, CopyBegin, CopyEnd, Compare,
         OpenFile, Readback, PostBegin, PostEnd
<1>1. CASE Identity
  BY <1>1, <1>a, <1>b DEF Identity, ReadInv, CopyInv
<1>2. CASE PreBegin
  <2>1. CASE ReadBegins /\ Goto("pre_end")
    <3>1. Differ(head', source'.head) = 0
      BY <2>1 DEF ReadBegins, Differ
    <3> QED
      BY <2>1, <3>1, <1>b, SMT DEF ReadInv, CopyInv
  <2> QED
    BY <1>2, <2>1, <1>a DEF PreBegin
<1>3. CASE PreEnd
  <2>1. CASE pre' = Read /\ Goto("copy_begin")
    <3>1. /\ Mixed(pre') = Differ(head, source.head)
          /\ Differ(pre'.tail, source'.head) = 0
      BY <2>1 DEF Read, Mixed, Differ
    <3>2. writes >= Differ(head, source.head) /\ Differ(head, source.head) \in {0, 1}
      BY <1>3, DifferIsBit DEF PreEnd, IInv, ReadInv
    <3> QED
      BY <2>1, <3>1, <3>2, <1>b, SMT DEF ReadInv, CopyInv
  <2> QED
    BY <1>3, <2>1, <1>a DEF PreEnd
<1>4. CASE CopyBegin
  <2>1. CASE ReadBegins /\ Goto("copy_end")
    <3>1. /\ head' = source.head
          /\ Differ(head', source'.head) = 0
          /\ pre' = pre
      BY <1>4, <2>1 DEF ReadBegins, Differ, CopyBegin
    <3>2. /\ writes >= Mixed(pre) + Differ(pre.tail, source.head)
          /\ Mixed(pre) \in {0, 1} /\ Differ(pre.tail, source.head) \in {0, 1}
      BY <1>4, DifferIsBit DEF CopyBegin, IInv, ReadInv, Mixed
    <3> QED
      BY <2>1, <3>1, <3>2, <1>b, SMT DEF ReadInv, CopyInv
  <2> QED
    BY <1>4, <2>1, <1>a DEF CopyBegin
<1>5. CASE CopyEnd
  <2>1. CASE scratch' = Read /\ Goto("compare")
    <3>1. /\ scratch'.head = head
          /\ Mixed(scratch') = Differ(head, source.head)
          /\ Differ(scratch'.tail, source'.head) = 0
          /\ pre' = pre
      BY <1>5, <2>1 DEF Read, Mixed, Differ, CopyEnd
    <3>2. /\ writes >= Mixed(pre) + Differ(pre.tail, head) + Differ(head, source.head)
          /\ Mixed(pre) \in {0, 1} /\ Differ(pre.tail, head) \in {0, 1}
          /\ Differ(head, source.head) \in {0, 1}
      BY <1>5, DifferIsBit DEF CopyEnd, IInv, ReadInv, Mixed
    <3> QED
      BY <2>1, <3>1, <3>2, <1>b, SMT DEF ReadInv, CopyInv
  <2> QED
    BY <1>5, <2>1, <1>a DEF CopyEnd
<1>6. CASE Compare
  <2>1. CASE scratch = pre /\ Goto("open")
    <3>1. scratch' = pre' /\ pre' = pre /\ Differ(pre.tail, scratch.head) = Mixed(pre)
      BY <1>6, <2>1 DEF Compare, Mixed, Differ
    <3>2. /\ writes >= Mixed(pre) + Mixed(pre) + Mixed(pre) + Differ(pre.tail, source.head)
          /\ Mixed(pre) \in {0, 1} /\ Differ(pre.tail, source.head) \in {0, 1}
      BY <1>6, <2>1, <3>1, DifferIsBit DEF Compare, IInv, ReadInv, Mixed
    <3> QED
      BY <2>1, <3>1, <3>2, <1>b, SMT DEF ReadInv, CopyInv
  <2> QED
    BY <1>6, <2>1, <1>a DEF Compare
<1>7. CASE OpenFile \/ Readback
  BY <1>7, <1>a, <1>b DEF OpenFile, Readback, IInv, ReadInv, CopyInv
<1>8. CASE PostBegin
  <2>1. CASE ReadBegins /\ Goto("post_end")
    <3>1. /\ head' = source.head
          /\ Differ(head', source'.head) = 0
          /\ pre' = pre /\ scratch' = scratch /\ scratch = pre
      BY <1>8, <2>1 DEF ReadBegins, Differ, PostBegin, IInv, CopyInv
    <3>2. /\ writes >= 3 * Mixed(pre) + Differ(pre.tail, source.head)
          /\ Mixed(pre) \in {0, 1} /\ Differ(pre.tail, source.head) \in {0, 1}
      BY <1>8, DifferIsBit DEF PostBegin, IInv, CopyInv, Mixed
    <3> QED
      BY <2>1, <3>1, <3>2, <1>b, SMT DEF ReadInv, CopyInv
  <2> QED
    BY <1>8, <2>1, <1>a DEF PostBegin
<1>9. CASE PostEnd
  <2>1. CASE baseline' = Read /\ baseline' = pre /\ End("issued")
    <3>1. /\ scratch' = pre' /\ scratch' = baseline' /\ pre' = pre
          /\ Differ(pre.tail, head) = Mixed(pre)
          /\ Differ(head, source.head) = Mixed(pre)
      BY <1>9, <2>1 DEF PostEnd, Read, Mixed, Differ, IInv, CopyInv
    <3>2. /\ writes >= 3 * Mixed(pre) + Mixed(pre) + Mixed(pre)
          /\ Mixed(pre) \in {0, 1}
      BY <1>9, <3>1, DifferIsBit DEF PostEnd, IInv, CopyInv, Mixed
    <3> QED
      BY <2>1, <3>1, <3>2, <1>b, SMT DEF ReadInv, CopyInv, End
  <2> QED
    BY <1>9, <2>1, <1>a DEF PostEnd
<1> QED
  BY <1>1, <1>2, <1>3, <1>4, <1>5, <1>6, <1>7, <1>8, <1>9 DEF Creation

\* A write pays for one difference more.
LEMMA OthersPay ==
  ASSUME IInv, OthersMove
  PROVE  (ReadInv /\ CopyInv)'
<1>1. /\ writes \in Nat /\ writes' = writes + 1
      /\ UNCHANGED <<at, head, pre, scratch, baseline, cleanup>>
      /\ cleanup # "issued"
  BY DEF OthersMove, creation, IInv, ReadInv, CleanupInv
<1>2. source'.tail = source'.head
  BY DEF OthersMove, IInv, ReadInv, Whole, Absent
<1>3. ASSUME NEW x
      PROVE  /\ Differ(x, source'.head) \in {0, 1}
             /\ Differ(x, source.head) \in {0, 1}
  BY DifferIsBit
<1>4. /\ Mixed(pre) \in {0, 1} /\ Mixed(scratch) \in {0, 1}
      /\ Differ(pre.tail, head) \in {0, 1} /\ Differ(pre.tail, scratch.head) \in {0, 1}
  BY DifferIsBit DEF Mixed
<1>5. /\ Differ(head, source'.head) \in {0, 1} /\ Differ(head, source.head) \in {0, 1}
      /\ Differ(pre.tail, source'.head) \in {0, 1} /\ Differ(pre.tail, source.head) \in {0, 1}
      /\ Differ(scratch.tail, source'.head) \in {0, 1}
      /\ Differ(scratch.tail, source.head) \in {0, 1}
  BY <1>3
<1>6. ReadInv'
  BY <1>1, <1>2, <1>4, <1>5, SMT DEF IInv, ReadInv
<1>7. CopyInv'
  BY <1>1, <1>4, <1>5, SMT DEF IInv, CopyInv
<1> QED
  BY <1>6, <1>7

LEMMA StepPreserves == IInv /\ [Next]_vars => IInv'
<1> SUFFICES ASSUME IInv, [Next]_vars
             PROVE  IInv'
  OBVIOUS
<1>1. CleanupInv'
  BY CleanupStep DEF IInv
<1>2. CASE Creation
  BY <1>1, <1>2, CreationReads DEF IInv
<1>3. CASE OthersMove
  BY <1>1, <1>3, OthersPay DEF IInv
<1>4. CASE LateOpen \/ UNCHANGED vars
  BY <1>1, <1>4 DEF IInv, ReadInv, CopyInv, LateOpen, vars, creation
<1> QED
  BY <1>2, <1>3, <1>4 DEF Next

THEOREM Counted == Spec => []IInv
<1> QED
  BY InitEstablishes, StepPreserves, PTL DEF Spec

--------------------------------------------------------------------------------
\* OwnedScratch!ScratchIsExactCopy, however often the source is written: an issued
\* scratch has the bytes read before the copy and after the opening, and if these
\* are of two versions then somebody wrote the source in each of the five
\* intervals between the six halves read (459-579).
THEOREM ExactCopy == Spec => []ScratchIsExactCopy
<1>1. IInv => ScratchIsExactCopy
  <2> SUFFICES ASSUME IInv, cleanup = "issued"
               PROVE  /\ scratch = pre /\ scratch = baseline
                      /\ writes < 5 => scratch.head = scratch.tail
    BY DEF ScratchIsExactCopy
  <2>1. scratch = pre /\ scratch = baseline /\ writes >= 5 * Mixed(pre) /\ writes \in Nat
    BY DEF IInv, CopyInv, ReadInv
  <2>2. Mixed(pre) \in {0, 1} /\ (Mixed(pre) = 0 <=> pre.head = pre.tail)
    BY DifferIsBit DEF Mixed
  <2> QED
    BY <2>1, <2>2, SMT
<1> QED
  BY <1>1, Counted, PTL

\* OwnedScratch!CleanupIsTruthful: NOT_CREATED is said only when no file is left, and
\* PRESERVED_FOR_EVIDENCE only when one is (_failure, 312-328).
THEOREM TruthfulCleanup == Spec => []CleanupIsTruthful
<1>1. IInv => CleanupIsTruthful
  BY DEF IInv, CleanupInv, CleanupIsTruthful
<1> QED
  BY <1>1, Counted, PTL

================================================================================
