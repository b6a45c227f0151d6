----------------------------- MODULE GoldLayer -----------------------------
(***************************************************************************)
(* What the Gold layer promises to those who read it, without files, names,  *)
(* batches, runs and compactions: of each report the facts, and in each mode  *)
(* the embeddings, of one version; a marker when all of it is there; and from *)
(* then on neither changes.  Nothing is promised of a report that two runs    *)
(* contend for, and only two builders can.  Gold implements it.              *)
(***************************************************************************)
EXTENDS Integers

CONSTANTS
  Reports,     (* the disclosures                                            *)
  Textless,    (* those that have no embeddings                              *)
  Builders     (* the modes in which embeddings are made                     *)

Facts == "facts"

VARIABLES
  report,      (* the version of each Silver report, 0 before the first       *)
  row,         (* row[out][r]: the version of r in the facts, or in the        *)
               (* embeddings of a mode, that a reader takes; 0 is none         *)
  marked,      (* the reports that are marked as built                        *)
  contended    (* the reports that two runs contended for                     *)

vars == <<report, row, marked, contended>>

Init ==
  /\ report \in [Reports -> {0, 1}]
  /\ row = [out \in {Facts} \cup Builders |-> [r \in Reports |-> 0]]
  /\ marked = {}
  /\ contended = {}

(* The report is written again.                                              *)
Rewrite(r) ==
  /\ report' = [report EXCEPT ![r] = @ + 1]
  /\ UNCHANGED <<row, marked, contended>>

Open(S) == S \subseteq Reports \ (marked \cup contended)

Put(out, S, v) ==
  row' = [row EXCEPT ![out] = [r \in Reports |-> IF r \in S THEN v[r] ELSE @[r]]]

(* The facts of a batch appear at once, of newer versions than those that were *)
(* there, though maybe not of the newest.                                     *)
Newer(r) == (row[Facts][r] + 1) .. report[r]

PublishFacts(S, v) ==
  /\ Open(S)
  /\ \A r \in S : v[r] \in Newer(r)
  /\ Put(Facts, S, v)
  /\ UNCHANGED <<report, marked, contended>>

(* Then the embeddings, of the versions that the facts are of.                 *)
PublishEmbeddings(b, S) ==
  /\ Open(S)
  /\ \A r \in S : r \notin Textless /\ row[Facts][r] # 0 /\ row[b][r] # row[Facts][r]
  /\ Put(b, S, row[Facts])
  /\ UNCHANGED <<report, marked, contended>>

(* A report is whole when its facts are there and the embeddings of a mode, if   *)
(* it has any, agree with them.  Then it is marked.                           *)
Whole(r) ==
  row[Facts][r] # 0 /\ (r \in Textless \/ \E b \in Builders : row[b][r] = row[Facts][r])

Mark(r) ==
  /\ Open({r})
  /\ Whole(r)
  /\ marked' = marked \cup {r}
  /\ UNCHANGED <<report, row, contended>>

(* Two builders have taken up the same reports at one time or in one second, or *)
(* written the same file.                                                    *)
Contend(S) ==
  /\ \E b, c \in Builders : b # c
  /\ contended' = contended \cup S
  /\ marked' = marked \ S
  /\ row' = [out \in {Facts} \cup Builders |->
               [r \in Reports |-> IF r \in S THEN 0 ELSE row[out][r]]]
  /\ UNCHANGED report

Next ==
  \/ \E r \in Reports : Rewrite(r) \/ Mark(r)
  \/ \E S \in (SUBSET Reports) \ {{}} :
       \/ \E v \in [S -> UNION {Newer(r) : r \in S}] : PublishFacts(S, v)
       \/ \E b \in Builders : PublishEmbeddings(b, S)
       \/ Contend(S)

Spec == Init /\ [][Next]_vars

-----------------------------------------------------------------------------
(* What a reader may rely on: the facts of a marked report and the embeddings  *)
(* of some mode are made from one version of it, and contending withdraws it.  *)
MarkedAgree ==
  \A r \in marked : r \notin contended /\ Whole(r)
=============================================================================
