-------------------------------- MODULE AuditScore --------------------------------
(***************************************************************************)
(* The score of the vault audit (audit_evidence): eleven rows are decided  *)
(* from what lies on disk, nine are left to a model, limits are set before *)
(* those are filled, and the filled total is checked by audit_ledger.      *)
(***************************************************************************)
EXTENDS Integers, FiniteSetsExt

CONSTANTS
  Gathered,     \* what collect_evidence and run_probes may find (records, see Codes)
  Fills         \* what the model may give each part in the rows it judges

VARIABLES
  evidence,
  fill          \* part -> points, once the report is filled

vars == <<evidence, fill>>
Parts == {"Context", "Connections", "Capabilities", "Cadence"}
Judged == [p \in Parts |-> CASE p = "Context" -> 2 [] p = "Cadence" -> 1 [] OTHER -> 3]
Nothing == [p \in Parts |-> 0]
-----------------------------------------------------------------------------
Tier(n, five, three, one) == IF n >= five THEN 5 ELSE IF n >= three THEN 3 ELSE IF n >= one THEN 1 ELSE 0
Share(got, total) ==
  IF total = 0 \/ got = 0 THEN 0
  ELSE IF got >= total THEN 5 ELSE IF 10 * got >= 6 * total THEN 3 ELSE 1

Found(e) == Cardinality(e.found)
Accounts(e) ==
  IF e.accounts > 0 /\ e.returned = e.accounts THEN 5
  ELSE IF e.returned > 0 /\ e.broken = 0 THEN 3 ELSE IF e.tea THEN 1 ELSE 0
Usage(e) ==
  IF e.days >= 3 /\ e.span >= 7 /\ e.ran THEN 5
  ELSE IF e.days >= 2 /\ e.ran THEN 3 ELSE IF e.days > 0 THEN 1 ELSE 0
Installed(e) ==
  IF e.jobs > 0 /\ e.loaded = e.jobs THEN 5 ELSE IF e.loaded > 0 THEN 3 ELSE IF e.ondisk > 0 THEN 1 ELSE 0
Ran(e) ==
  IF e.okdays >= 2 /\ e.everyran /\ ~ e.broke THEN 5
  ELSE IF e.okdays > 0 /\ ~ e.broke THEN 3 ELSE IF e.okdays > 0 \/ e.broke THEN 1 ELSE 0
Alerted(e) ==
  IF e.detail /\ e.noticed THEN 5 ELSE IF e.detail \/ e.watching THEN 3 ELSE IF e.logged THEN 1 ELSE 0
Audited(e) ==
  IF e.audits >= 2 /\ e.followed THEN 5
  ELSE IF e.report /\ e.audits >= 1 THEN 3 ELSE IF e.report THEN 1 ELSE 0

(* The rows decided by code, part by part; a row nothing is cited for has 0.*)
Codes(e) == [p \in Parts |->
  CASE p = "Context" -> Tier(Found(e), 5, 3, 1) + Share(e.fresh, 4) + Share(e.finished, 2)
    [] p = "Connections" -> Accounts(e) + Tier(e.paths, 3, 2, 1)
    [] p = "Capabilities" -> Tier(e.pages, 3, 2, 1) + Usage(e)
    [] OTHER -> Installed(e) + Ran(e) + Alerted(e) + (IF e.report THEN Audited(e) ELSE 0)]
Sum(f) == f["Context"] + f["Connections"] + f["Capabilities"] + f["Cadence"]
stage_for(n) ==
  IF n <= 24 THEN "Unproven" ELSE IF n <= 49 THEN "Foundation" ELSE IF n <= 69 THEN "Working"
  ELSE IF n <= 84 THEN "Compounding" ELSE "Leveraged"
-----------------------------------------------------------------------------
(* Limits on a part are set against all it may still reach; the one on the  *)
(* total by the part that can reach least.                                  *)
Limited(e) == {p \in {"Context"} : ~ ({"purpose", "priority"} \subseteq e.found)}
              \cup {p \in {"Cadence"} : Installed(e) = 0}
apply_caps(e) ==
  LET codes == Codes(e)
      sub == [p \in Parts |-> IF p \in Limited(e) THEN Min({codes[p], 10}) ELSE codes[p]]
      open == [p \in Parts |->
                IF p \in Limited(e) THEN Min({5 * Judged[p], Max({0, 10 - sub[p]})}) ELSE 5 * Judged[p]]
      least == Min({sub[p] + open[p] : p \in Parts})
      total == IF least < 10 THEN 49 ELSE IF least < 15 \/ e.okdays < 2 THEN 69
               ELSE IF least < 20 THEN 84 ELSE 100
      top == Sum(sub) + Sum(open)
      caps == {<<p, 10>> : p \in {q \in Limited(e) : codes[q] + 5 * Judged[q] >= 10}}
              \cup (IF top > total THEN {<<"Total", total>>} ELSE {})
  IN [caps |-> caps, min |-> Min({Sum(sub), total}), max |-> Min({top, total}), subtotals |-> sub, unknown |-> open]

(* What the check expects of a filled report: its rows and the limits that  *)
(* were recorded, those of the parts before that of the total.              *)
Forgotten(caps, f, p) == f[p]                                                    \* mutant
OverRoom(caps, f, p) == IF <<p, 10>> \in caps THEN Min({f[p], 10}) ELSE f[p]
Expected(caps, f) ==
  LET held == Sum([p \in Parts |-> OverRoom(caps, f, p)])
  IN Min({held} \cup {c[2] : c \in {d \in caps : d[1] = "Total"}})
Filled(e, f) == [p \in Parts |-> Codes(e)[p] + f[p]]

(* What a report may be filled with: no row has more than five points.      *)
Fillable == {f \in [Parts -> Nat] : \A p \in Parts : f[p] <= 5 * Judged[p]}

Init == evidence \in Gathered /\ fill = Nothing
Fill == fill = Nothing /\ fill' \in Fills /\ UNCHANGED evidence
Next == Fill
-----------------------------------------------------------------------------
(* "Total N out of 100, rising to at most M once the judged rows are        *)
(* filled": however the model fills them, the only total the check accepts  *)
(* lies between the two numbers that were printed before, so that no honest *)
(* report can break the check, or the promise.                              *)
ScoreBracket ==
  LET s == apply_caps(evidence) IN Expected(s.caps, Filled(evidence, fill)) \in s.min .. s.max

(* The limits "stop a lopsided system scoring well": at most Foundation with*)
(* a part below 10.  It fails: nothing limits what the model left low.      *)
LopsidedIsHeld ==
  LET s == apply_caps(evidence)
      f == Filled(evidence, fill)
  IN (\E p \in Parts : f[p] < 10) /\ fill # Nothing => Expected(s.caps, f) <= 49
================================================================================
