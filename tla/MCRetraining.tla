---------------------------- MODULE MCRetraining ----------------------------
(* Retraining for TLC: one run with one retry per task, beside a version that an *)
(* operator freezes under another name and tag that join to the same file; two    *)
(* images, the incumbent and two possible results of a fit.                       *)
EXTENDS Retraining

CONSTANTS r1, manual, i1, i2

MCTries == {<<r1, n>> : n \in 1..MaxTries}
MCVersionCalls == MCTries \cup {manual}
MCAsked == [c \in MCVersionCalls |->
    IF c = manual THEN [name |-> "line/bottle", tag |-> "auto", category |-> "bottle"]
    ELSE [name |-> "line", tag |-> "bottle/auto", category |-> "bottle"]]
MCWanted == [t \in MCTries |-> [name |-> "line", tag |-> "bottle/auto", family |-> "autoencoder"]]
MCFileOf ==
    [k \in {<<"line/bottle", "auto">>, <<"line", "bottle/auto">>} |-> "line/bottle/auto.json"]
MCRows == [i \in Images |-> [status |-> "valid", label |-> "good", reviewed |-> FALSE]]
MCVerdicts == {<<i1, "defect">>}
MCCategoryOf == [i \in Images |-> "bottle"]

\* Some order of every set of images.
MCRank == [S \in SUBSET Images |-> CHOOSE f \in [S -> 1..Cardinality(S)] :
              \A i, j \in S : f[i] = f[j] => i = j]

MCMetrics == {[auroc |-> 97, recall |-> 90], [auroc |-> 90, recall |-> 95]}
MCIncumbentMetrics == [auroc |-> 96, recall |-> 90]

MCOrders ==
    {[action |-> "promote", model |-> <<r1, 1>>], [action |-> "rollback", model |-> <<r1, 1>>],
     [action |-> "rollback", model |-> None]}

Scores(statistic) == [name |-> "anomaly_score", statistic |-> statistic, threshold |-> 10]
Confidence(statistic) == [name |-> "confidence", statistic |-> statistic, threshold |-> 15]
MCWindows == {
    [samples |-> 199, signals |-> {Scores(30), Confidence(30)}],
    [samples |-> 200, signals |-> {Scores(12), Confidence(15)}],
    [samples |-> 200, signals |-> {Scores(12), Confidence(16)}],
    [samples |-> 200, signals |-> {Scores(20), Confidence(5)}]}
=============================================================================
