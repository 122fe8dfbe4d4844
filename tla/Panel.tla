-------------------------------- MODULE Panel --------------------------------
(***************************************************************************)
(* The panel that decides on a finding (behavior/src/services/llm/         *)
(* refute.ts), over a client that asks again when it cannot use an answer  *)
(* (services/llm/client.ts).                                               *)
(*                                                                         *)
(* A vote is what a member says after trying to refute the finding;        *)
(* confidences are in percent.  The lenses and the rationales decide       *)
(* nothing and are left out.                                               *)
(***************************************************************************)
EXTENDS Integers, FiniteSets

CONSTANTS
    PanelSize,
    Threshold,  \* confidenceThreshold, in percent
    Vote        \* what a member may say

Class == {"bug", "unnecessary", "uncertain"}
Members == 1..PanelSize

ASSUME PanelAssumption ==
    /\ PanelSize \in Nat \ {0} /\ Threshold \in 0..100
    /\ Vote \subseteq [refuted : BOOLEAN, class : Class, confidence : 0..100]

\* Faulty variant: who confirms is rounded down.
HalfRoundedDown(confirmed) == confirmed >= PanelSize \div 2

\* Math.ceil(panelSize / 2) votes.
IsHalf(confirmed) == 2 * confirmed >= PanelSize

\* The class most members gave; of those with as many, the first one given.
majorityClass(votes, members) ==
    LET given(c) == {i \in members : votes[i].class = c}
        most == {c \in Class : \A d \in Class : Cardinality(given(d)) <= Cardinality(given(c))}
        first == CHOOSE i \in members :
                    /\ votes[i].class \in most
                    /\ \A j \in members : votes[j].class \in most => i <= j
    IN votes[first].class

\* What each member adds, one after the other.
Total(adds) ==
    LET sum[n \in 0..PanelSize] == IF n = 0 THEN 0 ELSE sum[n - 1] + adds[n]
    IN sum[PanelSize]

\* A verdict keeps the mean of some confidences as their sum and their number.
Verdict(votes, class, heard) ==
    [class |-> class, heard |-> Cardinality(heard),
     sum |-> Total([i \in Members |-> IF i \in heard THEN votes[i].confidence ELSE 0])]

adjudicate(votes) ==
    LET confirming == {i \in Members : ~votes[i].refuted}
        class == majorityClass(votes, confirming)
    IN IF IsHalf(Cardinality(confirming))
         THEN Verdict(votes, class, {i \in confirming : votes[i].class = class})
         ELSE Verdict(votes, "uncertain", Members)

\* The mean of floating-point numbers may fall on either side of a threshold it
\* meets exactly: 0.7, 0.8 and 0.9 do not reach 0.8.
BothGatesPass(verdict, roundedUp) ==
    /\ verdict.class # "uncertain"
    /\ \/ verdict.sum > Threshold * verdict.heard
       \/ verdict.sum = Threshold * verdict.heard /\ roundedUp

\* What may come of a panel that is heard.
Outcomes == {BothGatesPass(adjudicate(votes), roundedUp) :
                votes \in [Members -> Vote], roundedUp \in BOOLEAN}

MAX_RETRIES == 3

\* Whether a member is heard after some answers that cannot be used: the call
\* failed, there was no JSON in it, a field was missing.
Heard(unusable) == unusable < MAX_RETRIES

\* However its members vote: what passes was confirmed by half of them, and one
\* of those is as confident as asked for; a panel of one mind and beyond the
\* threshold is followed; seats matter only where classes tie.
EveryVoteIsFair ==
    \A votes \in [Members -> Vote] :
        LET verdict == adjudicate(votes)
            confirming == {i \in Members : ~votes[i].refuted}
            of(class) == {i \in confirming : votes[i].class = class}
        IN /\ BothGatesPass(verdict, TRUE) =>
                 /\ 2 * Cardinality(confirming) >= PanelSize
                 /\ \E i \in of(verdict.class) : votes[i].confidence >= Threshold
           /\ \A class \in Class \ {"uncertain"} :
                 of(class) = Members /\ (\A i \in Members : votes[i].confidence > Threshold)
                     => BothGatesPass(verdict, FALSE)
           /\ \/ \E c, d \in Class : c # d /\ of(c) # {} /\ Cardinality(of(c)) = Cardinality(of(d))
              \/ \A i, j \in Members :
                    adjudicate([votes EXCEPT ![i] = votes[j], ![j] = votes[i]]) = verdict
=============================================================================
