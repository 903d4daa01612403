---------------------------- MODULE MCApprovals ----------------------------
(* Instances of Approvals for TLC: ann writes; ann, bob and mia are the
   management. *)
EXTENDS Approvals, TLC

CONSTANTS ann, bob, mia

Everybody == {ann, bob, mia}
Held == [p \in Everybody |-> {"management"}]
Deputy == [p \in Everybody |-> {}]

StepOf(kind, of, everyone) ==
  [rules |-> {[kind |-> kind, of |-> of]}, mode |-> "any", min |-> 1, everyone |-> everyone,
   skipIf |-> {}, onlyIf |-> TRUE]

Everyone == StepOf("function", "management", TRUE)

(* somebody else, a function nobody holds (passed over), the whole management;
   or, for a while, a step only ann could decide, who may not *)
TwoSteps == {<<StepOf("not_requester", NoOffice, FALSE), StepOf("function", "counsel", FALSE), Everyone>>,
             <<StepOf("user", ann, FALSE)>>}

OneStep == {<<Everyone>>}

(* somebody else decides; or, for a while, nobody has to *)
OneOrNone == {<<StepOf("not_requester", NoOffice, FALSE)>>, <<StepOf("function", "counsel", FALSE)>>}

(* anyone may stand in for the others, or bob for mia *)
ToAnyone == {<<bob, ann>>, <<mia, ann>>, <<bob, mia>>, <<mia, bob>>}
ToBob == {<<mia, bob>>}

Nobody == {}

(* bound: a second text or a third request, not both *)
TextsOrRequests == text = 1 \/ Len(reqs) <= 2

ManagementSymmetry == Permutations({bob, mia})
AuthorSymmetry == Permutations({ann, bob})
=============================================================================
