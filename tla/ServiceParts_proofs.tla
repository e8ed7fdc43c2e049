------------------------ MODULE ServiceParts_proofs ------------------------
(***************************************************************************)
(* The services as one: each keeps its form whatever the others do.        *)
(***************************************************************************)
EXTENDS ServiceParts, Dialogue_proofs, Services_proofs, Catalogue_proofs

\* Every service keeps its rows and its running work in form, for any number of turns, callers,
\* units, leads, texts and answers, each from the inductive invariant of its own.
THEOREM ServicesKeepForm ==
  /\ Spec /\ ThoughtSpec /\ ReplySpec /\ TimesSpec /\ ConstraintsSpec /\ FxSpec
  /\ SearchSpec /\ PlacementSpec /\ OffersSpec /\ KnowledgeSpec
  /\ LeadsSpec /\ ChatSpec /\ AnswerSpec
  => []TypesOK
<1>1. Spec /\ ThoughtSpec /\ ReplySpec => [](TypeOK /\ ThoughtTyped /\ ReplyTyped)
  BY DialogueTyped, CallsBounded, ReplyTypeHolds, PTL
<1>2. TimesSpec /\ ConstraintsSpec /\ FxSpec => [](TimesTyped /\ ConstraintsTyped /\ FxTyped)
  BY RemindersTyped, ConstraintsKeepForm, FxTypeHolds, PTL
<1>3. SearchSpec /\ PlacementSpec /\ OffersSpec /\ KnowledgeSpec
        => [](SearchTypeOK /\ PlacementTypeOK /\ OffersTyped /\ KnowledgeTyped)
  BY CacheBounded, PlacementTyped, PlansPutForward, KnowledgeReferred, PTL
<1>4. LeadsSpec /\ ChatSpec /\ AnswerSpec => [](LeadsTypeOK /\ ChatTyped /\ AnswersTyped)
  BY LeadsTyped, ChatRowsRefer, AnswersGiven, PTL
<1>5. (TypeOK /\ ThoughtTyped /\ ReplyTyped) /\ (TimesTyped /\ ConstraintsTyped /\ FxTyped)
        /\ (SearchTypeOK /\ PlacementTypeOK /\ OffersTyped /\ KnowledgeTyped)
        /\ (LeadsTypeOK /\ ChatTyped /\ AnswersTyped) => TypesOK
  BY DEF TypesOK
<1>. QED  BY <1>1, <1>2, <1>3, <1>4, <1>5, PTL
=============================================================================
