---------------------------- MODULE ServiceParts ----------------------------
(***************************************************************************)
(* The services that share no state in the models, as one: what the tables *)
(* and the stores of all of them may hold.                                 *)
(***************************************************************************)
EXTENDS TurnDialogue, TurnUnderstanding, FxRates, UnitPlacement, AutomationLeads, LegacyChat,
        FollowUpTimes, SearchConstraints, NadimReply, WebChat, ProjectContent, PaymentOffers, AnswerProviders

\* Every service keeps its rows and its running work in form: rows refer to rows that exist, a
\* cache has one entry per search and no more than it may, turns end their model calls within
\* the limit, and requests and answers go by the amounts and states of their schemas.
TypesOK ==
  /\ TypeOK /\ ThoughtTyped /\ ReplyTyped /\ TimesTyped /\ ConstraintsTyped /\ FxTyped
  /\ SearchTypeOK /\ PlacementTypeOK /\ OffersTyped /\ KnowledgeTyped
  /\ LeadsTypeOK /\ ChatTyped /\ AnswersTyped
=============================================================================
