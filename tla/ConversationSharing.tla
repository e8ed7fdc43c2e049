------------------------ MODULE ConversationSharing -------------------------
(***************************************************************************)
(* Sharing of Nadim conversations: tokens are issued and revoked by        *)
(* CustomerLifecycleService, redeemed by people who open a shared link,    *)
(* by WhatsApp turns that carry a hand-off token and by the gateway, and   *)
(* make their bearers participants.  A shared link also gives its bearer a *)
(* web conversation bound to the shared one; the bearer may remove it, and *)
(* the owner's removal erases the conversation for everybody.              *)
(*                                                                         *)
(* Abstractions: a token is named by its hash, and a guess is never one; a *)
(* web identity is named by the web conversation it is derived from; the   *)
(* messages copied into a joined web conversation are left out; customers, *)
(* and the conflicts resolve() finds among them, belong to other modules.  *)
(***************************************************************************)
EXTENDS Integers

CONSTANTS
    Conversations,
    Webs,           \* web conversations, each with its WEB identity
    Senders,        \* WHATSAPP identities
    OwnerOf,        \* the identity that started each conversation
    Tokens,
    Issues,         \* what tokens are asked for
    Requests,       \* requests the API serves at once
    Unlimited,      \* maxUses of a token without a use limit
    None,
    Lifetime,       \* of a token, in clock ticks
    MaxTime,        \* bound on the clock
    MaxRedemptions  \* bound on the redemptions of one token

Identities == Webs \cup Senders
Types == {"WEB_SHARE", "WHATSAPP_HANDOFF", "WHATSAPP_JOIN"}
Handoffs == {"WHATSAPP_HANDOFF", "WHATSAPP_JOIN"}

Issue == [conv : Conversations, type : Types, max : (Nat \ {0}) \cup {Unlimited}]
TokenRow == [issue : Issues, expiresAt : Nat, revoked : BOOLEAN, consumed : BOOLEAN,
             used : Nat]
Participation == [role : {"OWNER", "MEMBER"}, status : {"ACTIVE", "LEFT"}, joined : Nat]
WebStates == {"absent", "unbound", "removed"}

RequestState == [pc : {"idle", "insert", "read", "use", "bind", "resolve", "remove"},
                 kind : {"none", "issue", "join", "turn", "consume", "remove"},
                 issue : Issues \cup {None}, token : Tokens \cup {None},
                 who : Identities \cup {None}, used : Nat,
                 conv : Conversations \cup {None}, member : BOOLEAN]

ASSUME IssuesAssumption == Issues \subseteq Issue
ASSUME OwnersAssumption == OwnerOf \in [Conversations -> Identities]
ASSUME BoundsAssumption == Lifetime \in Nat /\ MaxTime \in Nat /\ MaxRedemptions \in Nat
ASSUME DistinctAssumption ==
    /\ None \notin Issues /\ None \notin Tokens /\ None \notin Identities
    /\ None \notin Conversations /\ None \notin TokenRow /\ None \notin Participation
    /\ Unlimited \notin Nat
    /\ Webs \cap Senders = {} /\ Conversations \cap WebStates = {}

VARIABLES
    conversation,  \* table NadimConversation: its lifecycle
    token,         \* table ConversationShareToken
    issued,        \* the tokens drawn so far; a random token is never drawn again
    participant,   \* table ConversationParticipant
    web,           \* table Conversation: what each web conversation is bound to
    joins,         \* how many participants have joined, the order of joinedAt
    clock,
    request,       \* the locals of each request
    redeemed,      \* history: how often each token let somebody in
    spent,         \* history: the tokens that reached their use limit
    misled         \* history: hand-off tokens spent on a turn that was then refused

vars == <<conversation, token, issued, participant, web, joins, clock, request,
          redeemed, spent, misled>>
history == <<redeemed, spent, misled>>

Idle == [pc |-> "idle", kind |-> "none", issue |-> None, token |-> None, who |-> None,
         used |-> 0, conv |-> None, member |-> FALSE]

TypeOK ==
    /\ conversation \in [Conversations -> {"live", "deleted", "gone"}]
    /\ token \in [Tokens -> TokenRow \cup {None}]
    /\ issued \in SUBSET Tokens
    /\ participant \in [Conversations -> [Identities -> Participation \cup {None}]]
    /\ web \in [Webs -> WebStates \cup Conversations]
    /\ joins \in Nat /\ clock \in Nat
    /\ request \in [Requests -> RequestState]
    /\ redeemed \in [Tokens -> Nat]
    /\ spent \in SUBSET Tokens /\ misled \in SUBSET Tokens

\* Every conversation has had the first turn of its owner.
Init ==
    /\ conversation = [c \in Conversations |-> "live"]
    /\ token = [t \in Tokens |-> None]
    /\ issued = {}
    /\ participant = [c \in Conversations |-> [i \in Identities |->
            IF i = OwnerOf[c] THEN [role |-> "OWNER", status |-> "ACTIVE", joined |-> 0]
            ELSE None]]
    /\ web = [w \in Webs |-> IF \E c \in Conversations : OwnerOf[c] = w
                             THEN CHOOSE c \in Conversations : OwnerOf[c] = w
                             ELSE "absent"]
    /\ joins = 0
    /\ clock = 0
    /\ request = [r \in Requests |-> Idle]
    /\ redeemed = [t \in Tokens |-> 0]
    /\ spent = {}
    /\ misled = {}

(***************************************************************************)
(* Helpers                                                                 *)
(***************************************************************************)
ConversationOf(t) == token[t].issue.conv
Limited(t) == token[t].issue.max # Unlimited
ReachesLimit(t, used) == Limited(t) /\ used >= token[t].issue.max

\* The same conditions in consumeToken and validateToken.
Usable(t, types) ==
    /\ token[t] # None
    /\ token[t].issue.type \in types
    /\ ~token[t].revoked
    /\ conversation[ConversationOf(t)] = "live"
    /\ clock < token[t].expiresAt
    /\ ~token[t].consumed
    /\ ~ReachesLimit(t, token[t].used)

ExpectedTypes(r) ==
    CASE request[r].kind = "join" -> {"WEB_SHARE"}
      [] request[r].kind = "turn" -> Handoffs
      [] OTHER -> Types

Leave(r) == request' = [request EXCEPT ![r] = Idle]

\* joinSharedConversation deletes the web conversation it made when anything fails.
CleanUp(r) ==
    web' = IF request[r].kind = "join" THEN [web EXCEPT ![request[r].who] = "removed"] ELSE web

(***************************************************************************)
(* createToken and revokeToken                                             *)
(***************************************************************************)
BeginIssue(r) ==
    /\ request[r].pc = "idle"
    /\ \E i \in Issues :
          /\ conversation[i.conv] = "live"
          /\ request' = [request EXCEPT ![r] =
                [Idle EXCEPT !.pc = "insert", !.kind = "issue", !.issue = i]]
    /\ UNCHANGED <<conversation, token, issued, participant, web, joins, clock, history>>

\* The foreign key refuses a token for a conversation that is gone by now.
InsertToken(r) ==
    /\ request[r].pc = "insert"
    /\ IF conversation[request[r].issue.conv] = "gone" THEN UNCHANGED <<token, issued>>
       ELSE \E t \in Tokens \ issued :
              /\ issued' = issued \cup {t}
              /\ token' = [token EXCEPT ![t] =
                    [issue |-> request[r].issue, expiresAt |-> clock + Lifetime,
                     revoked |-> FALSE, consumed |-> FALSE, used |-> 0]]
    /\ Leave(r)
    /\ UNCHANGED <<conversation, participant, web, joins, clock, history>>

\* Asked for by a participant, or by createConversationLink when it has no address.
Revoke(t) ==
    /\ token[t] # None /\ ~token[t].revoked
    /\ token' = [token EXCEPT ![t].revoked = TRUE]
    /\ UNCHANGED <<conversation, issued, participant, web, joins, clock, request, history>>

(***************************************************************************)
(* consumeToken, in its three uses                                         *)
(***************************************************************************)
\* joinSharedConversation validates the token and makes a web conversation.
BeginJoin(r, t, w) ==
    /\ request[r].pc = "idle"
    /\ web[w] = "absent"
    /\ Usable(t, {"WEB_SHARE"})
    /\ web' = [web EXCEPT ![w] = "unbound"]
    /\ request' = [request EXCEPT ![r] =
          [Idle EXCEPT !.pc = "read", !.kind = "join", !.token = t, !.who = w]]
    /\ UNCHANGED <<conversation, token, issued, participant, joins, clock, history>>

\* A WhatsApp turn with a hand-off token, or the gateway's consume request.
BeginRedeem(r, kind, t, s) ==
    /\ request[r].pc = "idle"
    /\ request' = [request EXCEPT ![r] =
          [Idle EXCEPT !.pc = "read", !.kind = kind, !.token = t, !.who = s]]
    /\ UNCHANGED <<conversation, token, issued, participant, web, joins, clock, history>>

\* The transaction reads the token and judges what it read,
ReadToken(r) ==
    /\ request[r].pc = "read"
    /\ LET t == request[r].token
       IN  IF Usable(t, ExpectedTypes(r))
           THEN /\ request' = [request EXCEPT ![r].pc = "use", ![r].used = token[t].used]
                /\ UNCHANGED web
           ELSE Leave(r) /\ CleanUp(r)
    /\ UNCHANGED <<conversation, token, issued, participant, joins, clock, history>>

\* consumedAt is set at the limit and left alone below it.
ConsumedAfreshAt(t, used) == ReachesLimit(t, used)
ConsumedAt(t, used) == token[t].consumed \/ ReachesLimit(t, used)

Joining == [role |-> "MEMBER", status |-> "ACTIVE", joined |-> joins + 1]
JoiningAsOwner(p) ==
    IF p = None THEN [Joining EXCEPT !.role = "OWNER"] ELSE [p EXCEPT !.status = "ACTIVE"]
JoinedBare(p) ==
    IF p = None THEN [role |-> "MEMBER", status |-> "ACTIVE"] ELSE [p EXCEPT !.status = "ACTIVE"]
\* A participant who returns is active again and keeps its role and joinedAt.
Joined(p) == IF p = None THEN Joining ELSE [p EXCEPT !.status = "ACTIVE"]

Afterwards(r, c) ==
    CASE request[r].kind = "join" -> [request[r] EXCEPT !.pc = "bind", !.conv = c]
      [] request[r].kind = "turn" -> [request[r] EXCEPT !.pc = "resolve", !.conv = c]
      [] OTHER -> Idle

\* and writes one more than the count it read, whatever the count is by then; the row
\* is locked from its update to the commit.
UseToken(r) ==
    /\ request[r].pc = "use"
    /\ token[request[r].token] # None
    /\ LET t == request[r].token
           c == ConversationOf(t)
           i == request[r].who
           used == request[r].used + 1
       IN  /\ redeemed[t] < MaxRedemptions
           /\ token' = [token EXCEPT ![t].used = used, ![t].consumed = ConsumedAt(t, used)]
           /\ participant' = [participant EXCEPT ![c][i] = Joined(@)]
           /\ joins' = IF participant[c][i] = None THEN joins + 1 ELSE joins
           /\ redeemed' = [redeemed EXCEPT ![t] = @ + 1]
           /\ spent' = IF ReachesLimit(t, used) THEN spent \cup {t} ELSE spent
           /\ request' = [request EXCEPT ![r] = Afterwards(r, c)]
    /\ UNCHANGED <<conversation, issued, web, clock, misled>>

\* The join ends when the web conversation is bound, which its removal or the erasure
\* of the conversation makes fail.
Bind(r) ==
    /\ request[r].pc = "bind"
    /\ IF web[request[r].who] = "unbound" /\ conversation[request[r].conv] # "gone"
       THEN web' = [web EXCEPT ![request[r].who] = request[r].conv]
       ELSE CleanUp(r)
    /\ Leave(r)
    /\ UNCHANGED <<conversation, token, issued, participant, joins, clock, history>>

\* resolve() goes by the participation that was joined last, and refuses the
\* conversation it was asked for when that is another one.
Participates(i, c) ==
    /\ conversation[c] = "live"
    /\ participant[c][i] # None /\ participant[c][i].status = "ACTIVE"
Latest(i, c) ==
    /\ Participates(i, c)
    /\ \A d \in Conversations :
          Participates(i, d) => participant[d][i].joined <= participant[c][i].joined
Authorized(i, c) == Latest(i, c) \/ OwnerOf[c] = i

ResolveTurn(r) ==
    /\ request[r].pc = "resolve"
    /\ LET c == request[r].conv
       IN  misled' = IF conversation[c] = "live" /\ ~Authorized(request[r].who, c)
                     THEN misled \cup {request[r].token} ELSE misled
    /\ Leave(r)
    /\ UNCHANGED <<conversation, token, issued, participant, web, joins, clock, redeemed, spent>>

\* The transaction fails, as it must when the erasure of the conversation took the token
\* along, or a later statement does; the catch cleans up.
Fail(r) ==
    /\ request[r].pc \in {"use", "bind", "remove"}
    /\ Leave(r) /\ CleanUp(r)
    /\ UNCHANGED <<conversation, token, issued, participant, joins, clock, history>>

\* The process dies.
Crash(r) ==
    /\ request[r].pc # "idle"
    /\ Leave(r)
    /\ UNCHANGED <<conversation, token, issued, participant, web, joins, clock, history>>

(***************************************************************************)
(* Removal and deletion                                                    *)
(***************************************************************************)
IsMember(w, c) == participant[c][w] # None /\ participant[c][w].role = "MEMBER"

\* ConversationsService.remove reads what the web conversation is bound to and the role
\* its device has there; roles never change,
BeginRemove(r, w) ==
    /\ request[r].pc = "idle"
    /\ web[w] \notin {"absent", "removed"}
    /\ LET c == IF web[w] = "unbound" THEN None ELSE web[w]
       IN  request' = [request EXCEPT ![r] =
              [Idle EXCEPT !.pc = "remove", !.kind = "remove", !.who = w, !.conv = c,
                           !.member = c # None /\ IsMember(w, c)]]
    /\ UNCHANGED <<conversation, token, issued, participant, web, joins, clock, history>>

\* What the foreign keys do when a conversation is deleted.
CascadeTokens(c) ==
    [t \in Tokens |-> IF token[t] # None /\ ConversationOf(t) = c THEN None ELSE token[t]]
KeepBindings(c) == web
UnbindWebs(c) == [w \in Webs |-> IF web[w] = c THEN "unbound" ELSE web[w]]
Erased(c) ==
    /\ conversation' = [conversation EXCEPT ![c] = "gone"]
    /\ token' = CascadeTokens(c)
    /\ participant' = [participant EXCEPT ![c] = [i \in Identities |-> None]]

Left(p) == [p EXCEPT !.status = "LEFT"]

\* and then deletes the web conversation alone, or makes the member leave with it, or
\* erases the conversation with every web conversation bound to it.
Remove(r) ==
    /\ request[r].pc = "remove"
    /\ LET w == request[r].who
           c == request[r].conv
       IN  \/ /\ c = None
              /\ web' = [web EXCEPT ![w] = "removed"]
              /\ UNCHANGED <<conversation, token, participant>>
           \/ /\ request[r].member /\ web[w] # "removed" /\ participant[c][w] # None
              /\ web' = [web EXCEPT ![w] = "removed"]
              /\ participant' = [participant EXCEPT ![c][w] = Left(participant[c][w])]
              /\ UNCHANGED <<conversation, token>>
           \/ /\ c # None /\ ~request[r].member /\ conversation[c] # "gone"
              /\ web' = [v \in Webs |-> IF web[v] = c THEN "removed" ELSE web[v]]
              /\ Erased(c)
    /\ Leave(r)
    /\ UNCHANGED <<issued, joins, clock, history>>

\* A deletion the customer confirmed in the chat.
EraseByChat(c) ==
    /\ conversation[c] = "live"
    /\ Erased(c)
    /\ web' = UnbindWebs(c)
    /\ UNCHANGED <<issued, joins, clock, request, history>>

DashboardDelete(c) ==
    /\ conversation[c] = "live"
    /\ conversation' = [conversation EXCEPT ![c] = "deleted"]
    /\ UNCHANGED <<token, issued, participant, web, joins, clock, request, history>>

Tick ==
    /\ clock < MaxTime
    /\ clock' = clock + 1
    /\ UNCHANGED <<conversation, token, issued, participant, web, joins, request, history>>

RequestStep(r) ==
    \/ BeginIssue(r) \/ InsertToken(r)
    \/ \E t \in Tokens, w \in Webs : BeginJoin(r, t, w)
    \/ \E t \in Tokens, s \in Senders, kind \in {"turn", "consume"} : BeginRedeem(r, kind, t, s)
    \/ ReadToken(r) \/ UseToken(r) \/ Bind(r) \/ ResolveTurn(r) \/ Fail(r) \/ Crash(r)
    \/ \E w \in Webs : BeginRemove(r, w)
    \/ Remove(r)

Next ==
    \/ \E r \in Requests : RequestStep(r)
    \/ \E t \in Tokens : Revoke(t)
    \/ \E c \in Conversations : EraseByChat(c) \/ DashboardDelete(c)
    \/ Tick

Spec == Init /\ [][Next]_vars

(***************************************************************************)
(* Correctness                                                             *)
(***************************************************************************)
\* Once a redemption has used a token up, nobody who looks at it later gets in, although
\* a slower redemption may still write a lower count over it (consumeToken).
SpentStep ==
    \A r \in Requests :
        request[r].pc = "read" /\ request'[r].pc = "use" => request[r].token \notin spent
SpentIsFinal == [][SpentStep]_vars

\* A bound web conversation always belongs to an active participant of a conversation
\* that exists: joins that fail, removals and deletions never leave half of it.
BoundIsActive ==
    \A w \in Webs : web[w] \in Conversations =>
        LET p == participant[web[w]][w]
        IN  conversation[web[w]] # "gone" /\ p # None /\ p.status = "ACTIVE"

\* Removing a web conversation erases the shared conversation only when the owner does
\* it: a member leaves without deleting the owner's conversation.
MemberLeavesStep ==
    \A c \in Conversations, w \in Webs :
        /\ conversation[c] # "gone" /\ conversation'[c] = "gone"
        /\ web[w] = c /\ web'[w] = "removed"
        =>
        /\ OwnerOf[c] \in Webs
        /\ \E r \in Requests : request[r].who = OwnerOf[c] /\ request'[r] = Idle
MemberLeavesQuietly == [][MemberLeavesStep]_vars

\* A token lets in as many as its use limit says.
UseLimitHolds ==
    \A t \in Tokens : token[t] # None /\ Limited(t) => redeemed[t] <= token[t].issue.max

\* A WhatsApp turn whose hand-off token was accepted continues the conversation.
HandoffContinues == misled = {}
=============================================================================
