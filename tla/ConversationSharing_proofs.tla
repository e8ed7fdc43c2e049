---------------------- MODULE ConversationSharing_proofs ----------------------
(***************************************************************************)
(* Proofs about ConversationSharing, for any number of conversations, web  *)
(* conversations, senders, tokens and requests, any use limits and any     *)
(* times.  A bound web conversation stays an active participant because a  *)
(* join that is about to bind has made one (BindSound), and only an owner  *)
(* erases because the role a removal reads is that of whoever started the  *)
(* conversation (RemoveSound, OwnersStarted).                              *)
(***************************************************************************)
EXTENDS ConversationSharing, TLAPS

Active(c, i) == participant[c][i] # None /\ participant[c][i].status = "ACTIVE"

ActiveNext(c, i) == participant'[c][i] # None /\ participant'[c][i].status = "ACTIVE"

\* A redemption names a token and somebody, a join a web conversation.
RedeemSound(q) ==
  /\ q.pc \in {"read", "use", "resolve"} => q.token \in Tokens /\ q.who \in Identities
  /\ q.kind = "join" => q.who \in Webs
  /\ q.pc = "insert" => q.issue \in Issues

\* A join that is about to bind has made its bearer a participant.
BindSound(q) ==
  q.pc = "bind" =>
    /\ q.conv \in Conversations /\ q.who \in Webs
    /\ conversation[q.conv] # "gone" /\ web[q.who] # "removed" => Active(q.conv, q.who)

\* A removal that will erase is the owner's.
RemoveSound(q) ==
  q.pc = "remove" =>
    /\ q.who \in Webs
    /\ q.member => q.conv # None
    /\ q.conv # None /\ ~q.member => q.who = OwnerOf[q.conv]

RequestSound(q) == RedeemSound(q) /\ BindSound(q) /\ RemoveSound(q)

OwnersStarted ==
  \A c \in Conversations, i \in Identities :
    participant[c][i] # None /\ participant[c][i].role = "OWNER" => i = OwnerOf[c]

\* What was used up stays used up.
SpentStays ==
  /\ \A t \in Tokens : token[t] # None => t \in issued
  /\ \A t \in spent : t \in issued /\ (token[t] # None => token[t].consumed)

Inv == /\ TypeOK /\ BoundIsActive /\ OwnersStarted /\ SpentStays
       /\ \A r \in Requests : RequestSound(request[r])

LEMMA IdleSound == Idle \in RequestState /\ RequestSound(Idle)
  BY DEF Idle, RequestState, RequestSound, RedeemSound, BindSound, RemoveSound

LEMMA BoundIsNoState == \A c \in Conversations : c \notin WebStates /\ c # None
  BY DistinctAssumption DEF WebStates

LEMMA InitInv == Init => Inv
<1> SUFFICES ASSUME Init PROVE Inv
  OBVIOUS
<1>1. request \in [Requests -> RequestState] /\ \A r \in Requests : RequestSound(request[r])
  BY IdleSound DEF Init
<1>2. participant \in [Conversations -> [Identities -> Participation \cup {None}]]
  BY DEF Init, Participation
<1>3. \A w \in Webs : web[w] = "absent" \/ (web[w] \in Conversations /\ OwnerOf[web[w]] = w)
  BY DEF Init
<1>4. web \in [Webs -> WebStates \cup Conversations]
  BY <1>3 DEF Init, WebStates
<1>5. TypeOK
  BY <1>1, <1>2, <1>4 DEF Init, TypeOK
<1>6. BoundIsActive
  <2> SUFFICES ASSUME NEW w \in Webs, web[w] \in Conversations
               PROVE  conversation[web[w]] # "gone" /\ Active(web[w], w)
    BY DEF BoundIsActive, Active
  <2>1. OwnerOf[web[w]] = w /\ w \in Identities
    BY <1>3, BoundIsNoState DEF WebStates, Identities
  <2>2. participant[web[w]][w] = [role |-> "OWNER", status |-> "ACTIVE", joined |-> 0]
    BY <2>1 DEF Init
  <2>3. participant[web[w]][w] \in Participation
    BY <2>2 DEF Participation
  <2>4. participant[web[w]][w] # None /\ participant[web[w]][w].status = "ACTIVE"
    BY <2>2, <2>3, DistinctAssumption
  <2>5. conversation[web[w]] # "gone"
    BY DEF Init
  <2>. QED  BY <2>4, <2>5 DEF Active
<1>7. OwnersStarted /\ SpentStays
  BY DEF Init, OwnersStarted, SpentStays
<1>. QED  BY <1>1, <1>5, <1>6, <1>7 DEF Inv

(***************************************************************************)
(* Steps that let nobody in and write no conversation                      *)
(***************************************************************************)
\* A request moves on, and a web conversation that was not bound may be made or removed.
LEMMA RequestMoves ==
  ASSUME Inv, NEW r \in Requests, NEW q \in RequestState, RequestSound(q),
         request' = [request EXCEPT ![r] = q],
         UNCHANGED <<conversation, token, issued, participant, joins, clock, redeemed, spent>>,
         misled' \in SUBSET Tokens,
         web' \in [Webs -> WebStates \cup Conversations],
         \A w \in Webs : web'[w] \in Conversations => web'[w] = web[w] \/ (conversation[web'[w]] # "gone" /\ Active(web'[w], w)),
         \A w \in Webs : web[w] = "removed" => web'[w] = "removed"
  PROVE  Inv'
<1>1. TypeOK'
  BY DEF Inv, TypeOK
<1>2. OwnersStarted' /\ SpentStays'
  BY DEF Inv, OwnersStarted, SpentStays
<1>3. BoundIsActive'
  BY DEF Inv, BoundIsActive, Active
<1>4. ASSUME NEW s \in Requests PROVE RequestSound(request[s])'
  <2>1. request'[s] = IF s = r THEN q ELSE request[s]
    BY DEF Inv, TypeOK
  <2>2. RequestSound(request'[s])
    BY <2>1 DEF Inv
  <2>. QED  BY <2>2 DEF RequestSound, RedeemSound, BindSound, RemoveSound, Active
<1>. QED  BY <1>1, <1>2, <1>3, <1>4 DEF Inv

LEMMA BeginIssueInv ==
  ASSUME Inv, NEW r \in Requests, BeginIssue(r)
  PROVE  Inv'
<1>1. PICK i \in Issues : request' = [request EXCEPT ![r] = [Idle EXCEPT !.pc = "insert", !.kind = "issue", !.issue = i]]
  BY DEF BeginIssue
<1> DEFINE q == [Idle EXCEPT !.pc = "insert", !.kind = "issue", !.issue = i]
<1>2. q \in RequestState /\ RequestSound(q)
  BY DEF Idle, RequestState, RequestSound, RedeemSound, BindSound, RemoveSound
<1>. QED  BY <1>1, <1>2, RequestMoves DEF BeginIssue, history, Inv, TypeOK

LEMMA BeginJoinInv ==
  ASSUME Inv, NEW r \in Requests, NEW t \in Tokens, NEW w \in Webs, BeginJoin(r, t, w)
  PROVE  Inv'
<1> DEFINE q == [Idle EXCEPT !.pc = "read", !.kind = "join", !.token = t, !.who = w]
<1>1. q \in RequestState /\ RequestSound(q)
  BY DEF Idle, RequestState, RequestSound, RedeemSound, BindSound, RemoveSound, Identities
<1>2. /\ web' \in [Webs -> WebStates \cup Conversations]
      /\ \A v \in Webs : web'[v] = IF v = w THEN "unbound" ELSE web[v]
  BY DEF BeginJoin, Inv, TypeOK, WebStates
<1>3. web[w] # "removed" /\ "unbound" \notin Conversations
  BY BoundIsNoState DEF BeginJoin, WebStates
<1>4. request' = [request EXCEPT ![r] = q]
  BY DEF BeginJoin
<1>. QED  BY <1>1, <1>2, <1>3, <1>4, RequestMoves DEF BeginJoin, history, Inv, TypeOK

LEMMA BeginRedeemInv ==
  ASSUME Inv, NEW r \in Requests, NEW t \in Tokens, NEW s \in Senders, NEW kind \in {"turn", "consume"},
         BeginRedeem(r, kind, t, s)
  PROVE  Inv'
<1> DEFINE q == [Idle EXCEPT !.pc = "read", !.kind = kind, !.token = t, !.who = s]
<1>1. q \in RequestState /\ RequestSound(q)
  BY DEF Idle, RequestState, RequestSound, RedeemSound, BindSound, RemoveSound, Identities
<1>2. request' = [request EXCEPT ![r] = q]
  BY DEF BeginRedeem
<1>. QED  BY <1>1, <1>2, RequestMoves DEF BeginRedeem, history, Inv, TypeOK

\* What CleanUp does to the web conversations.
LEMMA CleanUpMoves ==
  ASSUME Inv, NEW r \in Requests, CleanUp(r)
  PROVE  /\ web' \in [Webs -> WebStates \cup Conversations]
         /\ \A w \in Webs : web'[w] = web[w] \/ web'[w] = "removed"
  BY DEF CleanUp, Inv, TypeOK, WebStates

\* A request ends, with or without a clean-up.
LEMMA Ends ==
  ASSUME Inv, NEW r \in Requests, Leave(r), CleanUp(r) \/ UNCHANGED web,
         UNCHANGED <<conversation, token, issued, participant, joins, clock, redeemed, spent>>,
         misled' \in SUBSET Tokens
  PROVE  Inv'
<1>1. /\ web' \in [Webs -> WebStates \cup Conversations]
      /\ \A w \in Webs : web'[w] = web[w] \/ web'[w] = "removed"
  BY CleanUpMoves DEF Inv, TypeOK
<1>2. "removed" \notin Conversations
  BY BoundIsNoState DEF WebStates
<1>. QED  BY <1>1, <1>2, IdleSound, RequestMoves DEF Leave

LEMMA ReadTokenInv ==
  ASSUME Inv, NEW r \in Requests, ReadToken(r)
  PROVE  Inv'
<1>1. request[r].token \in Tokens /\ request[r] \in RequestState /\ request[r].pc = "read"
  BY DEF ReadToken, Inv, TypeOK, RequestSound, RedeemSound
<1>2. CASE Usable(request[r].token, ExpectedTypes(r))
  <2> DEFINE q == [request[r] EXCEPT !.pc = "use", !.used = token[request[r].token].used]
  <2>1. token[request[r].token] \in TokenRow
    BY <1>1, <1>2 DEF Usable, Inv, TypeOK
  <2>2. q \in RequestState /\ q.pc = "use" /\ q.token = request[r].token /\ q.who = request[r].who /\ q.kind = request[r].kind
    BY <1>1, <2>1 DEF RequestState, TokenRow
  <2>3. RequestSound(q)
    BY <1>1, <2>2 DEF Inv, RequestSound, RedeemSound, BindSound, RemoveSound
  <2>4. request' = [request EXCEPT ![r] = q]
    BY <1>2 DEF ReadToken
  <2>5. UNCHANGED <<conversation, token, issued, participant, joins, clock, redeemed, spent, misled, web>>
    BY <1>2 DEF ReadToken, history
  <2>. QED  BY <2>2, <2>3, <2>4, <2>5, RequestMoves DEF Inv, TypeOK
<1>3. CASE ~Usable(request[r].token, ExpectedTypes(r))
  BY <1>3, Ends DEF ReadToken, history, Inv, TypeOK
<1>. QED  BY <1>2, <1>3

LEMMA BindInv ==
  ASSUME Inv, NEW r \in Requests, Bind(r)
  PROVE  Inv'
<1> DEFINE q == request[r]
<1>1. q.conv \in Conversations /\ q.who \in Webs /\ BindSound(q) /\ q.pc = "bind"
  BY DEF Bind, Inv, RequestSound, BindSound
<1>2. UNCHANGED <<conversation, token, issued, participant, joins, clock, redeemed, spent, misled>> /\ Leave(r)
  BY DEF Bind, history
<1>3. CASE web[q.who] = "unbound" /\ conversation[q.conv] # "gone"
  <2>1. web' = [web EXCEPT ![q.who] = q.conv]
    BY <1>3 DEF Bind
  <2>2. Active(q.conv, q.who)
    BY <1>1, <1>3 DEF BindSound
  <2>3. web' \in [Webs -> WebStates \cup Conversations] /\ \A w \in Webs : web'[w] = IF w = q.who THEN q.conv ELSE web[w]
    BY <1>1, <2>1 DEF Inv, TypeOK
  <2>. QED  BY <1>1, <1>2, <1>3, <2>2, <2>3, IdleSound, RequestMoves DEF Leave, Inv, TypeOK
<1>4. CASE ~(web[q.who] = "unbound" /\ conversation[q.conv] # "gone")
  BY <1>2, <1>4, Ends DEF Bind, Inv, TypeOK
<1>. QED  BY <1>3, <1>4

LEMMA ResolveTurnInv ==
  ASSUME Inv, NEW r \in Requests, ResolveTurn(r)
  PROVE  Inv'
<1>1. misled' \in SUBSET Tokens
  <2>1. request[r].token \in Tokens
    BY DEF ResolveTurn, Inv, RequestSound, RedeemSound
  <2>. QED  BY <2>1 DEF ResolveTurn, Inv, TypeOK
<1>. QED  BY <1>1, Ends DEF ResolveTurn

LEMMA BeginRemoveInv ==
  ASSUME Inv, NEW r \in Requests, NEW w \in Webs, BeginRemove(r, w)
  PROVE  Inv'
<1> DEFINE c == IF web[w] = "unbound" THEN None ELSE web[w]
           member == c # None /\ IsMember(w, c)
           q == [Idle EXCEPT !.pc = "remove", !.kind = "remove", !.who = w, !.conv = c, !.member = member]
<1>1. request' = [request EXCEPT ![r] = q]
  BY DEF BeginRemove
<1>2. c \in Conversations \cup {None} /\ member \in BOOLEAN /\ w \in Identities
  BY DEF BeginRemove, Inv, TypeOK, WebStates, Identities
<1>3. c # None /\ ~member => w = OwnerOf[c]
  <2> SUFFICES ASSUME c # None, ~IsMember(w, c) PROVE w = OwnerOf[c]
    OBVIOUS
  <2>1. c = web[w] /\ c \in Conversations
    BY <1>2
  <2>2. participant[c][w] \in Participation /\ participant[c][w] # None
    BY <1>2, <2>1 DEF Inv, BoundIsActive, TypeOK
  <2>3. participant[c][w].role = "OWNER"
    BY <2>2 DEF IsMember, Participation
  <2>. QED  BY <1>2, <2>1, <2>2, <2>3 DEF Inv, OwnersStarted
<1>6. member => c # None
  OBVIOUS
<1> HIDE DEF c, member
<1>4. /\ q \in RequestState /\ q.pc = "remove" /\ q.who = w /\ q.conv = c /\ q.kind = "remove" /\ (q.member <=> member)
  BY <1>2 DEF Idle, RequestState
<1>5. RequestSound(q)
  BY <1>3, <1>4, <1>6 DEF RequestSound, RedeemSound, BindSound, RemoveSound
<1>. QED  BY <1>1, <1>4, <1>5, RequestMoves DEF BeginRemove, history, Inv, TypeOK

LEMMA FailInv ==
  ASSUME Inv, NEW r \in Requests, Fail(r) \/ Crash(r)
  PROVE  Inv'
  BY Ends DEF Fail, Crash, history, Inv, TypeOK

(***************************************************************************)
(* Tokens                                                                  *)
(***************************************************************************)
\* What a step that only writes tokens must keep.
LEMMA TokensMove ==
  ASSUME Inv, UNCHANGED <<conversation, participant, web, joins, clock, redeemed, spent, misled>>,
         request' \in [Requests -> RequestState],
         \A r \in Requests : request'[r] = request[r] \/ request'[r] = Idle,
         token' \in [Tokens -> TokenRow \cup {None}], issued \subseteq issued', issued' \in SUBSET Tokens,
         \A t \in Tokens : token'[t] # None => t \in issued',
         \A t \in spent : token'[t] # None => token[t] # None /\ (token[t].consumed => token'[t].consumed)
  PROVE  Inv'
<1>1. TypeOK' /\ BoundIsActive' /\ OwnersStarted'
  BY DEF Inv, TypeOK, BoundIsActive, OwnersStarted
<1>2. SpentStays'
  BY DEF Inv, SpentStays
<1>3. ASSUME NEW r \in Requests PROVE RequestSound(request[r])'
  <2>1. RequestSound(request'[r])
    BY IdleSound DEF Inv
  <2>. QED  BY <2>1 DEF RequestSound, RedeemSound, BindSound, RemoveSound, Active
<1>. QED  BY <1>1, <1>2, <1>3 DEF Inv

LEMMA InsertTokenInv ==
  ASSUME Inv, NEW r \in Requests, InsertToken(r)
  PROVE  Inv'
<1>1. request' \in [Requests -> RequestState] /\ \A s \in Requests : request'[s] = request[s] \/ request'[s] = Idle
  BY IdleSound DEF InsertToken, Leave, Inv, TypeOK
<1>2. CASE conversation[request[r].issue.conv] = "gone"
  <2>1. UNCHANGED <<token, issued>>
    BY <1>2 DEF InsertToken
  <2>. QED  BY <1>1, <2>1, TokensMove DEF InsertToken, history, Inv, TypeOK, SpentStays
<1>3. CASE conversation[request[r].issue.conv] # "gone"
  <2> DEFINE new == [issue |-> request[r].issue, expiresAt |-> clock + Lifetime,
                     revoked |-> FALSE, consumed |-> FALSE, used |-> 0]
  <2>1. PICK t \in Tokens \ issued : issued' = issued \cup {t} /\ token' = [token EXCEPT ![t] = new]
    BY <1>3 DEF InsertToken
  <2>2. request[r].issue \in Issues
    BY DEF InsertToken, Inv, RequestSound, RedeemSound
  <2>3. new \in TokenRow
    BY <2>2, BoundsAssumption DEF TokenRow, Inv, TypeOK
  <2>4. token' \in [Tokens -> TokenRow \cup {None}] /\ \A s \in Tokens : s # t => token'[s] = token[s]
    BY <2>1, <2>3 DEF Inv, TypeOK
  <2>5. issued' \in SUBSET Tokens /\ issued \subseteq issued'
    BY <2>1 DEF Inv, TypeOK
  <2>6. \A s \in Tokens : token'[s] # None => s \in issued'
    BY <2>1, <2>4 DEF Inv, SpentStays
  <2>7. \A s \in spent : s # t /\ s \in Tokens
    BY <2>1 DEF Inv, TypeOK, SpentStays
  <2>. QED  BY <1>1, <2>4, <2>5, <2>6, <2>7, TokensMove DEF InsertToken, history
<1>. QED  BY <1>2, <1>3

LEMMA RevokeInv ==
  ASSUME Inv, NEW t \in Tokens, Revoke(t)
  PROVE  Inv'
<1> DEFINE new == [token[t] EXCEPT !.revoked = TRUE]
<1>1. token[t] \in TokenRow /\ token[t] # None
  BY DEF Revoke, Inv, TypeOK
<1>2. new \in TokenRow /\ new.consumed = token[t].consumed
  BY <1>1 DEF TokenRow
<1>3. token' = [token EXCEPT ![t] = new]
  BY DEF Revoke
<1>4. token' \in [Tokens -> TokenRow \cup {None}] /\ \A s \in Tokens : token'[s] = IF s = t THEN new ELSE token[s]
  BY <1>2, <1>3 DEF Inv, TypeOK
<1>5. \A s \in spent : s \in Tokens
  BY DEF Inv, TypeOK
<1>. QED  BY <1>1, <1>2, <1>4, <1>5, TokensMove DEF Revoke, history, Inv, TypeOK, SpentStays

LEMMA UseTokenInv ==
  ASSUME Inv, NEW r \in Requests, UseToken(r)
  PROVE  Inv'
<1> DEFINE mine == request[r]
<1>1. mine.token \in Tokens /\ mine.who \in Identities /\ mine \in RequestState /\ mine.pc = "use"
  BY DEF UseToken, Inv, TypeOK, RequestSound, RedeemSound
<1> SUFFICES ASSUME NEW t \in Tokens, NEW i \in Identities, NEW c, NEW used,
                    t = request[r].token, i = request[r].who, c = ConversationOf(t), used = request[r].used + 1
             PROVE  Inv'
  BY <1>1
<1>2. token[t] \in TokenRow /\ token[t] # None /\ c \in Conversations /\ used \in Nat
  BY <1>1, IssuesAssumption DEF UseToken, Inv, TypeOK, TokenRow, ConversationOf, Issue, RequestState
<1> DEFINE row == [token[t] EXCEPT !.used = used, !.consumed = ConsumedAt(t, used)]
           p == Joined(participant[c][i])
           q == Afterwards(r, c)
<1>3. /\ token' = [token EXCEPT ![t] = row]
      /\ participant' = [participant EXCEPT ![c][i] = p]
      /\ joins' = IF participant[c][i] = None THEN joins + 1 ELSE joins
      /\ redeemed' = [redeemed EXCEPT ![t] = redeemed[t] + 1]
      /\ spent' = IF ReachesLimit(t, used) THEN spent \cup {t} ELSE spent
      /\ request' = [request EXCEPT ![r] = q]
      /\ UNCHANGED <<conversation, issued, web, clock, misled>>
  BY DEF UseToken
<1>4. row \in TokenRow /\ (ConsumedAt(t, used) => row.consumed)
  <2> DEFINE done == ConsumedAt(t, used)
  <2>1. done \in BOOLEAN
    BY <1>2 DEF ConsumedAt, ReachesLimit, TokenRow
  <2> HIDE DEF done
  <2>2. [token[t] EXCEPT !.used = used, !.consumed = done] \in TokenRow
    BY <1>2, <2>1 DEF TokenRow
  <2>3. [token[t] EXCEPT !.used = used, !.consumed = done].consumed = done
    BY <1>2 DEF TokenRow
  <2>. QED  BY <2>2, <2>3 DEF done
<1>5. /\ p \in Participation /\ p # None /\ p.status = "ACTIVE"
      /\ p.role = "OWNER" => participant[c][i] # None /\ participant[c][i].role = "OWNER"
  <2>1. joins + 1 \in Nat /\ participant[c][i] \in Participation \cup {None}
    BY <1>2 DEF Inv, TypeOK
  <2>2. CASE participant[c][i] = None
    BY <2>1, <2>2, DistinctAssumption DEF Joined, Joining, Participation
  <2>3. CASE participant[c][i] # None
    BY <2>1, <2>3, DistinctAssumption DEF Joined, Participation
  <2>. QED  BY <2>2, <2>3
<1>6. /\ participant' \in [Conversations -> [Identities -> Participation \cup {None}]]
      /\ participant'[c][i] = p
      /\ \A d \in Conversations, j \in Identities : d # c \/ j # i => participant'[d][j] = participant[d][j]
  BY <1>2, <1>3, <1>5 DEF Inv, TypeOK
<1> HIDE DEF row, p
<1>7. /\ q \in RequestState
      /\ q.pc \in {"bind", "resolve", "idle"}
      /\ q.pc = "bind" => q.kind = "join" /\ q.conv = c /\ q.who = i
      /\ q.pc = "resolve" => q.token = t /\ q.who = i
      /\ q.kind = "join" => q.who = i /\ mine.kind = "join"
  BY <1>1, <1>2 DEF Afterwards, Idle, RequestState
<1> HIDE DEF q
<1>8. TypeOK'
  <2>1. token' \in [Tokens -> TokenRow \cup {None}] /\ redeemed' \in [Tokens -> Nat] /\ joins' \in Nat
    BY <1>3, <1>4 DEF Inv, TypeOK
  <2>2. request' \in [Requests -> RequestState] /\ spent' \in SUBSET Tokens
    BY <1>3, <1>7 DEF Inv, TypeOK
  <2>. QED  BY <1>3, <1>6, <2>1, <2>2 DEF Inv, TypeOK
<1>9. BoundIsActive'
  BY <1>3, <1>5, <1>6 DEF Inv, BoundIsActive, TypeOK, Identities
<1>10. OwnersStarted'
  BY <1>2, <1>5, <1>6 DEF Inv, OwnersStarted
<1>11. SpentStays'
  <2>1. \A s \in Tokens : token'[s] = IF s = t THEN row ELSE token[s]
    BY <1>3 DEF Inv, TypeOK
  <2>2. t \in spent' => ConsumedAt(t, used)
    BY <1>2, <1>3 DEF Inv, SpentStays, ConsumedAt
  <2>. QED  BY <1>2, <1>3, <1>4, <2>1, <2>2 DEF Inv, TypeOK, SpentStays
<1>12. ASSUME NEW s \in Requests PROVE RequestSound(request[s])'
  <2>1. CASE s = r
    <3>1. request'[s] = q
      BY <1>3, <2>1 DEF Inv, TypeOK
    <3>2. q.kind = "join" => i \in Webs
      BY <1>7 DEF Inv, RequestSound, RedeemSound
    <3>. QED  BY <1>2, <1>5, <1>6, <1>7, <3>1, <3>2 DEF RequestSound, RedeemSound, BindSound, RemoveSound, Active
  <2>2. CASE s # r
    <3>1. request'[s] = request[s] /\ RequestSound(request[s])
      BY <1>3, <2>2 DEF Inv, TypeOK
    <3>2. \A d \in Conversations, j \in Webs : Active(d, j) => Active(d, j)'
      BY <1>5, <1>6 DEF Active, Identities
    <3>. QED  BY <1>3, <3>1, <3>2 DEF RequestSound, RedeemSound, BindSound, RemoveSound
  <2>. QED  BY <2>1, <2>2
<1>. QED  BY <1>8, <1>9, <1>10, <1>11, <1>12 DEF Inv

(***************************************************************************)
(* Removal and deletion                                                    *)
(***************************************************************************)
\* A conversation is erased and no web conversation stays bound to it.
LEMMA EraseInv ==
  ASSUME Inv, NEW c \in Conversations, Erased(c),
         UNCHANGED <<issued, joins, clock, redeemed, spent, misled>>,
         request' \in [Requests -> RequestState],
         \A r \in Requests : request'[r] = request[r] \/ request'[r] = Idle,
         web' \in [Webs -> WebStates \cup Conversations],
         \A w \in Webs : web'[w] \in Conversations => web'[w] = web[w] /\ web'[w] # c,
         \A w \in Webs : web[w] = "removed" => web'[w] = "removed"
  PROVE  Inv'
<1>1. /\ conversation' \in [Conversations -> {"live", "deleted", "gone"}]
      /\ conversation'[c] = "gone"
      /\ \A d \in Conversations : d # c => conversation'[d] = conversation[d]
  BY DEF Erased, Inv, TypeOK
<1>2. /\ token' \in [Tokens -> TokenRow \cup {None}]
      /\ \A t \in Tokens : token'[t] = None \/ token'[t] = token[t]
  BY DEF Erased, CascadeTokens, Inv, TypeOK
<1>3. /\ participant' \in [Conversations -> [Identities -> Participation \cup {None}]]
      /\ \A i \in Identities : participant'[c][i] = None
      /\ \A d \in Conversations : d # c => participant'[d] = participant[d]
  BY DEF Erased, Inv, TypeOK
<1>4. TypeOK'
  BY <1>1, <1>2, <1>3 DEF Inv, TypeOK
<1>5. BoundIsActive'
  BY <1>1, <1>3 DEF Inv, BoundIsActive
<1>6. OwnersStarted'
  <2> SUFFICES ASSUME NEW d \in Conversations, NEW i \in Identities,
                      participant'[d][i] # None, participant'[d][i].role = "OWNER"
               PROVE  i = OwnerOf[d]
    BY DEF OwnersStarted
  <2>1. participant'[d] = participant[d]
    BY <1>3
  <2>. QED  BY <2>1 DEF Inv, OwnersStarted
<1>7. SpentStays'
  BY <1>2 DEF Inv, TypeOK, SpentStays
<1>8. ASSUME NEW r \in Requests PROVE RequestSound(request[r])'
  <2> DEFINE q == request'[r]
  <2>1. RequestSound(q)
    BY IdleSound DEF Inv
  <2>2. RedeemSound(request[r])' /\ RemoveSound(request[r])'
    BY <2>1 DEF RequestSound, RedeemSound, RemoveSound
  <2>3. BindSound(request[r])'
    <3> SUFFICES ASSUME q.pc = "bind"
                 PROVE  /\ q.conv \in Conversations /\ q.who \in Webs
                        /\ conversation'[q.conv] # "gone" /\ web'[q.who] # "removed" => ActiveNext(q.conv, q.who)
      BY DEF BindSound, Active, ActiveNext
    <3>1. /\ q.conv \in Conversations /\ q.who \in Webs
          /\ conversation[q.conv] # "gone" /\ web[q.who] # "removed" => Active(q.conv, q.who)
      BY <2>1 DEF RequestSound, BindSound
    <3>. QED  BY <1>1, <1>3, <3>1 DEF Active, ActiveNext
  <2>. QED  BY <2>2, <2>3 DEF RequestSound
<1>. QED  BY <1>4, <1>5, <1>6, <1>7, <1>8 DEF Inv

\* A member leaves and its web conversation goes.
LEMMA MemberLeavesInv ==
  ASSUME Inv, NEW c \in Conversations, NEW w \in Webs, participant[c][w] # None,
         UNCHANGED <<conversation, token, issued, joins, clock, redeemed, spent, misled>>,
         request' \in [Requests -> RequestState],
         \A r \in Requests : request'[r] = request[r] \/ request'[r] = Idle,
         web' = [web EXCEPT ![w] = "removed"],
         participant' = [participant EXCEPT ![c][w] = Left(participant[c][w])]
  PROVE  Inv'
<1> DEFINE p == Left(participant[c][w])
<1>1. participant[c][w] \in Participation /\ w \in Identities
  BY DEF Inv, TypeOK, Identities
<1>2. p \in Participation /\ p.role = participant[c][w].role
  BY <1>1 DEF Left, Participation
<1>3. participant' = [participant EXCEPT ![c] = [participant[c] EXCEPT ![w] = p]]
  BY <1>1 DEF Inv, TypeOK
<1> HIDE DEF p
<1>4. /\ participant' \in [Conversations -> [Identities -> Participation \cup {None}]]
      /\ participant'[c][w] = p
      /\ \A d \in Conversations, i \in Identities : d # c \/ i # w => participant'[d][i] = participant[d][i]
  <2> DEFINE row == [participant[c] EXCEPT ![w] = p]
  <2>1. row \in [Identities -> Participation \cup {None}] /\ row[w] = p
    BY <1>1, <1>2 DEF Inv, TypeOK
  <2>2. \A i \in Identities : i # w => row[i] = participant[c][i]
    BY DEF Inv, TypeOK
  <2> HIDE DEF row
  <2>3. participant' = [participant EXCEPT ![c] = row]
    BY <1>3 DEF row
  <2>4. participant'[c] = row /\ \A d \in Conversations : d # c => participant'[d] = participant[d]
    BY <2>3 DEF Inv, TypeOK
  <2>5. participant' \in [Conversations -> [Identities -> Participation \cup {None}]]
    BY <2>1, <2>3 DEF Inv, TypeOK
  <2>. QED  BY <2>1, <2>2, <2>4, <2>5
<1>5. /\ web' \in [Webs -> WebStates \cup Conversations]
      /\ \A v \in Webs : web'[v] = IF v = w THEN "removed" ELSE web[v]
  BY DEF Inv, TypeOK, WebStates
<1>6. "removed" \notin Conversations
  BY BoundIsNoState DEF WebStates
<1>7. TypeOK'
  BY <1>4, <1>5 DEF Inv, TypeOK
<1>8. BoundIsActive'
  BY <1>4, <1>5, <1>6 DEF Inv, BoundIsActive, Identities
<1>9. OwnersStarted'
  BY <1>2, <1>4 DEF Inv, OwnersStarted, Identities
<1>10. SpentStays'
  BY DEF Inv, SpentStays
<1>11. ASSUME NEW r \in Requests PROVE RequestSound(request[r])'
  <2> DEFINE q == request'[r]
  <2>1. RequestSound(q)
    BY IdleSound DEF Inv
  <2>2. RedeemSound(request[r])' /\ RemoveSound(request[r])'
    BY <2>1 DEF RequestSound, RedeemSound, RemoveSound
  <2>3. BindSound(request[r])'
    <3> SUFFICES ASSUME q.pc = "bind"
                 PROVE  /\ q.conv \in Conversations /\ q.who \in Webs
                        /\ conversation'[q.conv] # "gone" /\ web'[q.who] # "removed" => ActiveNext(q.conv, q.who)
      BY DEF BindSound, Active, ActiveNext
    <3>1. /\ q.conv \in Conversations /\ q.who \in Webs
          /\ conversation[q.conv] # "gone" /\ web[q.who] # "removed" => Active(q.conv, q.who)
      BY <2>1 DEF RequestSound, BindSound
    <3>. QED  BY <1>4, <1>5, <3>1 DEF Active, ActiveNext, Identities
  <2>. QED  BY <2>2, <2>3 DEF RequestSound
<1>. QED  BY <1>7, <1>8, <1>9, <1>10, <1>11 DEF Inv

LEMMA LeaveMoves ==
  ASSUME Inv, NEW r \in Requests, Leave(r)
  PROVE  /\ request' \in [Requests -> RequestState]
         /\ \A s \in Requests : request'[s] = request[s] \/ request'[s] = Idle
         /\ request'[r] = Idle
  BY IdleSound DEF Leave, Inv, TypeOK

LEMMA RemoveInv ==
  ASSUME Inv, NEW r \in Requests, Remove(r)
  PROVE  Inv'
<1> SUFFICES ASSUME NEW w, NEW c, w = request[r].who, c = request[r].conv PROVE Inv'
  OBVIOUS
<1>1. /\ w \in Webs /\ c \in Conversations \cup {None}
      /\ request[r].member => c # None
  BY DEF Remove, Inv, TypeOK, RequestState, RequestSound, RemoveSound
<1>2. Leave(r) /\ UNCHANGED <<issued, joins, clock, redeemed, spent, misled>>
  BY DEF Remove, history
<1>3. "removed" \notin Conversations /\ "removed" \in WebStates
  BY BoundIsNoState DEF WebStates
<1>4. CASE web' = [web EXCEPT ![w] = "removed"] /\ UNCHANGED <<conversation, token, participant>>
  <2>1. web' \in [Webs -> WebStates \cup Conversations] /\ \A v \in Webs : web'[v] = web[v] \/ web'[v] = "removed"
    BY <1>1, <1>3, <1>4 DEF Inv, TypeOK
  <2>. QED  BY <1>2, <1>3, <1>4, <2>1, IdleSound, RequestMoves DEF Leave, Inv, TypeOK
<1>5. CASE /\ request[r].member /\ participant[c][w] # None
           /\ web' = [web EXCEPT ![w] = "removed"]
           /\ participant' = [participant EXCEPT ![c][w] = Left(participant[c][w])]
           /\ UNCHANGED <<conversation, token>>
  <2>1. c # None
    BY <1>1, <1>5
  <2>2. c \in Conversations
    BY <1>1, <2>1
  <2>. QED  BY <1>1, <1>2, <1>5, <2>2, LeaveMoves, MemberLeavesInv
<1>6. CASE /\ c # None
           /\ web' = [v \in Webs |-> IF web[v] = c THEN "removed" ELSE web[v]]
           /\ Erased(c)
  <2>1. c \in Conversations
    <3>1. c # None
      BY <1>6
    <3>. QED  BY <1>1, <3>1
  <2>2. /\ web' \in [Webs -> WebStates \cup Conversations]
        /\ \A v \in Webs : web'[v] \in Conversations => web'[v] = web[v] /\ web'[v] # c
        /\ \A v \in Webs : web[v] = "removed" => web'[v] = "removed"
    BY <1>3, <1>6 DEF Inv, TypeOK
  <2>. QED  BY <1>2, <1>6, <2>1, <2>2, LeaveMoves, EraseInv
<1>. QED  BY <1>4, <1>5, <1>6 DEF Remove

LEMMA EraseByChatInv ==
  ASSUME Inv, NEW c \in Conversations, EraseByChat(c)
  PROVE  Inv'
<1>1. "unbound" \notin Conversations /\ "unbound" \in WebStates
  BY BoundIsNoState DEF WebStates
<1>2. "removed" # c
  BY BoundIsNoState DEF WebStates
<1>3. /\ web' \in [Webs -> WebStates \cup Conversations]
      /\ \A w \in Webs : web'[w] = IF web[w] = c THEN "unbound" ELSE web[w]
  BY <1>1 DEF EraseByChat, UnbindWebs, Inv, TypeOK
<1>4. UNCHANGED <<issued, joins, clock, redeemed, spent, misled, request>> /\ Erased(c)
  BY DEF EraseByChat, history
<1>. QED  BY <1>1, <1>2, <1>3, <1>4, EraseInv DEF Inv, TypeOK

LEMMA DashboardDeleteInv ==
  ASSUME Inv, NEW c \in Conversations, DashboardDelete(c)
  PROVE  Inv'
<1>1. /\ conversation' \in [Conversations -> {"live", "deleted", "gone"}]
      /\ \A d \in Conversations : conversation'[d] # "gone" <=> conversation[d] # "gone"
  BY DEF DashboardDelete, Inv, TypeOK
<1>2. UNCHANGED <<token, issued, participant, web, joins, clock, request, redeemed, spent, misled>>
  BY DEF DashboardDelete, history
<1>3. TypeOK' /\ BoundIsActive' /\ OwnersStarted' /\ SpentStays'
  BY <1>1, <1>2 DEF Inv, TypeOK, BoundIsActive, OwnersStarted, SpentStays
<1>4. ASSUME NEW r \in Requests PROVE RequestSound(request[r])'
  BY <1>1, <1>2 DEF Inv, RequestSound, RedeemSound, BindSound, RemoveSound, Active
<1>. QED  BY <1>3, <1>4 DEF Inv

LEMMA TickInv ==
  ASSUME Inv, Tick \/ UNCHANGED vars
  PROVE  Inv'
<1>1. clock' \in Nat /\ UNCHANGED <<conversation, token, issued, participant, web, joins, request, redeemed, spent, misled>>
  BY DEF Tick, vars, history, Inv, TypeOK
<1>. QED  BY <1>1 DEF Inv, TypeOK, BoundIsActive, OwnersStarted, SpentStays, RequestSound, RedeemSound,
                     BindSound, RemoveSound, Active

(***************************************************************************)
(* The theorems                                                            *)
(***************************************************************************)
LEMMA StepInv == Inv /\ [Next]_vars => Inv'
<1> SUFFICES ASSUME Inv, [Next]_vars PROVE Inv'
  OBVIOUS
<1>1. ASSUME NEW r \in Requests, RequestStep(r) PROVE Inv'
  <2>1. CASE BeginIssue(r)  BY <2>1, BeginIssueInv
  <2>2. CASE InsertToken(r)  BY <2>2, InsertTokenInv
  <2>3. CASE \E t \in Tokens, w \in Webs : BeginJoin(r, t, w)  BY <2>3, BeginJoinInv
  <2>4. CASE \E t \in Tokens, s \in Senders, kind \in {"turn", "consume"} : BeginRedeem(r, kind, t, s)
    BY <2>4, BeginRedeemInv
  <2>5. CASE ReadToken(r)  BY <2>5, ReadTokenInv
  <2>6. CASE UseToken(r)  BY <2>6, UseTokenInv
  <2>7. CASE Bind(r)  BY <2>7, BindInv
  <2>8. CASE ResolveTurn(r)  BY <2>8, ResolveTurnInv
  <2>9. CASE Fail(r) \/ Crash(r)  BY <2>9, FailInv
  <2>10. CASE \E w \in Webs : BeginRemove(r, w)  BY <2>10, BeginRemoveInv
  <2>11. CASE Remove(r)  BY <2>11, RemoveInv
  <2>. QED  BY <1>1, <2>1, <2>2, <2>3, <2>4, <2>5, <2>6, <2>7, <2>8, <2>9, <2>10, <2>11 DEF RequestStep
<1>2. ASSUME NEW t \in Tokens, Revoke(t) PROVE Inv'
  BY <1>2, RevokeInv
<1>3. ASSUME NEW c \in Conversations, EraseByChat(c) \/ DashboardDelete(c) PROVE Inv'
  BY <1>3, EraseByChatInv, DashboardDeleteInv
<1>4. CASE Tick \/ UNCHANGED vars
  BY <1>4, TickInv
<1>. QED  BY <1>1, <1>2, <1>3, <1>4 DEF Next

\* The inductive invariant holds in every reachable state.
THEOREM SharingInv == Spec => []Inv
<1>. QED  BY InitInv, StepInv, PTL DEF Spec

\* Every table, the requests' locals and the history variables have their types.
THEOREM SharingTyped == Spec => []TypeOK
<1>1. Inv => TypeOK
  BY DEF Inv
<1>. QED  BY <1>1, SharingInv, PTL

\* A bound web conversation belongs to an active participant of a conversation that
\* exists: joins that fail, removals and deletions never leave half of it.
THEOREM BoundStaysActive == Spec => []BoundIsActive
<1>1. Inv => BoundIsActive
  BY DEF Inv
<1>. QED  BY <1>1, SharingInv, PTL

LEMMA OtherStepsLeave ==
  ASSUME Inv, NEW r \in Requests, NEW s \in Requests, RequestStep(s), s # r
  PROVE  request'[r] = request[r]
  BY DEF RequestStep, BeginIssue, InsertToken, BeginJoin, BeginRedeem, ReadToken, UseToken, Bind,
         ResolveTurn, Fail, Crash, BeginRemove, Remove, Leave, Inv, TypeOK

\* A token somebody has used up lets nobody in who looks at it later, whatever a slower
\* redemption writes over its count.
THEOREM SpentStaysFinal == Spec => SpentIsFinal
<1>1. ASSUME Inv, [Next]_vars PROVE SpentStep
  <2> SUFFICES ASSUME NEW r \in Requests, request[r].pc = "read", request'[r].pc = "use"
               PROVE  request[r].token \notin spent
    BY DEF SpentStep
  <2>1. request'[r] # request[r]
    OBVIOUS
  <2>2. RequestStep(r)
    <3>1. PICK s \in Requests : RequestStep(s)
      BY <1>1, <2>1 DEF Next, Revoke, EraseByChat, DashboardDelete, Tick, vars
    <3>. QED  BY <1>1, <2>1, <3>1, OtherStepsLeave
  <2>3. request'[r].pc # "idle" /\ (Leave(r) => request'[r].pc = "idle")
    BY <1>1, LeaveMoves DEF Idle
  <2>4. ReadToken(r)
    BY <2>2, <2>3 DEF RequestStep, BeginIssue, InsertToken, BeginJoin, BeginRedeem, UseToken, Bind,
                      ResolveTurn, Fail, Crash, BeginRemove, Remove
  <2>5. Usable(request[r].token, ExpectedTypes(r))
    BY <2>3, <2>4 DEF ReadToken
  <2>. QED  BY <1>1, <2>5 DEF Usable, Inv, SpentStays
<1>. QED  BY <1>1, SharingInv, PTL DEF Spec, SpentIsFinal

\* A removal of a web conversation erases the shared conversation only when it is the
\* owner's: a member leaves without deleting what others share.
THEOREM MembersLeaveQuietly == Spec => MemberLeavesQuietly
<1>1. ASSUME Inv, [Next]_vars PROVE MemberLeavesStep
  <2> SUFFICES ASSUME NEW c \in Conversations, NEW w \in Webs,
                      conversation[c] # "gone", conversation'[c] = "gone",
                      web[w] = c, web'[w] = "removed"
               PROVE  /\ OwnerOf[c] \in Webs
                      /\ \E r \in Requests : request[r].who = OwnerOf[c] /\ request'[r] = Idle
    BY DEF MemberLeavesStep
  <2>1. conversation' # conversation
    BY <1>1
  <2>2. ASSUME NEW d \in Conversations PROVE ~EraseByChat(d) /\ ~DashboardDelete(d)
    <3>1. EraseByChat(d) => web'[w] = IF c = d THEN "unbound" ELSE c
      BY DEF EraseByChat, UnbindWebs
    <3>2. "removed" \notin Conversations
      BY BoundIsNoState DEF WebStates
    <3>3. DashboardDelete(d) => conversation'[c] # "gone"
      BY <1>1 DEF DashboardDelete, Inv, TypeOK
    <3>. QED  BY <3>1, <3>2, <3>3
  <2>3. PICK r \in Requests : RequestStep(r)
    BY <1>1, <2>1, <2>2 DEF Next, Revoke, Tick, vars
  <2>4. Remove(r) /\ ~UNCHANGED conversation
    BY <2>1, <2>3 DEF RequestStep, BeginIssue, InsertToken, BeginJoin, BeginRedeem, ReadToken, UseToken, Bind,
                      ResolveTurn, Fail, Crash, BeginRemove
  <2>5. request[r].conv # None /\ ~request[r].member /\ Erased(request[r].conv)
    BY <2>4 DEF Remove
  <2>6. request[r].conv \in Conversations
    BY <1>1, <2>5 DEF Inv, TypeOK, RequestState
  <2>7. c = request[r].conv
    BY <1>1, <2>5, <2>6 DEF Erased, Inv, TypeOK
  <2>8. request[r].who \in Webs /\ request[r].who = OwnerOf[c]
    BY <1>1, <2>4, <2>5, <2>7 DEF Remove, Inv, RequestSound, RemoveSound
  <2>9. request'[r] = Idle
    BY <1>1, <2>4, LeaveMoves DEF Remove
  <2>. QED  BY <2>8, <2>9
<1>. QED  BY <1>1, SharingInv, PTL DEF Spec, MemberLeavesQuietly
=============================================================================
