-------------------------------- MODULE Cards --------------------------------
(***************************************************************************)
(* The question an agent asks, on the screen of the person who answers it: *)
(* the requests as the gateway keeps them, the events that tell the chat   *)
(* window of them, the list it asks for when the gateway is back (app.js   *)
(* showPermissionCard, recoverPermissionCards, onCoreEvent) and the chips. *)
(***************************************************************************)
EXTENDS Naturals, Sequences, SequencesExt, FiniteSets

CONSTANTS
  CardIds,       \* permission requests
  MaxDrops    \* bound: how often the line, or an answer, is lost

ASSUME CardsAssumption == IsFiniteSet(CardIds) /\ MaxDrops \in Nat

VARIABLES
  request,   \* at the gateway: each is unasked, open, given, refused or expired
  feed,      \* events the window has not had, oldest first
  live,      \* the event stream is up
  heardAny,  \* it has had an event, so it is resumed from there
  reachable, \* gatewayOk, as the window has it
  recovery,  \* the list of open requests: asked for, and what is left to show
  cardFor,   \* requests with a card
  pressed,   \* requests whose chip was pressed and not yet settled: the decision
  owed,      \* history: requests the window was told are open
  botched,   \* history: requests whose decision failed
  drops
cardVars == <<request, feed, live, heardAny, reachable, recovery, cardFor, pressed, owed, botched, drops>>

NoList == [asked |-> FALSE, left |-> {}]
OpenAsks == {r \in CardIds : request[r] = "open"}

CardsInit ==
  /\ request = [r \in CardIds |-> "unasked"] /\ feed = <<>> /\ live = FALSE /\ heardAny = FALSE
  /\ reachable = FALSE /\ recovery = NoList /\ cardFor = {} /\ pressed = [r \in CardIds |-> ""]
  /\ owed = {} /\ botched = {} /\ drops = 0

FeedTold(r, what) == feed' = IF live \/ heardAny THEN Append(feed, [id |-> r, what |-> what]) ELSE feed

(* The gateway: a request is raised, or nobody answers it.                 *)
Raised(r) ==
  /\ request[r] = "unasked" /\ request' = [request EXCEPT ![r] = "open"] /\ FeedTold(r, "requested")
  /\ UNCHANGED <<live, heardAny, reachable, recovery, cardFor, pressed, owed, botched, drops>>
Expires(r) ==
  /\ request[r] = "open" /\ request' = [request EXCEPT ![r] = "expired"] /\ FeedTold(r, "resolved")
  /\ UNCHANGED <<live, heardAny, reachable, recovery, cardFor, pressed, owed, botched, drops>>

-----------------------------------------------------------------------------
(* The lines: the stream comes and goes and is resumed from the last event *)
(* it brought, which at first is none; the health check is another line,   *)
(* and its coming back asks for what is open.                              *)
StreamUp ==
  /\ ~live /\ live' = TRUE
  /\ UNCHANGED <<request, feed, heardAny, reachable, recovery, cardFor, pressed, owed, botched, drops>>
StreamDown ==
  /\ live /\ live' = FALSE /\ drops < MaxDrops /\ drops' = drops + 1
  /\ feed' = IF heardAny THEN feed ELSE <<>>
  /\ UNCHANGED <<request, heardAny, reachable, recovery, cardFor, pressed, owed, botched>>
Unreachable ==
  /\ reachable /\ reachable' = FALSE /\ drops < MaxDrops /\ drops' = drops + 1
  /\ UNCHANGED <<request, feed, live, heardAny, recovery, cardFor, pressed, owed, botched>>
Reachable ==
  /\ ~reachable /\ reachable' = TRUE
  /\ recovery' = [recovery EXCEPT !.asked = TRUE]
  /\ UNCHANGED <<request, feed, live, heardAny, cardFor, pressed, owed, botched, drops>>

(* The list as it was when the gateway read it, and each of it shown; the  *)
(* first card opens the panel, which is awaited before the next.           *)
Listed ==
  /\ recovery.asked /\ recovery' = [asked |-> FALSE, left |-> recovery.left \cup OpenAsks]
  /\ owed' = owed \cup OpenAsks
  /\ UNCHANGED <<request, feed, live, heardAny, reachable, cardFor, pressed, botched, drops>>
NotListed ==
  /\ recovery.asked /\ drops < MaxDrops /\ drops' = drops + 1
  /\ recovery' = [recovery EXCEPT !.asked = FALSE]
  /\ UNCHANGED <<request, feed, live, heardAny, reachable, cardFor, pressed, owed, botched>>
(* Mutation: the first card is the last.                                   *)
ShowsFirst(r) ==
  cardFor' = cardFor \cup {r} /\ recovery' = NoList
ShowsNext(r) ==
  /\ cardFor' = cardFor \cup {r}
  /\ recovery' = [recovery EXCEPT !.left = @ \ {r}]
Recovered ==
  /\ \E r \in recovery.left : ShowsNext(r)
  /\ UNCHANGED <<request, feed, live, heardAny, reachable, pressed, owed, botched, drops>>

-----------------------------------------------------------------------------
(* An event arrives: a card for what is asked, and for what was resolved   *)
(* the card taken away if there is one.                                    *)
Arrived ==
  /\ live /\ feed # <<>> /\ feed' = Tail(feed) /\ heardAny' = TRUE
  /\ IF Head(feed).what = "requested"
     THEN cardFor' = cardFor \cup {Head(feed).id} /\ owed' = owed \cup {Head(feed).id}
     ELSE cardFor' = cardFor \ {Head(feed).id} /\ UNCHANGED owed
  /\ UNCHANGED <<request, live, reachable, recovery, pressed, botched, drops>>

(* The person presses a chip, and the gateway takes the decision unless    *)
(* the request is no longer open; or the call fails, on its way or on the  *)
(* way back, and the card goes all the same.                               *)
DecisionPressed(r, decision) ==
  /\ r \in cardFor /\ pressed[r] = "" /\ pressed' = [pressed EXCEPT ![r] = decision]
  /\ UNCHANGED <<request, feed, live, heardAny, reachable, recovery, cardFor, owed, botched, drops>>
Settled(r) == pressed' = [pressed EXCEPT ![r] = ""] /\ cardFor' = cardFor \ {r}
Decided(r) ==
  /\ pressed[r] # "" /\ Settled(r)
  /\ IF request[r] = "open"
     THEN request' = [request EXCEPT ![r] = pressed[r]] /\ FeedTold(r, "resolved")
     ELSE UNCHANGED <<request, feed>>
  /\ UNCHANGED <<live, heardAny, reachable, recovery, owed, botched, drops>>
Undecided(r) ==
  /\ pressed[r] # "" /\ drops < MaxDrops /\ drops' = drops + 1 /\ Settled(r)
  /\ botched' = botched \cup {r}
  /\ \/ UNCHANGED <<request, feed>>
     \/ request[r] = "open" /\ request' = [request EXCEPT ![r] = pressed[r]] /\ FeedTold(r, "resolved")
  /\ UNCHANGED <<live, heardAny, reachable, recovery, owed>>

CardsNext ==
  \/ \E r \in CardIds : Raised(r) \/ Expires(r) \/ Decided(r) \/ Undecided(r)
  \/ \E r \in CardIds, d \in {"given", "refused"} : DecisionPressed(r, d)
  \/ StreamUp \/ StreamDown \/ Unreachable \/ Reachable \/ Listed \/ NotListed \/ Recovered \/ Arrived

CardsSpec == CardsInit /\ [][CardsNext]_cardVars

-----------------------------------------------------------------------------
(* Every variable holds a value of its kind.                               *)
CardsTypeOK ==
  /\ request \in [CardIds -> {"unasked", "open", "given", "refused", "expired"}]
  /\ feed \in Seq([id : CardIds, what : {"requested", "resolved"}])
  /\ {live, heardAny, reachable} \subseteq BOOLEAN
  /\ recovery \in [asked : BOOLEAN, left : SUBSET CardIds]
  /\ pressed \in [CardIds -> {"", "given", "refused"}]
  /\ (cardFor \cup owed \cup botched) \subseteq CardIds /\ drops \in 0 .. MaxDrops

Calm == recovery = NoList /\ \A r \in CardIds : pressed[r] = ""

(* Once the window has been told of an open request it shows it, through   *)
(* drops of the stream and of the gateway and through the recovery of the  *)
(* cards, until it is answered: only a decision that failed loses its card *)
(* (app.js recoverPermissionCards).                                        *)
ToldMeansShown == Calm => owed \cap OpenAsks \subseteq cardFor \cup botched

(* "A question nobody can see is a no in ten minutes, and that should be a *)
(* choice rather than an accident" (app.js:884). Violated: when the        *)
(* decision does not reach the gateway the card goes and nothing brings it *)
(* back while the gateway stays reachable.                                 *)
QuestionIsSeen ==
  Calm /\ reachable /\ live /\ feed = <<>> => owed \cap OpenAsks \subseteq cardFor
=============================================================================
