------------------------------ MODULE Pairing ------------------------------
(***************************************************************************)
(* How a browser extension comes to be trusted. The extension's worker     *)
(* (browser-extension/background.js: pair, post, heartbeat) keeps a token  *)
(* in the browser's storage; the desktop's transport                       *)
(* (main/browser-transport.js) keeps the hash of one token per origin and  *)
(* asks the person, one question at a time, before it gives one out.       *)
(*                                                                         *)
(* The worker sends several requests at once, each with the token of its   *)
(* own moment, and may be put to sleep with all of them outstanding; the   *)
(* person may take any time over the question; fren may be reset, and      *)
(* forget its pairs, in between.                                           *)
(***************************************************************************)
EXTENDS Naturals, FiniteSets

CONSTANTS
  Origins,     \* the extensions installed
  Nobody,      \* no question on the screen
  MaxTokens,   \* bound: tokens fren gives out
  MaxResets,   \* bound: how often fren loses its pairs, or is restarted
  MaxSleeps    \* bound: how often a worker dies with requests outstanding

ASSUME PairingAssumption ==
  /\ Nobody \notin Origins
  /\ MaxTokens \in Nat \ {0} /\ MaxResets \in Nat /\ MaxSleeps \in Nat

VARIABLES
  token,      \* the extension's stored token; 0 is none
  pairing,    \* the extension's flag: a /pair request is outstanding
  sent,       \* the tokens its outstanding events and heartbeats carry
  refused,    \* the 401 answers on their way to it
  hash,       \* fren: the token whose hash is kept for the origin; 0 is none
  question,   \* fren: the origin the dialog asks about
  denied,     \* fren: the origins denied in this session
  given,      \* a token on its way to the extension that asked; 0 is none
  issued, resets, sleeps

inFlight     == <<pairing, sent, refused, given>>
fren     == <<hash, question, denied, issued>>
pairVars == <<token, inFlight, fren, resets, sleeps>>

PairInit ==
  /\ token = [o \in Origins |-> 0] /\ pairing = [o \in Origins |-> FALSE]
  /\ sent = [o \in Origins |-> {}] /\ refused = [o \in Origins |-> 0]
  /\ given = [o \in Origins |-> 0]
  /\ hash = [o \in Origins |-> 0] /\ question = Nobody /\ denied = {}
  /\ issued = 0 /\ resets = 0 /\ sleeps = 0

-----------------------------------------------------------------------------
(* The extension.                                                          *)

(* A page event or a heartbeat, with the token of this moment.             *)
PostFrom(o) ==
  /\ token[o] # 0 /\ Cardinality(sent[o]) < 2 /\ token[o] \notin sent[o]
  /\ sent' = [sent EXCEPT ![o] = @ \cup {token[o]}]
  /\ UNCHANGED <<token, pairing, refused, given, fren, resets, sleeps>>

(* Without a token both lead to pair(), which asks once at a time. Of what *)
(* fren answers, a dialog stays open; a refusal ends the request at once.  *)
(* Mutation: a denial is not remembered.                                   *)
MayAskAgain(o) == question = Nobody
MayAsk(o) == o \notin denied /\ question = Nobody

PairAttempt(o) ==
  /\ token[o] = 0 /\ ~pairing[o]
  /\ MayAsk(o) /\ issued < MaxTokens
  /\ pairing' = [pairing EXCEPT ![o] = TRUE] /\ question' = o
  /\ UNCHANGED <<token, sent, refused, given, hash, denied, issued, resets, sleeps>>

(* fren looks at the token and the origin of a request.                    *)
Authed(o, t) == t # 0 /\ hash[o] = t

Received(o, t) ==
  /\ t \in sent[o]
  /\ sent' = [sent EXCEPT ![o] = @ \ {t}]
  /\ refused' = IF Authed(o, t) THEN refused ELSE [refused EXCEPT ![o] = 1]
  /\ UNCHANGED <<token, pairing, given, fren, resets, sleeps>>

(* A 401: fren forgot us. Whatever token is stored by now is removed; the  *)
(* event's path pairs at once, the heartbeat's on its next turn.           *)
(* Mutation: a heartbeat that is refused changes nothing.                  *)
ForgottenNot(o) == token' = token
Forgotten(o) == token' = [token EXCEPT ![o] = 0]

Refusal(o) ==
  /\ refused[o] = 1
  /\ refused' = [refused EXCEPT ![o] = 0]
  /\ Forgotten(o)
  /\ UNCHANGED <<pairing, sent, given, fren, resets, sleeps>>

TokenArrives(o) ==
  /\ given[o] # 0 /\ pairing[o]
  /\ token' = [token EXCEPT ![o] = given[o]]
  /\ given' = [given EXCEPT ![o] = 0] /\ pairing' = [pairing EXCEPT ![o] = FALSE]
  /\ UNCHANGED <<sent, refused, fren, resets, sleeps>>

(* The browser stops the worker: its variables and its requests are gone,  *)
(* the stored token stays. The dialog in fren stays up.                    *)
WorkerSleeps(o) ==
  /\ sleeps < MaxSleeps /\ sleeps' = sleeps + 1
  /\ pairing' = [pairing EXCEPT ![o] = FALSE] /\ sent' = [sent EXCEPT ![o] = {}]
  /\ refused' = [refused EXCEPT ![o] = 0] /\ given' = [given EXCEPT ![o] = 0]
  /\ UNCHANGED <<token, fren, resets>>

-----------------------------------------------------------------------------
(* fren. The person allows: a new token replaces the old one of the origin.*)
Allow ==
  /\ question # Nobody
  /\ issued' = issued + 1
  /\ hash' = [hash EXCEPT ![question] = issued']
  /\ given' = [given EXCEPT ![question] = IF pairing[question] THEN issued' ELSE 0]
  /\ question' = Nobody
  /\ UNCHANGED <<token, pairing, sent, refused, denied, resets, sleeps>>

Deny ==
  /\ question # Nobody
  /\ denied' = denied \cup {question}
  /\ pairing' = [pairing EXCEPT ![question] = FALSE]
  /\ question' = Nobody
  /\ UNCHANGED <<token, sent, refused, given, hash, issued, resets, sleeps>>

(* fren is started again, with its pairs or with a new profile: the dialog *)
(* goes, the refusals of the session are forgotten, the requests fail.     *)
FrenRestarts ==
  /\ resets < MaxResets /\ resets' = resets + 1
  /\ hash' \in {hash, [o \in Origins |-> 0]}
  /\ question' = Nobody /\ denied' = {}
  /\ pairing' = [o \in Origins |-> FALSE] /\ given' = [o \in Origins |-> 0]
  /\ sent' = [o \in Origins |-> {}]
  /\ UNCHANGED <<token, refused, issued, sleeps>>

PairNext ==
  \/ \E o \in Origins : \/ PostFrom(o) \/ PairAttempt(o) \/ Refusal(o) \/ TokenArrives(o)
                        \/ WorkerSleeps(o) \/ \E t \in sent[o] : Received(o, t)
  \/ Allow \/ Deny \/ FrenRestarts

(* The alarm beats every half minute; requests and answers arrive. Nothing *)
(* needs the extension to ask for a new token, or the person to answer.    *)
PairFair ==
  \A o \in Origins : /\ WF_pairVars(PostFrom(o)) /\ WF_pairVars(Refusal(o))
                     /\ WF_pairVars(\E t \in sent[o] : Received(o, t))

PairSpec == PairInit /\ [][PairNext]_pairVars /\ PairFair

-----------------------------------------------------------------------------
PairTypeOK ==
  /\ token \in [Origins -> 0..MaxTokens] /\ hash \in [Origins -> 0..MaxTokens]
  /\ given \in [Origins -> 0..MaxTokens] /\ pairing \in [Origins -> BOOLEAN]
  /\ \A o \in Origins : sent[o] \subseteq 1..MaxTokens
  /\ refused \in [Origins -> 0..1] /\ question \in Origins \cup {Nobody}
  /\ denied \subseteq Origins /\ issued \in 0..MaxTokens
  /\ resets \in 0..MaxResets /\ sleeps \in 0..MaxSleeps

(* "A denied origin stays denied for the session": the dialog never asks   *)
(* about it again, however often its extension retries                     *)
(* (browser-transport.js handlePair).                                      *)
DeniedStays == question \notin denied

(* The extension does not sit on a token fren no longer knows: it trades   *)
(* it in, or is denied, or gives it up (background.js post and heartbeat). *)
NoDeadToken ==
  \A o \in Origins : (token[o] # hash[o] /\ token[o] # 0) ~> (token[o] = hash[o] \/ token[o] = 0)
=============================================================================
