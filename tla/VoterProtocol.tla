----------------------------- MODULE VoterProtocol -----------------------------
(***************************************************************************)
(* The voter's way through an election: the application in a browser       *)
(* (web/voter-app/src/main.ts) or on a telephone (VoterFlow.swift with     *)
(* VoterModel.swift), the wallet that carries the request, the office that *)
(* signs it and the box that takes the ballots.  src/ovpoc/voter.py and    *)
(* rsabssa.py are the same sequence in one piece.                          *)
(*                                                                         *)
(* A browser keeps what it has in the storage of its tab; a telephone      *)
(* keeps nothing.  Ballots travel on their own: a voter's application may  *)
(* stop waiting for one that arrives later.  The office and the box are    *)
(* reduced to what decides a voter's fate; RegistrationOffice and          *)
(* BallotBox have the rest.                                                *)
(*                                                                         *)
(* A key, a blinding and a nonce are numbered by the draw they come from.  *)
(* What is blinded for a key of the office can be unblinded only from a    *)
(* signature by that key, and only with the secret drawn with it.          *)
(***************************************************************************)
EXTENDS Naturals, Sequences, FiniteSets

CONSTANTS
    Citizens,
    Ids,        \* the identifiers of the elections, in order; an operator's text
    MaxDraws,   \* bound: keys and blindings each citizen's application draws
    MaxMarks,   \* bound: ballots each citizen marks
    MaxFaults,  \* bound: reloads, answers not waited for, signings that raise
    None        \* neither a key nor a token

ASSUME VoterConstantsOK ==
    /\ Len(Ids) \in Nat \ {0}
    /\ LET keys == [who : Citizens, draw : Nat]
       IN  None \notin keys /\ None \notin [key : keys \union {None}, by : Nat]
    /\ {MaxDraws, MaxMarks} \subseteq [Citizens -> Nat]
    /\ MaxFaults \in Nat

VARIABLES
    phones,    \* the citizens whose application runs on a telephone
    election,  \* the one that is served, by its place in Ids
    phase,     \* of the box
    registry,  \* the accepted ballots
    released,  \* citizens the office has signed for
    held,      \* requests waiting for an operator
    replies,   \* what the office has signed, by blinded key
    app,       \* what each application has in memory
    stored,    \* what a browser keeps in the storage of its tab
    wallet,    \* the request a wallet has loaded
    shows,     \* the election a wallet in a browser fetched when its page loaded
    wire,      \* ballots on their way, and answers on theirs
    told,      \* the answers an application has shown its voter
    draws, marks, faults

officeVars == <<released, held, replies>>
boxVars == <<phase, registry>>
walletVars == <<wallet, shows>>
clientVars == <<app, stored, walletVars, told>>
counters == <<draws, marks, faults>>
vars == <<phones, election, boxVars, officeVars, clientVars, wire, counters>>

Page(pinned, live) ==
    [pinned |-> pinned, key |-> None, blind |-> None, token |-> None,
     sheets |-> {}, live |-> live]
Empty == [id |-> None, key |-> None, blind |-> None, token |-> None, casts |-> {}]

Browsers == Citizens \ phones

Fault == faults < MaxFaults /\ faults' = faults + 1

Init ==
    /\ phones \in SUBSET Citizens
    /\ election = 1
    /\ phase = "not opened" /\ registry = <<>>
    /\ released = {} /\ held = [c \in Citizens |-> None] /\ replies = {}
    /\ app = [c \in Citizens |-> Page(None, {})]
    /\ stored = [c \in Citizens |-> Empty]
    /\ wallet = [c \in Citizens |-> None] /\ shows = [c \in Citizens |-> election]
    /\ wire = {}
    /\ told = [c \in Citizens |-> {}]
    /\ draws = [c \in Citizens |-> 0]
    /\ marks = [c \in Citizens |-> 0]
    /\ faults = 0

-----------------------------------------------------------------------------
(* Keys, blinding and tokens.                                              *)

Key(c, n) == [who |-> c, draw |-> n]
Blinded(key, e, n) == [key |-> key, under |-> e, draw |-> n]
BlindSign(blind) == [blind |-> blind, by |-> election]

\* `finalize` verifies before it returns: the signature is by the key it was
\* blinded for, which is the pinned one, and covers the key that is held.
Finalizes(a, reply) ==
    /\ reply.blind = a.blind
    /\ reply.by = a.blind.under
    /\ a.blind.under = a.pinned
    /\ a.blind.key = a.key

Token(key, e) == [key |-> key, by |-> e]
Verifies(token, key, e) == token = Token(key, e)

-----------------------------------------------------------------------------
(* The application in a browser.  `live` holds the buttons that work, and  *)
(* what its loop for the reply is at.                                      *)

\* The page pins what is served, and picks up what it had been doing if that
\* was for an election of this name.  What it shows again has live buttons,
\* the ballots that were answered among them.
Restored(saved) ==
    [pinned |-> election, key |-> saved.key, blind |-> saved.blind, token |-> saved.token,
     sheets |-> saved.casts,
     live |-> {"keygen", "blind"}
                \union (IF saved.blind = None THEN {} ELSE {"collect"})
                \union (IF Verifies(saved.token, saved.key, election) THEN {"mark"} ELSE {})]

Load(c) ==
    /\ c \in Browsers
    /\ app[c].pinned = None
    /\ LET saved == stored[c]
           mine  == saved.key # None /\ saved.id = Ids[election]
       IN  /\ app' = [app EXCEPT ![c] = IF mine THEN Restored(saved)
                                        ELSE Page(election, {"keygen"})]
           /\ stored' = [stored EXCEPT ![c] = IF mine THEN saved ELSE Empty]
    /\ UNCHANGED <<phones, election, boxVars, officeVars, walletVars, wire, told, counters>>

Draw(c) == draws[c] < MaxDraws[c] /\ draws' = [draws EXCEPT ![c] = @ + 1]

\* `doKeygen`: what is kept beside the key stays as it was.
Keygen(c) ==
    /\ "keygen" \in app[c].live
    /\ Draw(c)
    /\ LET key == Key(c, draws'[c])
       IN  /\ app' = [app EXCEPT ![c].key = key,
                                 ![c].live = (@ \ {"keygen"}) \union {"blind"}]
           /\ stored' = [stored EXCEPT ![c].key = key, ![c].id = Ids[app[c].pinned]]
    /\ UNCHANGED <<phones, election, boxVars, officeVars, walletVars, wire, told, marks, faults>>

DoBlind(c) ==
    /\ "blind" \in app[c].live
    /\ Draw(c)
    /\ LET blind == Blinded(app[c].key, app[c].pinned, draws'[c])
       IN  /\ app' = [app EXCEPT ![c].blind = blind,
                                 ![c].live = (@ \ {"blind"}) \union {"collect"}]
           /\ stored' = [stored EXCEPT ![c].blind = blind]
    /\ UNCHANGED <<phones, election, boxVars, officeVars, walletVars, wire, told, marks, faults>>

\* `enrol` of the telephone: one tap pins, draws and blinds.
Enrol(c) ==
    /\ c \in phones
    /\ app[c].pinned = None
    /\ Draw(c)
    /\ LET key == Key(c, draws'[c])
       IN  app' = [app EXCEPT ![c] = [Page(election, {"collect"}) EXCEPT
                       !.key = key, !.blind = Blinded(key, election, draws'[c])]]
    /\ UNCHANGED <<phones, election, boxVars, officeVars, stored, walletVars, wire, told, marks, faults>>

-----------------------------------------------------------------------------
(* The wallet and the office.                                              *)

\* The wallet of a browser fetches the configuration when its page loads, and
\* not again until it is reloaded.  (A reload that finds the same configuration
\* drops the request and nothing else; it is left out.)
WalletOpen(c) ==
    /\ c \in Browsers
    /\ shows[c] # election
    /\ shows' = [shows EXCEPT ![c] = election]
    /\ wallet' = [wallet EXCEPT ![c] = None]
    /\ UNCHANGED <<phones, election, boxVars, officeVars, app, stored, wire, told, counters>>

\* The file names the election and its digest as the application pinned them.
\* The wallet of a browser compares both with what its page has, that of a
\* telephone with what is served when the file is opened.
WalletLoad(c) ==
    /\ app[c].blind # None
    /\ app[c].pinned = IF c \in phones THEN election ELSE shows[c]
    /\ wallet' = [wallet EXCEPT ![c] = app[c].blind]
    /\ UNCHANGED <<phones, election, boxVars, officeVars, app, stored, shows, wire, told, counters>>

Mutant_HeldOnly(c) == held[c] # None
Claimed(c) == c \in released \/ held[c] # None

\* The release is recorded, and then the reply is kept for whoever presents the
\* blinded key, unless the signing raises.
Release(c, blind) ==
    /\ released' = released \union {c}
    /\ \/ replies' = replies \union {BlindSign(blind)} /\ UNCHANGED faults
       \/ Fault /\ UNCHANGED replies

\* [id, c, s], which says nothing of an election.
AuthRequest(c) == [voter |-> c, blinded |-> wallet[c]]

\* The citizen consents, whenever that is, and the wallet signs and sends.  The
\* office signs in its turn, or waits for an operator.
WalletSend(c) ==
    /\ wallet[c] # None
    /\ LET request == AuthRequest(c)
       IN  /\ ~Claimed(request.voter)
           /\ \/ Release(request.voter, request.blinded) /\ UNCHANGED held
              \/ /\ held' = [held EXCEPT ![request.voter] = request.blinded]
                 /\ UNCHANGED <<released, replies, faults>>
    /\ UNCHANGED <<phones, election, boxVars, clientVars, wire, draws, marks>>

Mutant_GetNotPop(c) ==
    /\ held[c] # None
    /\ Release(c, held[c])
    /\ UNCHANGED <<phones, election, boxVars, held, clientVars, wire, draws, marks>>

\* What is held is taken out first, whatever becomes of the signing.
OperatorRelease(c) ==
    /\ held[c] # None
    /\ Release(c, held[c])
    /\ held' = [held EXCEPT ![c] = None]
    /\ UNCHANGED <<phones, election, boxVars, clientVars, wire, draws, marks>>

\* The claim is given back, and the citizen may ask again.
OperatorCancel(c) ==
    /\ held[c] # None
    /\ held' = [held EXCEPT ![c] = None]
    /\ UNCHANGED <<phones, election, boxVars, released, replies, clientVars, wire, counters>>

\* The telephone compares the published digest with the one it pinned before
\* it asks, and before it submits; it stops where they differ.
Current(c) == c \in phones => app[c].pinned = election

Superseded(c) ==
    /\ ~Current(c)
    /\ app[c].live # {}
    /\ app' = [app EXCEPT ![c].live = {}]
    /\ UNCHANGED <<phones, election, boxVars, officeVars, stored, walletVars, wire, told, counters>>

\* The office answers whoever presents the blinded key; 404 until it has signed.
Replied(c) == \E reply \in replies : Finalizes(app[c], reply)

\* The button of a browser starts a loop of 600 attempts.
Ask(c) ==
    /\ "collect" \in app[c].live
    /\ c \in Browsers
    /\ app' = [app EXCEPT ![c].live = (@ \ {"collect"}) \union {"asking"}]
    /\ UNCHANGED <<phones, election, boxVars, officeVars, stored, walletVars, wire, told, counters>>

\* One of them finds the reply.
Collect(c) ==
    /\ "asking" \in app[c].live
    /\ Replied(c)
    /\ LET token == Token(app[c].key, app[c].pinned)
       IN  /\ app' = [app EXCEPT ![c].token = token,
                                 ![c].live = (@ \ {"asking"}) \union {"mark"}]
           /\ stored' = [stored EXCEPT ![c].token = token]
    /\ UNCHANGED <<phones, election, boxVars, officeVars, walletVars, wire, told, counters>>

Mutant_ButtonStaysDead(c) ==
    /\ "asking" \in app[c].live
    /\ ~Replied(c)
    /\ app' = [app EXCEPT ![c].live = @ \ {"asking"}]
    /\ UNCHANGED <<phones, election, boxVars, officeVars, stored, walletVars, wire, told, counters>>

\* None does, the last one included, or what is there does not verify: the loop
\* throws, and the button works again.
AskInVain(c) ==
    /\ "asking" \in app[c].live
    /\ ~Replied(c)
    /\ app' = [app EXCEPT ![c].live = (@ \ {"asking"}) \union {"collect"}]
    /\ UNCHANGED <<phones, election, boxVars, officeVars, stored, walletVars, wire, told, counters>>

\* The telephone asks once, when it is told to or comes to the front, and drops
\* the secret it has used.
CollectOnPhone(c) ==
    /\ c \in phones
    /\ "collect" \in app[c].live
    /\ Current(c)
    /\ Replied(c)
    /\ app' = [app EXCEPT ![c].token = Token(app[c].key, app[c].pinned),
                          ![c].blind = None,
                          ![c].live = (@ \ {"collect"}) \union {"mark"}]
    /\ UNCHANGED <<phones, election, boxVars, officeVars, stored, walletVars, wire, told, counters>>

-----------------------------------------------------------------------------
(* The ballot.                                                             *)

Ballot(c) == [key |-> app[c].key, token |-> app[c].token, nonce |-> marks[c] + 1]

Going(c, ballot) == [who |-> c, ballot |-> ballot, waiting |-> TRUE, answer |-> None]

Marking(c) ==
    /\ "mark" \in app[c].live
    /\ Current(c)
    /\ marks[c] < MaxMarks[c]
    /\ marks' = [marks EXCEPT ![c] = @ + 1]

\* `doSign`: a sheet more, each with a button of its own.
Mark(c) ==
    /\ c \in Browsers
    /\ Marking(c)
    /\ app' = [app EXCEPT ![c].sheets = @ \union {Ballot(c)}]
    /\ UNCHANGED <<phones, election, boxVars, officeVars, stored, walletVars, wire, told, draws, faults>>

\* `doCast`: the button is dead until there is an answer or none.
Send(c, ballot) ==
    /\ ballot \in app[c].sheets
    /\ app' = [app EXCEPT ![c].sheets = @ \ {ballot}]
    /\ wire' = wire \union {Going(c, ballot)}
    /\ UNCHANGED <<phones, election, boxVars, officeVars, stored, walletVars, told, counters>>

\* `castAndSubmit` of the telephone.
CastAndSubmit(c) ==
    /\ c \in phones
    /\ Marking(c)
    /\ app' = [app EXCEPT ![c].live = {}]
    /\ wire' = wire \union {Going(c, Ballot(c))}
    /\ UNCHANGED <<phones, election, boxVars, officeVars, stored, walletVars, told, draws, faults>>

Mutant_ReplayTaken(ballot) ==
    IF phase # "open" THEN phase
    ELSE IF ~Verifies(ballot.token, ballot.key, election) THEN "token not signed by VRO"
    ELSE "accepted"

\* `submit`: the verdict, under the keys and in the registry it finds there.
Verdict(ballot) ==
    IF phase # "open" THEN phase
    ELSE IF ~Verifies(ballot.token, ballot.key, election) THEN "token not signed by VRO"
    ELSE IF ballot \in {registry[i] : i \in DOMAIN registry} THEN "already accepted"
    ELSE "accepted"

BoxTakes(m) ==
    /\ m \in wire
    /\ m.answer = None
    /\ LET verdict == Verdict(m.ballot)
       IN  /\ registry' = IF verdict = "accepted" THEN Append(registry, m.ballot) ELSE registry
           /\ wire' = (wire \ {m}) \union
                 (IF m.waiting
                  THEN {[m EXCEPT !.answer = [verdict |-> verdict, election |-> election,
                                              index |-> Len(registry')]]}
                  ELSE {})
    /\ UNCHANGED <<phones, election, phase, officeVars, clientVars, counters>>

\* The receipt, or the refusal, is shown, and a browser keeps it.
Answered(m) ==
    /\ m \in wire
    /\ m.waiting /\ m.answer # None
    /\ wire' = wire \ {m}
    /\ told' = [told EXCEPT ![m.who] = @ \union {[ballot |-> m.ballot, answer |-> m.answer]}]
    /\ IF m.who \in phones
       THEN app' = [app EXCEPT ![m.who].live = {"mark"}] /\ UNCHANGED stored
       ELSE stored' = [stored EXCEPT ![m.who].casts = @ \union {m.ballot}] /\ UNCHANGED app
    /\ UNCHANGED <<phones, election, boxVars, officeVars, walletVars, counters>>

-----------------------------------------------------------------------------
(* What goes wrong, and the operators' acts.                               *)

\* What is on its way stays on its way; an answer finds nobody.
Unawaited(gone) ==
    (wire \ gone) \union {[m EXCEPT !.waiting = FALSE] : m \in {n \in gone : n.answer = None}}

\* The connection is lost: the browser's button works again, the telephone
\* goes on showing that it is working.
GivesUp(m) ==
    /\ Fault
    /\ m \in wire
    /\ m.waiting
    /\ wire' = Unawaited({m})
    /\ app' = IF m.who \in phones THEN app
              ELSE [app EXCEPT ![m.who].sheets = @ \union {m.ballot}]
    /\ UNCHANGED <<phones, election, boxVars, officeVars, stored, walletVars, told, draws, marks>>

\* The page is reloaded, or the application started again.
Reload(c) ==
    /\ Fault
    /\ app[c].pinned # None
    /\ app' = [app EXCEPT ![c] = Page(None, {})]
    /\ wire' = Unawaited({m \in wire : m.who = c /\ m.waiting})
    /\ UNCHANGED <<phones, election, boxVars, officeVars, stored, walletVars, told, draws, marks>>

OpenPoll ==
    /\ phase = "not opened"
    /\ phase' = "open"
    /\ UNCHANGED <<phones, election, registry, officeVars, clientVars, wire, counters>>

ClosePoll ==
    /\ phase = "open"
    /\ phase' = "closed"
    /\ UNCHANGED <<phones, election, registry, officeVars, clientVars, wire, counters>>

\* Another election over the one that is closed: a new office and a new box.
Mint ==
    /\ phase = "closed"
    /\ election < Len(Ids)
    /\ election' = election + 1
    /\ phase' = "not opened" /\ registry' = <<>>
    /\ released' = {} /\ held' = [c \in Citizens |-> None] /\ replies' = {}
    /\ UNCHANGED <<phones, clientVars, wire, counters>>

Next ==
    \/ \E c \in Citizens : \/ Load(c) \/ Keygen(c) \/ DoBlind(c) \/ Enrol(c)
                           \/ WalletOpen(c) \/ WalletLoad(c) \/ WalletSend(c)
                           \/ OperatorRelease(c) \/ OperatorCancel(c)
                           \/ Superseded(c) \/ CollectOnPhone(c)
                           \/ Ask(c) \/ Collect(c) \/ AskInVain(c)
                           \/ Mark(c) \/ CastAndSubmit(c) \/ Reload(c)
                           \/ \E ballot \in app[c].sheets : Send(c, ballot)
    \/ \E m \in wire : BoxTakes(m) \/ Answered(m) \/ GivesUp(m)
    \/ OpenPoll \/ ClosePoll \/ Mint

\* A loop that asks comes to its end.  Of people, of the office and of the way
\* there nothing is taken for granted.
Spec ==
    /\ Init /\ [][Next]_vars
    /\ \A c \in Citizens : WF_vars(Collect(c) \/ AskInVain(c))

-----------------------------------------------------------------------------
(* Properties                                                              *)

\* What is held, signed and kept is in step: nobody is both held and released,
\* a reply has its release and is the only one of its citizen, and a wallet
\* holds a blinding of its citizen.
TypeOK ==
    /\ election \in 1..Len(Ids)
    /\ phase \in {"not opened", "open", "closed"}
    /\ \A c \in Citizens :
          /\ c \in released => held[c] = None
          /\ \A b \in {held[c], wallet[c], app[c].blind} \ {None} : b.key.who = c
    /\ \A r \in replies : r.blind.key.who \in released
    /\ \A r, s \in replies : r.blind.key.who = s.blind.key.who => r = s

\* Whatever is reloaded, drawn again, sent twice or delivered late, also from
\* an election that is over: a citizen's ballots are filed under one key, and
\* that key was certified for this election.
OneVotePerCitizen ==
    \A i, j \in DOMAIN registry :
        /\ registry[i].token.by = election
        /\ registry[i].key.who = registry[j].key.who => registry[i].key = registry[j].key

Shown(c) == {t \in told[c] : t.answer.election = election /\ t.answer.verdict = "accepted"}

\* Nothing the voter has let go is unaccounted for: it is not on its way, and
\* if it is in the registry they have seen the receipt.
AllSeen(c) ==
    /\ \A m \in wire : m.who # c
    /\ \A i \in DOMAIN registry :
          registry[i].key.who = c => \E t \in Shown(c) : t.ballot = registry[i]

Counted(key) ==
    LET filed == {i \in DOMAIN registry : registry[i].key = key}
    IN  registry[CHOOSE i \in filed : \A j \in filed : j <= i]

\* A voter who has seen a receipt for all that was recorded can tell which
\* ballot counts: the one whose receipt has the greatest index, whatever was
\* sent again or overtaken meanwhile.
ShownIsCounted ==
    \A c \in Citizens : \A t \in Shown(c) :
        AllSeen(c) /\ (\A u \in Shown(c) : u.answer.index <= t.answer.index)
            => Counted(t.ballot.key) = t.ballot

\* What a voter does: the button of a browser, the tap of a telephone.
Press(c) == Ask(c) \/ CollectOnPhone(c)

\* Nothing tells a voter that the office has signed, however long it held the
\* request and however often a wait has ended without a reply.  Who goes on
\* pressing the button that is there comes to the token all the same, unless
\* the application loses the secret meanwhile or the election is replaced.
SignedEndsInToken ==
    (\A c \in Citizens : WF_vars(Press(c)))
        => \A c \in Citizens :
              Replied(c) ~> Verifies(app[c].token, app[c].key, election) \/ ~Replied(c)

\* web/voter-app/src/main.ts, `showReceipt`, of every refusal: "Nothing was
\* recorded and nothing was counted."
RefusalMeansUncounted ==
    \A c \in Citizens : \A t \in told[c] :
        t.answer.election = election /\ t.answer.verdict # "accepted" =>
            \A i \in 1..t.answer.index : registry[i] # t.ballot

\* The same file, of the storage of a tab: "A page refresh should not be able
\* to disenfranchise somebody."  The key and the secret, or the token, of what
\* the office has signed are still there.
ReloadKeepsTheVote ==
    \A c \in Browsers : \A r \in replies :
        r.blind.key.who = c /\ r.blind.under = r.by =>
            \/ Verifies(stored[c].token, stored[c].key, election)
            \/ stored[c].blind = r.blind /\ stored[c].key = r.blind.key

\* The wallet compares the election and the digest of a request with those that
\* are served, so that a citizen's one token is for the election they consented
\* to: what the office signs is blinded for the key it signs with.
SpentOnWhatVerifies ==
    \A r \in replies : r.blind.under = r.by
=============================================================================
