----------------------- MODULE VoterProtocol_proofs -----------------------
(***************************************************************************)
(* Theorems about the voter's protocol, for any number of citizens with    *)
(* either application, of elections whatever they are called, of ballots,  *)
(* reloads, lost answers, cancellations and signings that raise.           *)
(***************************************************************************)
EXTENDS VoterProtocol, TLAPS

(***************************************************************************)
(* What the variables hold.  T is the set of tokens there are.             *)
(***************************************************************************)

AllKeys == [who : Citizens, draw : Nat]
KeysOf(c) == {k \in AllKeys : k.who = c}
AllTokens == [key : AllKeys, by : Nat]
Places == Nat \union {None}
AllBlindings == [key : AllKeys, under : Places, draw : Nat]
BlindingsOf(c) == {b \in AllBlindings : b.key \in KeysOf(c)}
Buttons == {"keygen", "blind", "collect", "asking", "mark"}
Verdicts ==
    {"not opened", "closed", "token not signed by VRO", "already accepted", "accepted"}
Answers == [verdict : Verdicts, election : Nat, index : Nat]
Names == {Ids[e] : e \in Places} \union {None}

BallotsOf(c, T) ==
    [key : KeysOf(c) \union {None}, token : T \union {None}, nonce : Nat]
PagesOf(c, T) ==
    [pinned : Places, key : KeysOf(c) \union {None}, blind : BlindingsOf(c) \union {None},
     token : T \union {None}, sheets : SUBSET BallotsOf(c, T), live : SUBSET Buttons]
StoragesOf(c, T) ==
    [id : Names, key : KeysOf(c) \union {None}, blind : BlindingsOf(c) \union {None},
     token : T \union {None}, casts : SUBSET BallotsOf(c, T)]
MessagesOf(c, T) ==
    [who : {c}, ballot : BallotsOf(c, T), waiting : BOOLEAN, answer : Answers \union {None}]

\* The tokens there can be: of elections so far, and of the one that is served
\* only those that come from a signature of its office.
Tokens ==
    {t \in AllTokens :
        /\ t.by <= election
        /\ t.by = election => \E r \in replies : r.blind.key = t.key}

ClientInv ==
    /\ phones \in SUBSET Citizens
    /\ election \in 1..Len(Ids)
    /\ phase \in {"not opened", "open", "closed"}
    /\ draws \in [Citizens -> Nat]
    /\ marks \in [Citizens -> Nat]
    /\ app = [c \in Citizens |-> app[c]] /\ stored = [c \in Citizens |-> stored[c]]
    /\ wallet = [c \in Citizens |-> wallet[c]] /\ told = [c \in Citizens |-> told[c]]
    /\ \A c \in Citizens :
          /\ app[c] \in PagesOf(c, Tokens)
          /\ "blind" \in app[c].live => app[c].key \in AllKeys
          /\ stored[c] \in StoragesOf(c, Tokens)
          /\ wallet[c] \in BlindingsOf(c) \union {None}
          /\ told[c] \in SUBSET [ballot : BallotsOf(c, AllTokens), answer : Answers]
    /\ \A m \in wire : \E c \in Citizens : m \in MessagesOf(c, Tokens)

\* No more than one signature for each citizen, of the office that is served,
\* over a blinding of that citizen's.
OfficeInv ==
    /\ released \in SUBSET Citizens
    /\ held = [c \in Citizens |-> held[c]]
    /\ \A c \in Citizens : held[c] \in BlindingsOf(c) \union {None}
    /\ \A c \in released : held[c] = None
    /\ replies \in SUBSET [blind : AllBlindings, by : {election}]
    /\ \A r \in replies : r.blind.key.who \in released
    /\ \A r, s \in replies : r.blind.key.who = s.blind.key.who => r = s

\* A receipt of the election that is served names the place of its ballot.
Receipt(ballot, answer) ==
    /\ answer.election <= election
    /\ answer.election = election /\ answer.verdict = "accepted" =>
          /\ answer.index \in DOMAIN registry
          /\ registry[answer.index] = ballot

BoxInv ==
    /\ registry \in Seq([key : AllKeys, token : Tokens, nonce : Nat])
    /\ \A i \in DOMAIN registry : registry[i].token = Token(registry[i].key, election)
    /\ \A i, j \in DOMAIN registry : registry[i] = registry[j] => i = j
    /\ \A m \in wire : m.answer # None => Receipt(m.ballot, m.answer)
    /\ \A c \in Citizens : \A t \in told[c] : Receipt(t.ballot, t.answer)

Inv == ClientInv /\ OfficeInv /\ BoxInv

(***************************************************************************)
(* Consequences of the invariant.                                          *)
(***************************************************************************)

\* A recorded ballot carries a token the office's key verifies over its key.
LEMMA Entry ==
    ASSUME BoxInv, NEW n \in DOMAIN registry
    PROVE  /\ registry[n] \in [key : AllKeys, token : Tokens, nonce : Nat]
           /\ registry[n].token = Token(registry[n].key, election)
           /\ registry[n].token.by = election
<1> DEFINE S == [key : AllKeys, token : Tokens, nonce : Nat]
<1>1. registry \in Seq(S)
  BY DEF BoxInv
<1>2. registry[n] \in S
  <2> HIDE DEF S
  <2> QED
    BY <1>1
<1>3. registry[n].token = Token(registry[n].key, election)
  <2>1. \A i \in DOMAIN registry : registry[i].token = Token(registry[i].key, election)
    BY Zenon DEF BoxInv
  <2> QED
    BY <2>1, Zenon
<1> QED
  BY <1>2, <1>3 DEF Token

\* The elections are numbered from one.
LEMMA Numbered == \A e \in 1..Len(Ids) : e \in Nat
<1>1. Len(Ids) \in Nat
  BY VoterConstantsOK
<1> QED
  BY <1>1

\* A key there can be is not the absence of one, and so for tokens.
LEMMA Somebody ==
    None \notin AllKeys /\ None \notin [key : AllKeys \union {None}, by : Nat]
BY VoterConstantsOK DEF AllKeys

\* The type invariant.
LEMMA InvType == Inv => TypeOK
<1> SUFFICES ASSUME Inv PROVE TypeOK
  OBVIOUS
<1>1. ASSUME NEW c \in Citizens,
             NEW b \in {held[c], wallet[c], app[c].blind} \ {None}
      PROVE  b.key.who = c
  <2>1. b \in BlindingsOf(c)
    BY <1>1 DEF Inv, ClientInv, OfficeInv, PagesOf
  <2> QED
    BY <2>1 DEF BlindingsOf, KeysOf
<1> QED
  BY <1>1 DEF Inv, ClientInv, OfficeInv, TypeOK

\* Two ballots of a citizen carry tokens from signatures over blindings of that
\* citizen's, and there is only one such signature.
LEMMA InvOneVote == Inv => OneVotePerCitizen
<1> SUFFICES ASSUME Inv, NEW i \in DOMAIN registry, NEW j \in DOMAIN registry
             PROVE  /\ registry[i].token.by = election
                    /\ registry[i].key.who = registry[j].key.who
                          => registry[i].key = registry[j].key
  BY DEF OneVotePerCitizen
<1>1. ASSUME NEW n \in DOMAIN registry
      PROVE  \E r \in replies : r.blind.key = registry[n].key
  <2>1. registry[n].token = Token(registry[n].key, election) /\ registry[n].token \in Tokens
    BY Entry DEF Inv
  <2> QED
    BY <2>1 DEF Tokens, Token
<1>2. registry[i].token.by = election
  BY Entry DEF Inv
<1>3. PICK r \in replies : r.blind.key = registry[i].key
  BY <1>1
<1>4. PICK s \in replies : s.blind.key = registry[j].key
  BY <1>1
<1> QED
  BY <1>2, <1>3, <1>4 DEF Inv, OfficeInv

\* The receipt with the greatest index is for the last ballot under its key.
LEMMA InvShown == Inv => ShownIsCounted
<1> SUFFICES ASSUME Inv, NEW c \in Citizens, NEW t \in Shown(c), AllSeen(c),
                    \A u \in Shown(c) : u.answer.index <= t.answer.index
             PROVE  Counted(t.ballot.key) = t.ballot
  BY DEF ShownIsCounted
<1> DEFINE last == t.answer.index
           filed == {i \in DOMAIN registry : registry[i].key = t.ballot.key}
<1>1. \A u \in Shown(c) : /\ u.answer.index \in DOMAIN registry
                          /\ registry[u.answer.index] = u.ballot
  BY DEF Inv, BoxInv, Receipt, Shown
<1>2. t.ballot.key.who = c
  <2>1. registry[last].key \in AllKeys
    BY <1>1, Entry DEF Inv
  <2>2. t.ballot.key \in KeysOf(c) \union {None}
    BY DEF Inv, ClientInv, Shown, BallotsOf
  <2>3. t.ballot.key # None
    BY <1>1, <2>1, Somebody
  <2> QED
    BY <2>2, <2>3 DEF KeysOf
<1>3. last \in filed
  BY <1>1
<1>4. \A i \in filed : i <= last
  <2> TAKE i \in filed
  <2>1. PICK u \in Shown(c) : u.ballot = registry[i]
    BY <1>2 DEF AllSeen
  <2>2. u.answer.index = i
    BY <1>1, <2>1 DEF Inv, BoxInv
  <2> QED
    BY <2>2
<1>5. \A i \in filed : (\A j \in filed : j <= i) => i = last
  <2>1. filed \subseteq Nat
    BY DEF Inv, BoxInv
  <2> QED
    BY <1>3, <1>4, <2>1
<1>6. Counted(t.ballot.key) = registry[CHOOSE i \in filed : \A j \in filed : j <= i]
  BY DEF Counted
<1>7. (CHOOSE i \in filed : \A j \in filed : j <= i) = last
  <2> HIDE DEF filed, last
  <2> QED
    BY <1>3, <1>4, <1>5
<1> QED
  BY <1>1, <1>6, <1>7

(***************************************************************************)
(* What a step may do to each part of the invariant.                       *)
(***************************************************************************)

\* While an election is served, its tokens only grow in number.
LEMMA TokensKept ==
    ASSUME election' = election, replies \subseteq replies'
    PROVE  Tokens \subseteq Tokens'
BY DEF Tokens

\* With the tokens, what is typed by them grows.
LEMMA Grows ==
    ASSUME NEW T, NEW U, T \subseteq U, NEW c
    PROVE  /\ PagesOf(c, T) \subseteq PagesOf(c, U)
           /\ StoragesOf(c, T) \subseteq StoragesOf(c, U)
           /\ MessagesOf(c, T) \subseteq MessagesOf(c, U)
<1>1. BallotsOf(c, T) \subseteq BallotsOf(c, U)
  BY DEF BallotsOf
<1>2. SUBSET BallotsOf(c, T) \subseteq SUBSET BallotsOf(c, U)
  BY <1>1
<1> QED
  BY <1>1, <1>2 DEF PagesOf, StoragesOf, MessagesOf

\* A step that touches one citizen's application, storage, wallet and answers.
LEMMA ClientAt ==
    ASSUME ClientInv, Tokens \subseteq Tokens', NEW c \in Citizens,
           phones' = phones, election' = election,
           phase' \in {"not opened", "open", "closed"},
           draws' \in [Citizens -> Nat], marks' \in [Citizens -> Nat],
           app' = [app EXCEPT ![c] = app'[c]],
           app'[c] \in PagesOf(c, Tokens'),
           "blind" \in app'[c].live => app'[c].key \in AllKeys,
           stored' = [stored EXCEPT ![c] = stored'[c]],
           stored'[c] \in StoragesOf(c, Tokens'),
           wallet' = [wallet EXCEPT ![c] = wallet'[c]],
           wallet'[c] \in BlindingsOf(c) \union {None},
           told' = [told EXCEPT ![c] = told'[c]],
           told'[c] \in SUBSET [ballot : BallotsOf(c, AllTokens), answer : Answers],
           \A m \in wire' \ wire : \E d \in Citizens : m \in MessagesOf(d, Tokens')
    PROVE  ClientInv'
<1>1. /\ app' = [d \in Citizens |-> app'[d]] /\ stored' = [d \in Citizens |-> stored'[d]]
      /\ wallet' = [d \in Citizens |-> wallet'[d]] /\ told' = [d \in Citizens |-> told'[d]]
  BY DEF ClientInv
<1>2. ASSUME NEW d \in Citizens
      PROVE  /\ app'[d] \in PagesOf(d, Tokens')
             /\ "blind" \in app'[d].live => app'[d].key \in AllKeys
             /\ stored'[d] \in StoragesOf(d, Tokens')
             /\ wallet'[d] \in BlindingsOf(d) \union {None}
             /\ told'[d] \in SUBSET [ballot : BallotsOf(d, AllTokens), answer : Answers]
  <2>1. CASE d = c
    BY <2>1
  <2>2. CASE d # c
    <3>1. /\ app'[d] = app[d] /\ stored'[d] = stored[d]
          /\ wallet'[d] = wallet[d] /\ told'[d] = told[d]
      BY <2>2 DEF ClientInv
    <3>2. /\ app[d] \in PagesOf(d, Tokens)
          /\ "blind" \in app[d].live => app[d].key \in AllKeys
          /\ stored[d] \in StoragesOf(d, Tokens)
          /\ wallet[d] \in BlindingsOf(d) \union {None}
          /\ told[d] \in SUBSET [ballot : BallotsOf(d, AllTokens), answer : Answers]
      BY DEF ClientInv
    <3> QED
      BY <3>1, <3>2, Grows
  <2> QED
    BY <2>1, <2>2
<1>3. \A m \in wire' : \E d \in Citizens : m \in MessagesOf(d, Tokens')
  <2>1. \A m \in wire : \E d \in Citizens : m \in MessagesOf(d, Tokens)
    BY DEF ClientInv
  <2> QED
    BY <2>1, Grows
<1>4. /\ phones' \in SUBSET Citizens /\ election' \in 1..Len(Ids)
      /\ phase' \in {"not opened", "open", "closed"}
      /\ draws' \in [Citizens -> Nat] /\ marks' \in [Citizens -> Nat]
  BY DEF ClientInv
<1> QED
  BY <1>1, <1>2, <1>3, <1>4 DEF ClientInv

\* What the office keeps depends on nothing else.
LEMMA OfficeKept ==
    ASSUME OfficeInv, UNCHANGED <<election, officeVars>>
    PROVE  OfficeInv'
BY DEF OfficeInv, officeVars

\* Nor does what the box keeps, but for the answers that are about.
LEMMA BoxKept ==
    ASSUME BoxInv, UNCHANGED <<election, registry>>, Tokens \subseteq Tokens',
           \A m \in wire' : m.answer # None => Receipt(m.ballot, m.answer),
           \A c \in Citizens : \A t \in told'[c] : Receipt(t.ballot, t.answer)
    PROVE  BoxInv'
<1>1. registry' \in Seq([key : AllKeys, token : Tokens', nonce : Nat])
  <2>1. [key : AllKeys, token : Tokens, nonce : Nat]
          \subseteq [key : AllKeys, token : Tokens', nonce : Nat]
    OBVIOUS
  <2>2. registry \in Seq([key : AllKeys, token : Tokens, nonce : Nat])
    BY DEF BoxInv
  <2> DEFINE S == [key : AllKeys, token : Tokens, nonce : Nat]
             U == [key : AllKeys, token : Tokens', nonce : Nat]
  <2>3. S \subseteq U /\ registry \in Seq(S)
    BY <2>1, <2>2
  <2> HIDE DEF S, U
  <2>4. registry \in Seq(U)
    BY <2>3
  <2> QED
    BY <2>4 DEF U
<1>2. \A i \in DOMAIN registry' : registry'[i].token = Token(registry'[i].key, election')
  BY Entry
<1>3. \A i, j \in DOMAIN registry' : registry'[i] = registry'[j] => i = j
  BY DEF BoxInv
<1>4. \A b, a : Receipt(b, a)' <=> Receipt(b, a)
  BY DEF Receipt
<1> QED
  BY <1>1, <1>2, <1>3, <1>4 DEF BoxInv

\* A release for a citizen who had none, whether or not the signing raises.
LEMMA OfficeSigns ==
    ASSUME OfficeInv, NEW c \in Citizens, c \notin released,
           NEW blind \in BlindingsOf(c), Release(c, blind), election' = election,
           held' = [held EXCEPT ![c] = None]
    PROVE  OfficeInv'
<1> DEFINE r == BlindSign(blind)
<1>1. /\ released' = released \union {c}
      /\ replies' = replies \union {r} \/ replies' = replies
  BY DEF Release
<1>2. r \in [blind : AllBlindings, by : {election}] /\ r.blind.key.who = c
  BY DEF BlindSign, BlindingsOf, KeysOf
<1> HIDE DEF r
<1>3. \A s, t \in replies' : s.blind.key.who = t.blind.key.who => s = t
  BY <1>1, <1>2 DEF OfficeInv
<1>4. \A s \in replies' : s.blind.key.who \in released'
  BY <1>1, <1>2 DEF OfficeInv
<1>5. /\ held' = [d \in Citizens |-> held'[d]]
      /\ \A d \in Citizens : held'[d] \in BlindingsOf(d) \union {None}
      /\ \A d \in released' : held'[d] = None
  BY <1>1 DEF OfficeInv
<1> QED
  BY <1>1, <1>2, <1>3, <1>4, <1>5 DEF OfficeInv

\* A draw gives a number to what is drawn.
LEMMA Drawn ==
    ASSUME ClientInv, NEW c \in Citizens, Draw(c)
    PROVE  /\ draws' \in [Citizens -> Nat] /\ draws'[c] \in Nat
           /\ Key(c, draws'[c]) \in KeysOf(c) /\ Key(c, draws'[c]) \in AllKeys
<1>1. draws' \in [Citizens -> Nat]
  <2>1. draws \in [Citizens -> Nat]
    BY DEF ClientInv
  <2>2. draws' = [draws EXCEPT ![c] = @ + 1]
    BY DEF Draw
  <2> QED
    BY <2>1, <2>2
<1>2. draws'[c] \in Nat
  BY <1>1
<1> QED
  BY <1>1, <1>2 DEF Key, KeysOf, AllKeys

(***************************************************************************)
(* One step for each action.                                               *)
(***************************************************************************)

\* The office signs once for each citizen, over what is theirs.
LEMMA OfficeStep == Inv /\ [Next]_vars => OfficeInv'
<1> SUFFICES ASSUME Inv, [Next]_vars PROVE OfficeInv'
  OBVIOUS
<1>0. OfficeInv /\ ClientInv
  BY DEF Inv
<1>1. ASSUME NEW c \in Citizens, WalletSend(c)
      PROVE  OfficeInv'
  <2>1. c \notin released /\ held[c] = None /\ election' = election
    BY <1>1 DEF WalletSend, Claimed, AuthRequest
  <2>2. wallet[c] \in BlindingsOf(c)
    BY <1>0, <1>1 DEF WalletSend, ClientInv
  <2>3. CASE Release(c, wallet[c]) /\ UNCHANGED held
    <3>1. held' = [held EXCEPT ![c] = None]
      BY <1>0, <2>1, <2>3 DEF OfficeInv
    <3> QED
      BY <1>0, <2>1, <2>2, <2>3, <3>1, OfficeSigns
  <2>4. CASE held' = [held EXCEPT ![c] = wallet[c]] /\ UNCHANGED <<released, replies>>
    BY <1>0, <2>1, <2>2, <2>4 DEF OfficeInv
  <2> QED
    BY <1>1, <2>3, <2>4 DEF WalletSend, AuthRequest
<1>2. ASSUME NEW c \in Citizens, OperatorRelease(c)
      PROVE  OfficeInv'
  <2>1. held[c] \in BlindingsOf(c) /\ c \notin released
    BY <1>0, <1>2 DEF OperatorRelease, OfficeInv
  <2> QED
    BY <1>0, <1>2, <2>1, OfficeSigns DEF OperatorRelease
<1>8. ASSUME NEW c \in Citizens, OperatorCancel(c)
      PROVE  OfficeInv'
  BY <1>0, <1>8 DEF OperatorCancel, OfficeInv
<1>3. CASE Mint
  <2>2. /\ released' = {} /\ replies' = {} /\ held' = [c \in Citizens |-> None]
    BY <1>3 DEF Mint
  <2> QED
    BY <2>2 DEF OfficeInv
<1>4. CASE UNCHANGED <<election, officeVars>>
  BY <1>0, <1>4, OfficeKept
<1>5. ASSUME NEW c \in Citizens,
             \/ Load(c) \/ Keygen(c) \/ DoBlind(c) \/ Enrol(c) \/ WalletOpen(c) \/ WalletLoad(c)
             \/ Superseded(c) \/ Ask(c) \/ Collect(c) \/ AskInVain(c) \/ CollectOnPhone(c)
             \/ Mark(c) \/ CastAndSubmit(c) \/ Reload(c)
             \/ \E ballot \in app[c].sheets : Send(c, ballot)
      PROVE  UNCHANGED <<election, officeVars>>
  BY <1>5 DEF Load, Keygen, DoBlind, Enrol, WalletOpen, WalletLoad, Superseded, Ask, Collect,
              AskInVain, CollectOnPhone, Mark, CastAndSubmit, Reload, Send
<1>6. ASSUME NEW m \in wire, BoxTakes(m) \/ Answered(m) \/ GivesUp(m)
      PROVE  UNCHANGED <<election, officeVars>>
  BY <1>6 DEF BoxTakes, Answered, GivesUp
<1>7. CASE OpenPoll \/ ClosePoll \/ UNCHANGED vars
  <2>1. UNCHANGED <<election, officeVars>>
    BY <1>7 DEF OpenPoll, ClosePoll, vars
  <2> QED
    BY <1>4, <2>1
<1> QED
  BY <1>1, <1>2, <1>3, <1>4, <1>5, <1>6, <1>7, <1>8 DEF Next

\* Whatever is about, the tokens of the election that is served come from its
\* office, and nothing of an earlier election becomes a token of a later one.
LEMMA TokensStep == Inv /\ [Next]_vars => Tokens \subseteq Tokens'
<1> SUFFICES ASSUME Inv, [Next]_vars PROVE Tokens \subseteq Tokens'
  OBVIOUS
<1>1. CASE Mint
  <2>1. election \in Nat /\ election' = election + 1
    BY <1>1, Numbered DEF Mint, Inv, ClientInv
  <2>2. ASSUME NEW t \in Tokens PROVE t \in Tokens'
    BY <2>1, <2>2 DEF Tokens, AllTokens
  <2> QED
    BY <2>2
<1>2. CASE ~Mint
  <2>1. election' = election /\ replies \subseteq replies'
    <3>1. ASSUME NEW c \in Citizens, WalletSend(c) \/ OperatorRelease(c) \/ OperatorCancel(c)
          PROVE  election' = election /\ replies \subseteq replies'
      BY <3>1 DEF WalletSend, OperatorRelease, OperatorCancel, Release
    <3>2. ASSUME NEW c \in Citizens,
                 \/ Load(c) \/ Keygen(c) \/ DoBlind(c) \/ Enrol(c) \/ WalletOpen(c)
                 \/ WalletLoad(c) \/ Superseded(c) \/ Ask(c) \/ Collect(c) \/ AskInVain(c)
                 \/ CollectOnPhone(c) \/ Mark(c) \/ CastAndSubmit(c) \/ Reload(c)
                 \/ \E ballot \in app[c].sheets : Send(c, ballot)
          PROVE  election' = election /\ replies' = replies
      BY <3>2 DEF Load, Keygen, DoBlind, Enrol, WalletOpen, WalletLoad, Superseded, Ask,
                  Collect, AskInVain, CollectOnPhone, Mark, CastAndSubmit, Reload, Send, officeVars
    <3>3. ASSUME NEW m \in wire, BoxTakes(m) \/ Answered(m) \/ GivesUp(m)
          PROVE  election' = election /\ replies' = replies
      BY <3>3 DEF BoxTakes, Answered, GivesUp, officeVars
    <3>4. ASSUME OpenPoll \/ ClosePoll \/ UNCHANGED vars
          PROVE  election' = election /\ replies' = replies
      BY <3>4 DEF OpenPoll, ClosePoll, vars, officeVars
    <3> QED
      BY <1>2, <3>1, <3>2, <3>3, <3>4 DEF Next
  <2> QED
    BY <2>1, TokensKept
<1> QED
  BY <1>1, <1>2
\* What a citizen has and what is on its way is theirs, and made of such tokens.
LEMMA ClientStep == Inv /\ [Next]_vars => ClientInv'
<1> SUFFICES ASSUME Inv, [Next]_vars PROVE ClientInv'
  OBVIOUS
<1>0. ClientInv /\ Tokens \subseteq Tokens'
  BY TokensStep DEF Inv
<1>a. ASSUME NEW c \in Citizens
      PROVE  /\ app[c] \in PagesOf(c, Tokens') /\ stored[c] \in StoragesOf(c, Tokens')
             /\ "blind" \in app[c].live => app[c].key \in AllKeys
             /\ wallet[c] \in BlindingsOf(c) \union {None}
             /\ told[c] \in SUBSET [ballot : BallotsOf(c, AllTokens), answer : Answers]
             /\ app = [app EXCEPT ![c] = app[c]] /\ stored = [stored EXCEPT ![c] = stored[c]]
             /\ wallet = [wallet EXCEPT ![c] = wallet[c]] /\ told = [told EXCEPT ![c] = told[c]]
  <2>1. app[c] \in PagesOf(c, Tokens) /\ stored[c] \in StoragesOf(c, Tokens)
    BY <1>0 DEF ClientInv
  <2>2. app[c] \in PagesOf(c, Tokens') /\ stored[c] \in StoragesOf(c, Tokens')
    BY <1>0, <2>1, Grows
  <2> QED
    BY <1>0, <2>2 DEF ClientInv
<1>b. /\ phones \in SUBSET Citizens /\ election \in 1..Len(Ids) /\ election \in Places
      /\ phase \in {"not opened", "open", "closed"}
      /\ draws \in [Citizens -> Nat] /\ marks \in [Citizens -> Nat]
  BY <1>0, Numbered DEF ClientInv, Places
<1>c. \A m \in wire : \E d \in Citizens : m \in MessagesOf(d, Tokens')
  <2>1. \A m \in wire : \E d \in Citizens : m \in MessagesOf(d, Tokens)
    BY <1>0 DEF ClientInv
  <2> QED
    BY <1>0, <2>1, Grows
<1>d. ASSUME NEW c \in Citizens, NEW p \in Places, NEW live \in SUBSET Buttons
      PROVE  Page(p, live) \in PagesOf(c, Tokens')
  BY DEF Page, PagesOf
<1>1. ASSUME NEW c \in Citizens, Load(c)
      PROVE  ClientInv'
  <2> DEFINE saved == stored[c]
             mine == saved.key # None /\ saved.id = Ids[election]
  <2>1. saved \in StoragesOf(c, Tokens') /\ Empty \in StoragesOf(c, Tokens')
    BY <1>a DEF StoragesOf, Empty, Names
  <2>2. CASE mine
    <3>1. app' = [app EXCEPT ![c] = Restored(saved)] /\ stored' = [stored EXCEPT ![c] = saved]
      BY <1>1, <2>2 DEF Load
    <3>2. Restored(saved) \in PagesOf(c, Tokens') /\ Restored(saved).key \in AllKeys
      <4>1. saved.key \in KeysOf(c) /\ saved.blind \in BlindingsOf(c) \union {None}
            /\ saved.token \in Tokens' \union {None} /\ saved.casts \in SUBSET BallotsOf(c, Tokens')
        BY <2>1, <2>2 DEF StoragesOf
      <4>2. Restored(saved).live \in SUBSET Buttons
        BY DEF Restored, Buttons
      <4> QED
        BY <1>b, <4>1, <4>2 DEF Restored, PagesOf, KeysOf
    <3>3. app'[c] = Restored(saved) /\ stored'[c] = saved
      BY <1>0, <3>1 DEF ClientInv
    <3> QED
      BY <1>0, <1>1, <1>a, <1>b, <2>1, <3>1, <3>2, <3>3, ClientAt DEF Load, counters, boxVars, walletVars
  <2>3. CASE ~mine
    <3>1. /\ app' = [app EXCEPT ![c] = Page(election, {"keygen"})]
          /\ stored' = [stored EXCEPT ![c] = Empty]
      BY <1>1, <2>3 DEF Load
    <3>2. app'[c] = Page(election, {"keygen"}) /\ stored'[c] = Empty
      BY <1>0, <3>1 DEF ClientInv
    <3>3. "blind" \notin Page(election, {"keygen"}).live
      BY DEF Page
    <3>4. Page(election, {"keygen"}) \in PagesOf(c, Tokens')
      BY <1>b, <1>d DEF Buttons
    <3> QED
      BY <1>0, <1>1, <1>a, <1>b, <2>1, <3>1, <3>2, <3>3, <3>4, ClientAt DEF Load, counters, boxVars, walletVars
  <2> QED
    BY <2>2, <2>3
<1>2. ASSUME NEW c \in Citizens, Keygen(c)
      PROVE  ClientInv'
  <2> DEFINE key == Key(c, draws'[c])
  <2>1. draws' \in [Citizens -> Nat] /\ key \in KeysOf(c) /\ key \in AllKeys
    BY <1>0, <1>2, Drawn DEF Keygen
  <2>2. /\ app' = [app EXCEPT ![c] = app'[c]] /\ stored' = [stored EXCEPT ![c] = stored'[c]]
        /\ app'[c] = [app[c] EXCEPT !.key = key,
                                    !.live = (@ \ {"keygen"}) \union {"blind"}]
        /\ stored'[c] = [stored[c] EXCEPT !.key = key, !.id = Ids[app[c].pinned]]
    BY <1>0, <1>2 DEF Keygen, ClientInv
  <2>3. app'[c] \in PagesOf(c, Tokens') /\ app'[c].key = key
    <3>1. (app[c].live \ {"keygen"}) \union {"blind"} \in SUBSET Buttons
      BY <1>a DEF PagesOf, Buttons
    <3> HIDE DEF key
    <3> QED
      BY <1>a, <2>1, <2>2, <3>1 DEF PagesOf
  <2>4. stored'[c] \in StoragesOf(c, Tokens')
    <3>1. Ids[app[c].pinned] \in Names
      BY <1>a DEF PagesOf, Names
    <3> HIDE DEF key
    <3> QED
      BY <1>a, <2>1, <2>2, <3>1 DEF StoragesOf
  <2> HIDE DEF key
  <2> QED
    BY <1>0, <1>2, <1>a, <1>b, <2>1, <2>2, <2>3, <2>4, ClientAt DEF Keygen, boxVars, walletVars
<1>3. ASSUME NEW c \in Citizens, DoBlind(c)
      PROVE  ClientInv'
  <2> DEFINE blind == Blinded(app[c].key, app[c].pinned, draws'[c])
  <2>1. draws' \in [Citizens -> Nat] /\ draws'[c] \in Nat /\ app[c].key \in AllKeys
    BY <1>0, <1>3, <1>a, Drawn DEF DoBlind
  <2>2. blind \in BlindingsOf(c)
    <3>1. app[c].key \in KeysOf(c) /\ app[c].pinned \in Places
      BY <1>a, <2>1, Somebody DEF PagesOf
    <3> QED
      BY <2>1, <3>1 DEF Blinded, BlindingsOf, AllBlindings
  <2>3. /\ app' = [app EXCEPT ![c] = app'[c]] /\ stored' = [stored EXCEPT ![c] = stored'[c]]
        /\ app'[c] = [app[c] EXCEPT !.blind = blind,
                                    !.live = (@ \ {"blind"}) \union {"collect"}]
        /\ stored'[c] = [stored[c] EXCEPT !.blind = blind]
    BY <1>0, <1>3 DEF DoBlind, ClientInv
  <2> HIDE DEF blind
  <2>4. app'[c] \in PagesOf(c, Tokens') /\ app'[c].key = app[c].key
    <3>1. (app[c].live \ {"blind"}) \union {"collect"} \in SUBSET Buttons
      BY <1>a DEF PagesOf, Buttons
    <3> QED
      BY <1>a, <2>2, <2>3, <3>1 DEF PagesOf
  <2>5. stored'[c] \in StoragesOf(c, Tokens')
    BY <1>a, <2>2, <2>3 DEF StoragesOf
  <2> QED
    BY <1>0, <1>3, <1>a, <1>b, <2>1, <2>3, <2>4, <2>5, ClientAt DEF DoBlind, boxVars, walletVars
<1>4. ASSUME NEW c \in Citizens, Enrol(c)
      PROVE  ClientInv'
  <2> DEFINE key == Key(c, draws'[c])
             page == [Page(election, {"collect"}) EXCEPT
                         !.key = key, !.blind = Blinded(key, election, draws'[c])]
  <2>1. draws' \in [Citizens -> Nat] /\ key \in KeysOf(c) /\ key \in AllKeys
    BY <1>0, <1>4, Drawn DEF Enrol
  <2>2. Blinded(key, election, draws'[c]) \in BlindingsOf(c)
    <3>1. draws'[c] \in Nat
      BY <1>0, <1>4, Drawn DEF Enrol
    <3> HIDE DEF key
    <3> QED
      BY <1>b, <2>1, <3>1 DEF Blinded, BlindingsOf, AllBlindings
  <2>3. app' = [app EXCEPT ![c] = page] /\ app'[c] = page
    BY <1>0, <1>4 DEF Enrol, ClientInv
  <2>4. page \in PagesOf(c, Tokens') /\ page.key = key
    <3> HIDE DEF key
    <3>1. Page(election, {"collect"}) \in PagesOf(c, Tokens')
      BY <1>b, <1>d DEF Buttons
    <3> QED
      BY <2>1, <2>2, <3>1 DEF PagesOf
  <2> HIDE DEF key, page
  <2> QED
    BY <1>0, <1>4, <1>a, <1>b, <2>1, <2>3, <2>4, ClientAt DEF Enrol, boxVars, walletVars
<1>5. ASSUME NEW c \in Citizens, WalletLoad(c)
      PROVE  ClientInv'
  <2>1. app[c].blind \in BlindingsOf(c)
    BY <1>5, <1>a DEF WalletLoad, PagesOf
  <2>2. wallet' = [wallet EXCEPT ![c] = wallet'[c]] /\ wallet'[c] = app[c].blind
    BY <1>0, <1>5 DEF WalletLoad, ClientInv
  <2> QED
    BY <1>0, <1>5, <1>a, <1>b, <2>1, <2>2, ClientAt DEF WalletLoad, counters, boxVars
<1>20. ASSUME NEW c \in Citizens, WalletOpen(c)
       PROVE  ClientInv'
  <2>1. wallet' = [wallet EXCEPT ![c] = wallet'[c]] /\ wallet'[c] = None
    BY <1>0, <1>20 DEF WalletOpen, ClientInv
  <2> QED
    BY <1>0, <1>20, <1>a, <1>b, <2>1, ClientAt DEF WalletOpen, counters, boxVars
<1>6. ASSUME NEW c \in Citizens, WalletSend(c) \/ OperatorRelease(c) \/ OperatorCancel(c)
      PROVE  ClientInv'
  <2>1. UNCHANGED <<phones, election, phase, app, stored, wallet, told, wire, draws, marks>>
    BY <1>6 DEF WalletSend, OperatorRelease, OperatorCancel, clientVars, walletVars, counters, boxVars
  <2> QED
    BY <1>0, <2>1, <1>a, <1>b, ClientAt
<1>7. ASSUME NEW c \in Citizens, Superseded(c)
      PROVE  ClientInv'
  <2>1. app' = [app EXCEPT ![c] = app'[c]] /\ app'[c] = [app[c] EXCEPT !.live = {}]
    BY <1>0, <1>7 DEF Superseded, ClientInv
  <2>2. app'[c] \in PagesOf(c, Tokens') /\ "blind" \notin app'[c].live
    BY <1>a, <2>1 DEF PagesOf
  <2> QED
    BY <1>0, <1>7, <1>a, <1>b, <2>1, <2>2, ClientAt DEF Superseded, counters, boxVars, walletVars
<1>21. ASSUME NEW c \in Citizens, NEW live \in SUBSET Buttons,
              app' = [app EXCEPT ![c].live = live],
              "blind" \in live => "blind" \in app[c].live,
              UNCHANGED <<phones, election, phase, stored, wallet, told, wire, draws, marks>>
       PROVE  ClientInv'
  <2>1. app' = [app EXCEPT ![c] = app'[c]] /\ app'[c] = [app[c] EXCEPT !.live = live]
    BY <1>0, <1>21 DEF ClientInv
  <2>2. /\ app'[c] \in PagesOf(c, Tokens')
        /\ app'[c].key = app[c].key /\ app'[c].live = live
    BY <1>a, <1>21, <2>1 DEF PagesOf
  <2> QED
    BY <1>0, <1>21, <1>a, <1>b, <2>1, <2>2, ClientAt
<1>22. ASSUME NEW c \in Citizens, Ask(c) \/ AskInVain(c)
       PROVE  ClientInv'
  <2>1. UNCHANGED <<phones, election, phase, stored, wallet, told, wire, draws, marks>>
    BY <1>22 DEF Ask, AskInVain, walletVars, counters, boxVars
  <2>2. PICK gone \in Buttons, come \in Buttons \ {"blind"} :
           app' = [app EXCEPT ![c].live = (@ \ {gone}) \union {come}]
    BY <1>22 DEF Ask, AskInVain, Buttons
  <2> DEFINE live == (app[c].live \ {gone}) \union {come}
  <2>3. live \in SUBSET Buttons /\ ("blind" \in live => "blind" \in app[c].live)
    BY <1>a, <2>2 DEF PagesOf
  <2>4. app' = [app EXCEPT ![c].live = live]
    BY <2>2
  <2> HIDE DEF live
  <2> QED
    BY <1>21, <2>1, <2>3, <2>4
\* What the telephone and the browser do with a reply that finalizes.
<1>23. ASSUME NEW c \in Citizens, Replied(c)
       PROVE  Token(app[c].key, app[c].pinned) \in Tokens'
  <2> DEFINE token == Token(app[c].key, app[c].pinned)
  <2>1. PICK reply \in replies : Finalizes(app[c], reply)
    BY <1>23 DEF Replied
  <2>2. reply.by = election /\ reply.blind.key \in AllKeys
    BY DEF Inv, OfficeInv, AllBlindings
  <2>3. app[c].pinned = election /\ app[c].key = reply.blind.key
    BY <2>1, <2>2 DEF Finalizes
  <2>4. token = [key |-> reply.blind.key, by |-> election] /\ election \in Nat
    BY <1>b, <2>3, Numbered DEF Token
  <2>5. token \in AllTokens /\ token.key = reply.blind.key /\ token.by = election
    <3> HIDE DEF token
    <3> QED
      BY <2>2, <2>4 DEF AllTokens
  <2>6. token \in Tokens
    <3> HIDE DEF token
    <3> QED
      BY <2>4, <2>5 DEF Tokens
  <2> QED
    BY <1>0, <2>6
<1>24. ASSUME NEW c \in Citizens, NEW token \in Tokens', NEW gone \in Buttons,
              NEW blind \in {app[c].blind, None},
              app'[c] = [app[c] EXCEPT !.token = token, !.blind = blind,
                                       !.live = (@ \ {gone}) \union {"mark"}]
       PROVE  /\ app'[c] \in PagesOf(c, Tokens')
              /\ app'[c].key = app[c].key
              /\ "blind" \in app'[c].live => "blind" \in app[c].live
  <2> DEFINE live == (app[c].live \ {gone}) \union {"mark"}
  <2>1. app'[c] = [app[c] EXCEPT !.token = token, !.blind = blind, !.live = live]
    BY <1>24
  <2>2. live \in SUBSET Buttons /\ ("blind" \in live => "blind" \in app[c].live)
    BY <1>a DEF PagesOf, Buttons
  <2>3. blind \in BlindingsOf(c) \union {None}
    BY <1>a DEF PagesOf
  <2> HIDE DEF live
  <2>4. app'[c] \in PagesOf(c, Tokens') /\ app'[c].key = app[c].key /\ app'[c].live = live
    BY <1>a, <1>24, <2>1, <2>2, <2>3 DEF PagesOf
  <2> QED
    BY <2>2, <2>4
<1>8. ASSUME NEW c \in Citizens, Collect(c)
      PROVE  ClientInv'
  <2> DEFINE token == Token(app[c].key, app[c].pinned)
  <2>1. token \in Tokens'
    BY <1>8, <1>23 DEF Collect
  <2>2. /\ app' = [app EXCEPT ![c] = app'[c]]
        /\ app'[c] = [app[c] EXCEPT !.token = token,
                                    !.live = (@ \ {"asking"}) \union {"mark"}]
    BY <1>0, <1>8 DEF Collect, ClientInv
  <2>3. /\ stored' = [stored EXCEPT ![c] = stored'[c]]
        /\ stored'[c] = [stored[c] EXCEPT !.token = token]
    BY <1>0, <1>8 DEF Collect, ClientInv
  <2> HIDE DEF token
  <2>4. app'[c] = [app[c] EXCEPT !.token = token, !.blind = app[c].blind,
                                 !.live = (@ \ {"asking"}) \union {"mark"}]
    BY <1>a, <2>2 DEF PagesOf
  <2>5. /\ app'[c] \in PagesOf(c, Tokens')
        /\ app'[c].key = app[c].key
        /\ "blind" \in app'[c].live => "blind" \in app[c].live
    BY <1>24, <2>1, <2>4 DEF Buttons
  <2>6. stored'[c] \in StoragesOf(c, Tokens')
    BY <1>a, <2>1, <2>3 DEF StoragesOf
  <2>7. UNCHANGED <<phones, election, phase, wallet, told, wire, draws, marks>>
    BY <1>8 DEF Collect, walletVars, counters, boxVars
  <2> QED
    BY <1>0, <1>a, <1>b, <2>2, <2>3, <2>5, <2>6, <2>7, ClientAt
<1>25. ASSUME NEW c \in Citizens, CollectOnPhone(c)
       PROVE  ClientInv'
  <2> DEFINE token == Token(app[c].key, app[c].pinned)
  <2>1. token \in Tokens'
    BY <1>23, <1>25 DEF CollectOnPhone
  <2>2. /\ app' = [app EXCEPT ![c] = app'[c]]
        /\ app'[c] = [app[c] EXCEPT !.token = token, !.blind = None,
                                    !.live = (@ \ {"collect"}) \union {"mark"}]
    BY <1>0, <1>25 DEF CollectOnPhone, ClientInv
  <2> HIDE DEF token
  <2>3. /\ app'[c] \in PagesOf(c, Tokens')
        /\ app'[c].key = app[c].key
        /\ "blind" \in app'[c].live => "blind" \in app[c].live
    BY <1>24, <2>1, <2>2 DEF Buttons
  <2>4. UNCHANGED <<phones, election, phase, stored, wallet, told, wire, draws, marks>>
    BY <1>25 DEF CollectOnPhone, walletVars, counters, boxVars
  <2> QED
    BY <1>0, <1>a, <1>b, <2>2, <2>3, <2>4, ClientAt
<1>9. ASSUME NEW c \in Citizens, Marking(c)
      PROVE  Ballot(c) \in BallotsOf(c, Tokens') /\ marks' \in [Citizens -> Nat]
  <2>1. marks' \in [Citizens -> Nat] /\ marks[c] + 1 \in Nat
    <3>1. marks' = [marks EXCEPT ![c] = @ + 1]
      BY <1>9 DEF Marking
    <3>2. marks \in [Citizens -> Nat]
      BY <1>b
    <3> QED
      BY <3>1, <3>2
  <2>2. app[c].key \in KeysOf(c) \union {None} /\ app[c].token \in Tokens' \union {None}
    BY <1>a DEF PagesOf
  <2> QED
    BY <2>1, <2>2 DEF Ballot, BallotsOf
<1>10. ASSUME NEW c \in Citizens, Mark(c)
       PROVE  ClientInv'
  <2>1. app' = [app EXCEPT ![c] = app'[c]]
        /\ app'[c] = [app[c] EXCEPT !.sheets = @ \union {Ballot(c)}]
    BY <1>0, <1>10 DEF Mark, ClientInv
  <2>2. app'[c] \in PagesOf(c, Tokens') /\ app'[c].key = app[c].key /\ app'[c].live = app[c].live
    BY <1>9, <1>10, <1>a, <2>1 DEF Mark, PagesOf
  <2> QED
    BY <1>0, <1>9, <1>10, <1>a, <1>b, <2>1, <2>2, ClientAt DEF Mark, boxVars, walletVars
<1>11. ASSUME NEW c \in Citizens, NEW ballot \in BallotsOf(c, Tokens')
       PROVE  Going(c, ballot) \in MessagesOf(c, Tokens')
  BY DEF Going, MessagesOf
<1>12. ASSUME NEW c \in Citizens, NEW ballot \in app[c].sheets, Send(c, ballot)
       PROVE  ClientInv'
  <2>1. app' = [app EXCEPT ![c] = app'[c]]
        /\ app'[c] = [app[c] EXCEPT !.sheets = @ \ {ballot}]
    BY <1>0, <1>12 DEF Send, ClientInv
  <2>2. app'[c] \in PagesOf(c, Tokens') /\ app'[c].key = app[c].key /\ app'[c].live = app[c].live
    BY <1>a, <2>1 DEF PagesOf
  <2>3. ballot \in BallotsOf(c, Tokens')
    BY <1>a DEF PagesOf
  <2>4. \A m \in wire' \ wire : m \in MessagesOf(c, Tokens')
    BY <1>11, <1>12, <2>3 DEF Send
  <2> QED
    BY <1>0, <1>12, <1>a, <1>b, <2>1, <2>2, <2>4, ClientAt DEF Send, counters, boxVars, walletVars
<1>13. ASSUME NEW c \in Citizens, CastAndSubmit(c)
       PROVE  ClientInv'
  <2>1. app' = [app EXCEPT ![c] = app'[c]] /\ app'[c] = [app[c] EXCEPT !.live = {}]
    BY <1>0, <1>13 DEF CastAndSubmit, ClientInv
  <2>2. app'[c] \in PagesOf(c, Tokens') /\ "blind" \notin app'[c].live
    BY <1>a, <2>1 DEF PagesOf
  <2>3. \A m \in wire' \ wire : m \in MessagesOf(c, Tokens')
    BY <1>9, <1>11, <1>13 DEF CastAndSubmit
  <2> QED
    BY <1>0, <1>9, <1>13, <1>a, <1>b, <2>1, <2>2, <2>3, ClientAt DEF CastAndSubmit, boxVars, walletVars
<1>14. ASSUME NEW gone \in SUBSET wire
       PROVE  \A m \in Unawaited(gone) : \E d \in Citizens : m \in MessagesOf(d, Tokens')
  <2>1. ASSUME NEW n \in wire
        PROVE  \E d \in Citizens : [n EXCEPT !.waiting = FALSE] \in MessagesOf(d, Tokens')
    <3>1. PICK d \in Citizens : n \in MessagesOf(d, Tokens')
      BY <1>c
    <3>2. [n EXCEPT !.waiting = FALSE] \in MessagesOf(d, Tokens')
      BY <3>1 DEF MessagesOf
    <3> QED
      BY <3>2
  <2> QED
    BY <1>c, <2>1 DEF Unawaited
<1>15. ASSUME NEW c \in Citizens, Reload(c)
       PROVE  ClientInv'
  <2>1. app' = [app EXCEPT ![c] = app'[c]] /\ app'[c] = Page(None, {})
    BY <1>0, <1>15 DEF Reload, ClientInv
  <2>2. app'[c] \in PagesOf(c, Tokens') /\ "blind" \notin app'[c].live
    <3>1. None \in Places
      BY DEF Places
    <3> QED
      BY <1>d, <2>1, <3>1 DEF Page
  <2>3. \A m \in wire' : \E d \in Citizens : m \in MessagesOf(d, Tokens')
    BY <1>14, <1>15 DEF Reload
  <2> QED
    BY <1>0, <1>15, <1>a, <1>b, <2>1, <2>2, <2>3, ClientAt DEF Reload, boxVars, walletVars
<1>16. ASSUME NEW m \in wire, BoxTakes(m)
       PROVE  ClientInv'
  <2> DEFINE answer == [verdict |-> Verdict(m.ballot), election |-> election,
                        index |-> Len(registry')]
             answered == [m EXCEPT !.answer = answer]
  <2>1. PICK c \in Citizens : m \in MessagesOf(c, Tokens')
    BY <1>c
  <2>2. answer \in Answers
    <3>1. Verdict(m.ballot) \in Verdicts
      BY <1>b DEF Verdict, Verdicts
    <3>2. Len(registry') \in Nat
      <4>1. registry \in Seq([key : AllKeys, token : Tokens, nonce : Nat])
        BY DEF Inv, BoxInv
      <4>2. registry' = registry \/ registry' = Append(registry, m.ballot)
        BY <1>16 DEF BoxTakes
      <4> QED
        BY <4>1, <4>2
    <3> QED
      BY <1>b, <3>1, <3>2, Numbered DEF Answers
  <2>3. \A n \in wire' \ wire : n = answered
    BY <1>16 DEF BoxTakes
  <2> HIDE DEF answer
  <2>4. answered \in MessagesOf(c, Tokens')
    BY <2>1, <2>2 DEF MessagesOf
  <2> QED
    <3>1. UNCHANGED <<phones, election, phase, clientVars, counters>>
      BY <1>16 DEF BoxTakes
    <3> QED
      BY <1>0, <1>a, <1>b, <2>3, <2>4, <3>1, ClientAt DEF clientVars, walletVars, counters
<1>17. ASSUME NEW m \in wire, Answered(m)
       PROVE  ClientInv'
  <2>1. PICK c \in Citizens : m \in MessagesOf(c, Tokens)
    BY <1>0 DEF ClientInv
  <2>2. m.who = c /\ m.ballot \in BallotsOf(c, Tokens) /\ m.ballot \in BallotsOf(c, Tokens')
    BY <1>0, <2>1, Grows DEF MessagesOf, BallotsOf
  <2>3. m.answer \in Answers /\ m.ballot \in BallotsOf(c, AllTokens)
    <3>1. Tokens \subseteq AllTokens
      BY DEF Tokens
    <3> QED
      BY <1>17, <2>1, <2>2, <3>1 DEF Answered, MessagesOf, BallotsOf
  <2>4. /\ told' = [told EXCEPT ![c] = told'[c]]
        /\ told'[c] = told[c] \union {[ballot |-> m.ballot, answer |-> m.answer]}
    BY <1>0, <1>17, <2>2 DEF Answered, ClientInv
  <2>5. told'[c] \in SUBSET [ballot : BallotsOf(c, AllTokens), answer : Answers]
    BY <1>a, <2>3, <2>4
  <2>8. /\ UNCHANGED <<phones, election, boxVars, wallet, counters>>
        /\ wire' \subseteq wire
    BY <1>17 DEF Answered, walletVars
  <2>6. CASE c \in phones
    <3>3. stored' = stored
      BY <1>17, <2>2, <2>6 DEF Answered
    <3>1. app' = [app EXCEPT ![c] = app'[c]] /\ app'[c] = [app[c] EXCEPT !.live = {"mark"}]
      BY <1>0, <1>17, <2>2, <2>6 DEF Answered, ClientInv
    <3>2. app'[c] \in PagesOf(c, Tokens') /\ "blind" \notin app'[c].live
      BY <1>a, <3>1 DEF PagesOf, Buttons
    <3> QED
      BY <1>0, <1>a, <1>b, <2>4, <2>5, <2>8, <3>1, <3>2, <3>3, ClientAt
         DEF counters, boxVars, walletVars
  <2>7. CASE c \notin phones
    <3>3. app' = app
      BY <1>17, <2>2, <2>7 DEF Answered
    <3>1. /\ stored' = [stored EXCEPT ![c] = stored'[c]]
          /\ stored'[c] = [stored[c] EXCEPT !.casts = @ \union {m.ballot}]
      BY <1>0, <1>17, <2>2, <2>7 DEF Answered, ClientInv
    <3>2. stored'[c] \in StoragesOf(c, Tokens')
      BY <1>a, <2>2, <3>1 DEF StoragesOf
    <3> QED
      BY <1>0, <1>a, <1>b, <2>4, <2>5, <2>8, <3>1, <3>2, <3>3, ClientAt
         DEF counters, boxVars, walletVars
  <2> QED
    BY <2>6, <2>7
<1>18. ASSUME NEW m \in wire, GivesUp(m)
       PROVE  ClientInv'
  <2>1. PICK c \in Citizens : m \in MessagesOf(c, Tokens')
    BY <1>c
  <2>2. m.who = c /\ m.ballot \in BallotsOf(c, Tokens')
    BY <2>1 DEF MessagesOf
  <2>3. \A n \in wire' : \E d \in Citizens : n \in MessagesOf(d, Tokens')
    BY <1>14, <1>18 DEF GivesUp
  <2>4. /\ app' = [app EXCEPT ![c] = app'[c]]
        /\ \/ app'[c] = app[c]
           \/ app'[c] = [app[c] EXCEPT !.sheets = @ \union {m.ballot}]
    BY <1>0, <1>18, <2>2 DEF GivesUp, ClientInv
  <2>5. app'[c] \in PagesOf(c, Tokens') /\ app'[c].key = app[c].key /\ app'[c].live = app[c].live
    BY <1>a, <2>2, <2>4 DEF PagesOf
  <2> QED
    BY <1>0, <1>18, <1>a, <1>b, <2>3, <2>4, <2>5, ClientAt DEF GivesUp, boxVars, walletVars
<1>19. CASE OpenPoll \/ ClosePoll \/ Mint \/ UNCHANGED vars
  <2>1. UNCHANGED <<phones, clientVars, wire, counters>>
    BY <1>19 DEF OpenPoll, ClosePoll, Mint, vars
  <2>2. phase' \in {"not opened", "open", "closed"} /\ election' \in 1..Len(Ids)
    <3>1. CASE OpenPoll
      BY <3>1, <1>b DEF OpenPoll
    <3>2. CASE ClosePoll
      BY <3>2, <1>b DEF ClosePoll
    <3>3. CASE Mint
      <4>1. phase' = "not opened" /\ election' = election + 1 /\ election < Len(Ids)
        BY <3>3 DEF Mint
      <4>2. PICK n \in Nat : n = Len(Ids)
        BY VoterConstantsOK
      <4>3. election \in 1..n /\ election < n
        BY <1>b, <4>1, <4>2
      <4>4. election + 1 \in 1..n
        BY <4>3
      <4> QED
        BY <4>1, <4>2, <4>4
    <3>4. CASE UNCHANGED vars
      BY <3>4, <1>b DEF vars, boxVars
    <3> QED
      BY <1>19, <3>1, <3>2, <3>3, <3>4
  <2>3. ASSUME NEW c \in Citizens
        PROVE  app[c] \in PagesOf(c, Tokens') /\ stored[c] \in StoragesOf(c, Tokens')
    BY <1>a
  <2> QED
    BY <1>0, <1>b, <1>c, <2>1, <2>2, <2>3 DEF ClientInv, clientVars, walletVars, counters
<1> QED
  BY <1>1, <1>2, <1>3, <1>4, <1>5, <1>6, <1>7, <1>8, <1>10, <1>12, <1>13, <1>15, <1>16, <1>17,
     <1>18, <1>19, <1>20, <1>22, <1>25 DEF Next

\* The registry has no ballot twice, and every answer about names its place.
LEMMA BoxStep == Inv /\ [Next]_vars => BoxInv'
<1> SUFFICES ASSUME Inv, [Next]_vars PROVE BoxInv'
  OBVIOUS
<1> DEFINE S == [key : AllKeys, token : Tokens, nonce : Nat]
<1>0. BoxInv /\ ClientInv /\ Tokens \subseteq Tokens'
  BY TokensStep DEF Inv
<1>a. /\ \A m \in wire : m.answer # None => Receipt(m.ballot, m.answer)
      /\ \A c \in Citizens : \A t \in told[c] : Receipt(t.ballot, t.answer)
      /\ \A m \in wire : \E c \in Citizens : m \in MessagesOf(c, Tokens)
      /\ registry \in Seq(S)
  BY <1>0 DEF BoxInv, ClientInv
<1>1. ASSUME NEW c \in Citizens,
             \/ Load(c) \/ Keygen(c) \/ DoBlind(c) \/ Enrol(c)
             \/ WalletOpen(c) \/ WalletLoad(c) \/ WalletSend(c) \/ OperatorRelease(c)
             \/ OperatorCancel(c) \/ Superseded(c) \/ Ask(c) \/ Collect(c) \/ AskInVain(c)
             \/ CollectOnPhone(c) \/ Mark(c)
      PROVE  BoxInv'
  <2>1. UNCHANGED <<election, registry, wire, told>>
    BY <1>1 DEF Load, Keygen, DoBlind, Enrol, WalletOpen, WalletLoad, WalletSend, OperatorRelease,
                OperatorCancel, Superseded, Ask, Collect, AskInVain, CollectOnPhone, Mark,
                boxVars, clientVars
  <2> QED
    BY <1>0, <1>a, <2>1, BoxKept
<1>2. ASSUME NEW c \in Citizens, NEW ballot, wire' = wire \union {Going(c, ballot)},
             UNCHANGED <<election, registry, told>>
      PROVE  BoxInv'
  <2>1. \A m \in wire' : m.answer # None => Receipt(m.ballot, m.answer)
    BY <1>2, <1>a DEF Going
  <2> QED
    BY <1>0, <1>2, <1>a, <2>1, BoxKept
<1>3. ASSUME NEW c \in Citizens, CastAndSubmit(c) \/ \E b \in app[c].sheets : Send(c, b)
      PROVE  BoxInv'
  <2>1. /\ \E b : wire' = wire \union {Going(c, b)}
        /\ UNCHANGED <<election, registry, told>>
    BY <1>3 DEF CastAndSubmit, Send, boxVars
  <2> QED
    BY <1>2, <2>1
<1>4. ASSUME NEW gone \in SUBSET wire, wire' = Unawaited(gone),
             UNCHANGED <<election, registry, told>>
      PROVE  BoxInv'
  <2>1. ASSUME NEW n \in gone, n.answer = None
        PROVE  [n EXCEPT !.waiting = FALSE].answer = None
    BY <1>a, <2>1 DEF MessagesOf
  <2>2. \A m \in wire' : m.answer # None => Receipt(m.ballot, m.answer)
    BY <1>4, <1>a, <2>1 DEF Unawaited
  <2> QED
    BY <1>0, <1>4, <1>a, <2>2, BoxKept
<1>5. ASSUME NEW c \in Citizens, Reload(c)
      PROVE  BoxInv'
  <2>1. UNCHANGED <<election, registry, told>>
        /\ wire' = Unawaited({m \in wire : m.who = c /\ m.waiting})
    BY <1>5 DEF Reload, boxVars
  <2> QED
    BY <1>4, <2>1
<1>6. ASSUME NEW m \in wire, GivesUp(m)
      PROVE  BoxInv'
  <2>1. UNCHANGED <<election, registry, told>> /\ wire' = Unawaited({m})
    BY <1>6 DEF GivesUp, boxVars
  <2> QED
    BY <1>4, <2>1
<1>7. ASSUME NEW m \in wire, Answered(m)
      PROVE  BoxInv'
  <2>1. UNCHANGED <<election, registry>> /\ wire' \subseteq wire /\ m.answer # None
    BY <1>7 DEF Answered, boxVars
  <2>2. PICK d \in Citizens : d = m.who
    BY <1>a DEF MessagesOf
  <2>3. told' = [told EXCEPT ![d] = @ \union {[ballot |-> m.ballot, answer |-> m.answer]}]
    BY <1>7, <2>2 DEF Answered
  <2>4. ASSUME NEW c \in Citizens, NEW t \in told'[c]
        PROVE  Receipt(t.ballot, t.answer)
    <3>1. t \in told[c] \/ t = [ballot |-> m.ballot, answer |-> m.answer]
      BY <1>0, <2>3, <2>4 DEF ClientInv
    <3> QED
      BY <1>a, <2>1, <3>1
  <2> QED
    BY <1>0, <1>a, <2>1, <2>4, BoxKept
<1>8. ASSUME NEW m \in wire, BoxTakes(m)
      PROVE  BoxInv'
  <2>0. PICK answer : answer = [verdict |-> Verdict(m.ballot), election |-> election,
                                index |-> Len(registry')]
    OBVIOUS
  <2> DEFINE answered == [m EXCEPT !.answer = answer]
  <2>1. PICK c \in Citizens : m \in MessagesOf(c, Tokens)
    BY <1>a
  <2>2. answered.answer = answer /\ answered.ballot = m.ballot
    BY <2>1 DEF MessagesOf
  <2>3. \A n \in wire' : n \in wire \/ n = answered
    BY <1>8, <2>0 DEF BoxTakes
  <2>4. UNCHANGED <<election, told>>
    BY <1>8 DEF BoxTakes, clientVars
  <2>5. CASE Verdict(m.ballot) # "accepted"
    <3>1. registry' = registry
      BY <1>8, <2>5 DEF BoxTakes
    <3>2. Receipt(m.ballot, answer)
      <4>1. election \in Nat
        BY <1>0, Numbered DEF ClientInv
      <4> QED
        BY <2>0, <2>5, <4>1 DEF Receipt
    <3>3. \A n \in wire' : n.answer # None => Receipt(n.ballot, n.answer)
      BY <1>a, <2>2, <2>3, <3>2
    <3> QED
      BY <1>0, <1>a, <2>4, <3>1, <3>3, BoxKept
  <2>6. CASE Verdict(m.ballot) = "accepted"
    <3>1. registry' = Append(registry, m.ballot)
      BY <1>8, <2>6 DEF BoxTakes
    <3>2. /\ Verifies(m.ballot.token, m.ballot.key, election)
          /\ \A i \in DOMAIN registry : registry[i] # m.ballot
      <4>1. phase # "open" => phase # "accepted"
        BY <1>0 DEF ClientInv
      <4> QED
        BY <2>6, <4>1 DEF Verdict
    <3>3. m.ballot \in S /\ m.ballot.token = Token(m.ballot.key, election)
      <4>1. m.ballot \in BallotsOf(c, Tokens) /\ m.ballot.token = Token(m.ballot.key, election)
        BY <2>1, <3>2 DEF MessagesOf, Verifies
      <4>2. m.ballot.token # None
        <5>1. m.ballot.key \in AllKeys \union {None}
          BY <4>1 DEF BallotsOf, KeysOf
        <5>2. election \in Nat
          BY <1>0, Numbered DEF ClientInv
        <5> QED
          BY <4>1, <5>1, <5>2, Somebody DEF Token
      <4>3. m.ballot.token \in Tokens
        BY <4>1, <4>2 DEF BallotsOf
      <4>4. m.ballot.key \in AllKeys
        BY <4>1, <4>3 DEF Tokens, AllTokens, Token
      <4> QED
        BY <4>1, <4>3, <4>4 DEF BallotsOf
    <3> HIDE DEF S
    <3>4. /\ Len(registry') = Len(registry) + 1 /\ Len(registry) \in Nat
          /\ DOMAIN registry = 1..Len(registry) /\ DOMAIN registry' = 1..Len(registry')
          /\ \A i \in DOMAIN registry : registry'[i] = registry[i]
          /\ registry'[Len(registry')] = m.ballot
          /\ registry' \in Seq(S)
      BY <1>a, <3>1, <3>3
    <3>5. ASSUME NEW b, NEW a, Receipt(b, a)
          PROVE  Receipt(b, a)'
      BY <2>4, <3>4, <3>5 DEF Receipt
    <3>6. Receipt(m.ballot, answer)'
      <4>1. election \in Nat
        BY <1>0, Numbered DEF ClientInv
      <4>2. answer.election = election /\ answer.index = Len(registry')
        BY <2>0
      <4> QED
        BY <2>4, <3>4, <4>1, <4>2 DEF Receipt
    <3>7. \A n \in wire' : n.answer # None => Receipt(n.ballot, n.answer)'
      BY <1>a, <2>2, <2>3, <3>5, <3>6
    <3>8. \A d \in Citizens : \A t \in told'[d] : Receipt(t.ballot, t.answer)'
      BY <1>a, <2>4, <3>5
    <3>9. \A i \in DOMAIN registry' : registry'[i].token = Token(registry'[i].key, election')
      <4> TAKE i \in DOMAIN registry'
      <4>1. CASE i \in DOMAIN registry
        BY <1>0, <2>4, <3>4, <4>1, Entry
      <4>2. CASE i = Len(registry')
        BY <2>4, <3>3, <3>4, <4>2
      <4> QED
        BY <3>4, <4>1, <4>2
    <3>10. \A i, j \in DOMAIN registry' : registry'[i] = registry'[j] => i = j
      <4>1. \A i, j \in DOMAIN registry : registry[i] = registry[j] => i = j
        BY <1>0 DEF BoxInv
      <4>2. \A i \in DOMAIN registry' : i \in DOMAIN registry \/ i = Len(registry')
        BY <3>4
      <4> QED
        BY <3>2, <3>4, <4>1, <4>2
    <3>11. registry' \in Seq([key : AllKeys, token : Tokens', nonce : Nat])
      <4> DEFINE U == [key : AllKeys, token : Tokens', nonce : Nat]
      <4>1. S \subseteq U
        BY <1>0 DEF S
      <4> HIDE DEF U
      <4>2. registry' \in Seq(U)
        BY <3>4, <4>1
      <4> QED
        BY <4>2 DEF U
    <3> QED
      BY <3>7, <3>8, <3>9, <3>10, <3>11 DEF BoxInv
  <2> QED
    BY <2>5, <2>6
<1>9. CASE Mint
  <2>1. registry' = <<>> /\ election' = election + 1 /\ UNCHANGED <<wire, told>>
    BY <1>9 DEF Mint, clientVars
  <2>2. election \in Nat
    BY <1>0, Numbered DEF ClientInv
  <2>3. ASSUME NEW b, NEW a, a.election \in Nat, Receipt(b, a)
        PROVE  Receipt(b, a)'
    BY <2>1, <2>2, <2>3 DEF Receipt
  <2>4. \A m \in wire' : m.answer # None => Receipt(m.ballot, m.answer)'
    <3>1. \A m \in wire : m.answer # None => m.answer.election \in Nat
      BY <1>a DEF MessagesOf, Answers
    <3> QED
      BY <1>a, <2>1, <2>3, <3>1
  <2>5. \A c \in Citizens : \A t \in told'[c] : Receipt(t.ballot, t.answer)'
    <3>1. \A c \in Citizens : \A t \in told[c] : t.answer.election \in Nat
      BY <1>0 DEF ClientInv, Answers
    <3> QED
      BY <1>a, <2>1, <2>3, <3>1
  <2>6. /\ registry' \in Seq([key : AllKeys, token : Tokens', nonce : Nat])
        /\ DOMAIN registry' = {}
    BY <2>1
  <2> QED
    BY <2>4, <2>5, <2>6 DEF BoxInv
<1>10. CASE OpenPoll \/ ClosePoll \/ UNCHANGED vars
  <2>1. UNCHANGED <<election, registry, wire, told>>
    BY <1>10 DEF OpenPoll, ClosePoll, vars, boxVars, clientVars
  <2> QED
    BY <1>0, <1>a, <2>1, BoxKept
<1> QED
  BY <1>1, <1>3, <1>5, <1>6, <1>7, <1>8, <1>9, <1>10 DEF Next

\* An election begins with nothing signed, sent or recorded.
LEMMA InitInv == Init => Inv
<1> SUFFICES ASSUME Init PROVE Inv
  OBVIOUS
<1>1. OfficeInv
  BY DEF Init, OfficeInv
<1>2. BoxInv
  <2>1. registry \in Seq([key : AllKeys, token : Tokens, nonce : Nat]) /\ DOMAIN registry = {}
    <3> DEFINE S == [key : AllKeys, token : Tokens, nonce : Nat]
    <3> HIDE DEF S
    <3>1. registry = <<>>
      BY DEF Init
    <3>2. registry \in Seq(S) /\ DOMAIN registry = {}
      BY <3>1
    <3> QED
      BY <3>2 DEF S
  <2>2. wire = {} /\ \A c \in Citizens : told[c] = {}
    BY DEF Init
  <2> QED
    BY <2>1, <2>2 DEF BoxInv
<1>3. ClientInv
  <2>1. 1 \in 1..Len(Ids)
    <3>1. PICK n \in Nat \ {0} : n = Len(Ids)
      BY VoterConstantsOK
    <3> QED
      BY <3>1
  <2>2. ASSUME NEW c \in Citizens
        PROVE  /\ Page(None, {}) \in PagesOf(c, Tokens) /\ "blind" \notin Page(None, {}).live
               /\ Empty \in StoragesOf(c, Tokens)
    BY DEF Page, PagesOf, Places, Empty, StoragesOf, Names
  <2> QED
    BY <2>1, <2>2 DEF Init, ClientInv
<1> QED
  BY <1>1, <1>2, <1>3 DEF Inv

(***************************************************************************)
(* The theorems.                                                           *)
(***************************************************************************)

\* Whatever is about in an election is somebody's, and comes from a signature
\* of its office if it says so; the invariant the other theorems rest on.
THEOREM VoterInvariant == Spec => []Inv
<1>1. Inv /\ [Next]_vars => Inv'
  BY ClientStep, OfficeStep, BoxStep DEF Inv
<1> QED
  BY InitInv, <1>1, PTL DEF Spec

\* What is held, signed and kept is in step (vro.py, `_claim` and `release`).
THEOREM VoterTypeCorrect == Spec => []TypeOK
BY VoterInvariant, InvType, PTL

\* Reloads, new draws, retries, late deliveries and a new election of the same
\* name give no citizen a second key that is filed (vro.py, ballotbox.py).
THEOREM OneVote == Spec => []OneVotePerCitizen
BY VoterInvariant, InvOneVote, PTL

\* A voter who has seen a receipt for all that was recorded of theirs knows
\* which ballot counts (main.ts, `showReceipt`; ballotbox.py, `submit`).
THEOREM ReceiptsTell == Spec => []ShownIsCounted
BY VoterInvariant, InvShown, PTL
=============================================================================
