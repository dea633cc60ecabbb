-------------------------- MODULE ProxyCallsProofs --------------------------
(***************************************************************************)
(* Proofs about ProxyCalls: a call types into a row only with the consent  *)
(* of the user, no dialog is open that nobody reads, no row is asked about *)
(* that was refused; the slots and the pages of the host are accounted     *)
(* for, its shutdown leaves nothing behind, and a page ends once.          *)
(*                                                                         *)
(* The invariant is ProxyInv: the consent of a call, the thread that holds *)
(* each page, the counters, what shutdown has seen, whose turn it is.      *)
(***************************************************************************)
EXTENDS ProxyCalls, FiniteSetTheorems, TLAPS

Wants == [kind : Kinds, on : Rows \cup Slots \cup {None},
          pair : BOOLEAN, block : BOOLEAN]

\* The part of TypeOK that the theorems below rest on.
ConsentTypes ==
  /\ pc \in [Threads -> Labels]
  /\ want \in [Calls -> Wants]
  /\ mine \in [Calls -> Pages \cup {None}] /\ cand \in [Calls -> SUBSET Pages]
  /\ ask \in [Rows -> [state : {"none", "open", "once", "pair", "deny"},
                       by : Calls \cup {None}]]
  /\ drop \in [Calls -> SUBSET Rows] /\ agents \subseteq Rows
  /\ grants \subseteq Rows /\ lasting \subseteq Rows /\ consented \subseteq Calls \X Rows

Asking == {"await", "cancelTimeout", "cancelGone"}

\* What a call at a label is about.
KindInv ==
  \A c \in Calls :
    /\ want[c].kind = "type" => want[c].on \in Rows
    /\ pc[c] \in Asking \cup {"consent", "ask", "refuse", "check", "grant", "undialog",
                              "undialogExec"}
         => want[c].kind = "type"
    /\ pc[c] = "grant" => want[c].pair
    /\ pc[c] \in {"slot", "drive"} => want[c].kind \in {"submit", "close"}

\* Whoever a dialog belongs to reads or cancels it, and an answer that allows
\* is a click for that call.
DialogInv ==
  \A r \in Rows :
    ask[r].by # None =>
      /\ want[ask[r].by].on = r
      /\ pc[ask[r].by] \in Asking
      /\ ask[r].state # "none"
      /\ ask[r].state \in {"once", "pair"} => <<ask[r].by, r>> \in consented

\* A call that has read such an answer, or was decided under a grant.
Answered(c) ==
  \/ pc[c] \in {"check", "grant", "undialogExec"}
  \/ pc[c] = "drop" /\ want[c].kind = "type" /\ want[c].pair

AnsweredInv == \A c \in Calls : Answered(c) => <<c, want[c].on>> \in consented

\* Nothing is granted that the user does not let the host do, and what he lets
\* the host do he lets every call do.
GrantsInv ==
  /\ grants \subseteq lasting /\ Unstored \subseteq lasting
  /\ \A c \in Calls : pc[c] # "idle" => \A r \in lasting : <<c, r>> \in consented

ConsentInv ==
  ConsentTypes /\ KindInv /\ DialogInv /\ AnsweredInv /\ GrantsInv /\ TypesWithConsent

\* The code starts without calls, dialogs and grants.
LEMMA ConsentInit == Init => ConsentInv
BY NameAssumption
DEF Init, Wants, ConsentInv, ConsentTypes, KindInv, DialogInv, AnsweredInv, Answered,
    GrantsInv, Unstored, TypesWithConsent, Labels, Kinds, Threads, NoWant, NoAsk, Asking

\* An answer changes nothing of what a call wants but whether it is for good.
LEMMA WantPair ==
  ASSUME NEW w \in [Calls -> Wants], NEW c \in Calls, NEW b \in BOOLEAN
  PROVE  /\ [w EXCEPT ![c].pair = b] \in [Calls -> Wants]
         /\ \A d \in Calls : /\ [w EXCEPT ![c].pair = b][d].kind = w[d].kind
                             /\ [w EXCEPT ![c].pair = b][d].on = w[d].on
BY DEF Wants

\* Set membership has a truth value; the provers need it as a fact.
LEMMA TruthValue == ASSUME NEW e, NEW S PROVE (e \in S) \in BOOLEAN
OBVIOUS

\* The labels of which ConsentInv says nothing.
Neutral == {"leave", "open", "opened", "bind", "track", "hook", "wait", "dismiss",
            "closeLook", "close", "outcome", "release"}

\* A step that leaves dialogs, grants and consent alone, and whose call goes on
\* without typing.
LEMMA MovesOn ==
  ASSUME ConsentInv, ConsentTypes', UNCHANGED <<want, ask, grants, lasting, consented>>,
         \A c \in Calls :
           \/ pc'[c] = pc[c]
           \/ /\ pc[c] \notin Asking \cup {"idle"}
              /\ \/ pc'[c] \in Neutral
                 \/ pc'[c] = "exec" /\ want[c].kind # "type"
                 \/ pc'[c] = "ask" /\ want[c].kind = "type"
  PROVE  ConsentInv'
<1>1. KindInv'
  BY DEF ConsentInv, KindInv, Asking, Neutral
<1>2. DialogInv'
  BY DEF ConsentInv, ConsentTypes, DialogInv, Asking, Neutral
<1>3. AnsweredInv' /\ TypesWithConsent'
  BY DEF ConsentInv, AnsweredInv, Answered, TypesWithConsent, Neutral
<1>4. Unstored' \subseteq Unstored
  BY DEF Unstored, Neutral
<1>5. GrantsInv'
  <2>1. \A c \in Calls : pc'[c] # "idle" => pc[c] # "idle"
    OBVIOUS
  <2> QED BY <1>4, <2>1 DEF ConsentInv, GrantsInv
<1> QED BY <1>1, <1>2, <1>3, <1>5 DEF ConsentInv

\* What the policy decides.
LEMMA DecisionTypes ==
  ASSUME ConsentTypes, NEW w \in Decisions
  PROVE  /\ w \in Wants
         /\ w.kind = "type" => w.on \in Rows /\ (w.pair => w.on \in grants)
         /\ w.kind \in {"page", "submit", "close"} => w.on \in Slots
<1> USE DEF Wants, Kinds
<1>1. /\ NoWant \in Wants /\ NoWant.kind = "plain"
      /\ [NoWant EXCEPT !.kind = "refused"] \in Wants
      /\ [NoWant EXCEPT !.kind = "refused"].kind = "refused"
  BY DEF NoWant
<1>2. ASSUME NEW r \in agents,
             w = [kind |-> "type", on |-> r, pair |-> r \in grants, block |-> FALSE]
      PROVE  /\ w \in Wants /\ w.kind = "type" /\ w.on \in Rows
             /\ w.pair => w.on \in grants
  <2> DEFINE g == r \in grants
  <2>1. g \in BOOLEAN /\ (g => r \in grants) /\ r \in Rows
    BY TruthValue DEF ConsentTypes
  <2>2. w = [kind |-> "type", on |-> r, pair |-> g, block |-> FALSE]
    BY <1>2, Zenon
  <2> HIDE DEF g
  <2> QED BY <2>1, <2>2
<1>3. ASSUME NEW s \in Slots, NEW kind \in {"page", "submit", "close"}, NEW block \in BOOLEAN,
             w = [kind |-> kind, on |-> s, pair |-> FALSE, block |-> block]
      PROVE  w \in Wants /\ w.kind = kind /\ w.on = s
  BY <1>3
<1> HIDE DEF Wants, Kinds
<1> DEFINE Types == {[kind |-> "type", on |-> r, pair |-> r \in grants, block |-> FALSE] :
                       r \in agents}
           Opens == {[kind |-> "page", on |-> s, pair |-> FALSE, block |-> block] :
                       s \in Slots, block \in BOOLEAN}
           Drives == {[kind |-> kind, on |-> s, pair |-> FALSE, block |-> FALSE] :
                       s \in Slots, kind \in {"submit", "close"}}
<1>4. /\ w \in {NoWant, [NoWant EXCEPT !.kind = "refused"]} \cup Types \cup Opens \cup Drives
      /\ w \in Types => \E r \in agents :
           w = [kind |-> "type", on |-> r, pair |-> r \in grants, block |-> FALSE]
      /\ w \in Opens \cup Drives =>
           \E s \in Slots, kind \in {"page", "submit", "close"}, block \in BOOLEAN :
             w = [kind |-> kind, on |-> s, pair |-> FALSE, block |-> block]
  <2>1. w \in {NoWant, [NoWant EXCEPT !.kind = "refused"]} \cup Types \cup Opens \cup Drives
    BY DEF Decisions
  <2>2. w \in Types => \E r \in agents :
           w = [kind |-> "type", on |-> r, pair |-> r \in grants, block |-> FALSE]
    BY Zenon
  <2>3. w \in Opens =>
           \E s \in Slots, kind \in {"page", "submit", "close"}, block \in BOOLEAN :
             w = [kind |-> kind, on |-> s, pair |-> FALSE, block |-> block]
    OBVIOUS
  <2>4. w \in Drives =>
           \E s \in Slots, kind \in {"page", "submit", "close"}, block \in BOOLEAN :
             w = [kind |-> kind, on |-> s, pair |-> FALSE, block |-> block]
    <3> SUFFICES ASSUME NEW s \in Slots, NEW kind \in {"submit", "close"},
                        w = [kind |-> kind, on |-> s, pair |-> FALSE, block |-> FALSE]
                 PROVE  \E t \in Slots, k \in {"page", "submit", "close"}, block \in BOOLEAN :
                          w = [kind |-> k, on |-> t, pair |-> FALSE, block |-> block]
      OBVIOUS
    <3>1. kind \in {"page", "submit", "close"} /\ FALSE \in BOOLEAN
      OBVIOUS
    <3> QED BY <3>1, Zenon
  <2> HIDE DEF Types, Opens, Drives
  <2> QED BY <2>1, <2>2, <2>3, <2>4, Zenon
<1> HIDE DEF Types, Opens, Drives
<1>5. CASE w = NoWant \/ w = [NoWant EXCEPT !.kind = "refused"]
  BY <1>1, <1>5
<1>6. ASSUME NEW r \in agents,
             w = [kind |-> "type", on |-> r, pair |-> r \in grants, block |-> FALSE]
      PROVE  /\ w \in Wants
             /\ w.kind = "type" => w.on \in Rows /\ (w.pair => w.on \in grants)
             /\ w.kind \in {"page", "submit", "close"} => w.on \in Slots
  <2>1. w \in Wants /\ w.kind = "type" /\ w.on \in Rows /\ (w.pair => w.on \in grants)
    BY <1>2, <1>6
  <2> QED BY <2>1
<1>7. ASSUME NEW s \in Slots, NEW kind \in {"page", "submit", "close"}, NEW block \in BOOLEAN,
             w = [kind |-> kind, on |-> s, pair |-> FALSE, block |-> block]
      PROVE  /\ w \in Wants
             /\ w.kind = "type" => w.on \in Rows /\ (w.pair => w.on \in grants)
             /\ w.kind \in {"page", "submit", "close"} => w.on \in Slots
  <2>1. w \in Wants /\ w.kind = kind /\ w.on = s
    BY <1>3, <1>7
  <2> QED BY <2>1
<1>8. CASE w \in Types BY <1>4, <1>6, <1>8, Zenon
<1>9. CASE w \in Opens \cup Drives BY <1>4, <1>7, <1>9, Zenon
<1> QED BY <1>4, <1>5, <1>8, <1>9

\* The labels that a decided call goes on to.
LEMMA DecidedLabels ==
  ASSUME NEW w \in Wants
  PROVE  /\ Decided(w) \in {"leave", "exec", "consent", "register", "slot"}
         /\ Decided(w) = "exec" => (w.kind = "type" => w.pair)
         /\ Decided(w) = "consent" => w.kind = "type"
         /\ Decided(w) = "register" => w.kind = "page"
         /\ Decided(w) = "slot" => w.kind \in {"submit", "close"}
BY DEF Decided, Wants, Kinds

\* A decision, and the grants that go with it: only a granted row is typed into
\* at once.
LEMMA AuthorizeKeeps ==
  ASSUME ConsentInv, NEW c \in Calls, Authorize(c)
  PROVE  ConsentInv'
<1>0. pc[c] = "decide" /\ UNCHANGED <<mine, cand, ask, consented, grants, lasting, agents>>
  BY DEF Authorize, agtermVars
<1>1. PICK w \in Decisions, unlisted \in SUBSET (grants \ agents) :
        /\ want' = [want EXCEPT ![c] = w] /\ drop' = [drop EXCEPT ![c] = unlisted]
        /\ Goto(c, IF unlisted = {} THEN Decided(w) ELSE "drop")
  BY Zenon DEF Authorize
<1>2. /\ w \in Wants
      /\ w.kind = "type" => w.on \in Rows /\ (w.pair => w.on \in grants)
  BY DecisionTypes DEF ConsentInv
<1>3. PICK label \in {"leave", "exec", "consent", "register", "slot", "drop"} :
        /\ pc' = [pc EXCEPT ![c] = label]
        /\ label = "exec" => (w.kind = "type" => w.pair)
        /\ label = "consent" => w.kind = "type"
        /\ label = "slot" => w.kind \in {"submit", "close"}
  BY <1>1, <1>2, DecidedLabels DEF Goto
<1>4. w.kind = "type" /\ w.pair => <<c, w.on>> \in consented
  BY <1>0, <1>2 DEF ConsentInv, GrantsInv
<1>5. ConsentTypes'
  BY <1>0, <1>1, <1>2, <1>3 DEF ConsentInv, ConsentTypes, Labels, Threads
<1>6. /\ pc'[c] = label /\ want'[c] = w
      /\ \A d \in Calls \ {c} : pc'[d] = pc[d] /\ want'[d] = want[d]
  BY <1>1, <1>3 DEF ConsentInv, ConsentTypes, Threads
<1>7. KindInv'
  BY <1>2, <1>3, <1>6 DEF ConsentInv, KindInv, Asking
<1>8. DialogInv' /\ AnsweredInv'
  BY <1>0, <1>3, <1>4, <1>6 DEF ConsentInv, ConsentTypes, DialogInv, AnsweredInv, Answered,
                                Asking
<1>9. GrantsInv'
  BY <1>0, <1>3, <1>6 DEF ConsentInv, GrantsInv, Unstored
<1>10. TypesWithConsent'
  BY <1>0, <1>3, <1>4, <1>6 DEF ConsentInv, TypesWithConsent
<1> QED BY <1>5, <1>7, <1>8, <1>9, <1>10 DEF ConsentInv

\* A grant goes, and the call goes on as it was decided.
LEMMA DropGrantKeeps ==
  ASSUME ConsentInv, NEW c \in Calls, DropGrant(c)
  PROVE  ConsentInv'
<1>0. /\ pc[c] = "drop" /\ grants' \subseteq grants
      /\ UNCHANGED <<want, mine, cand, ask, consented, lasting, agents>>
  BY DEF DropGrant
<1>1. want[c] \in Wants /\ drop \in [Calls -> SUBSET Rows]
  BY DEF ConsentInv, ConsentTypes
<1>2. PICK label \in {"leave", "exec", "consent", "register", "slot", "drop"} :
        /\ pc' = [pc EXCEPT ![c] = label]
        /\ label = "exec" => (want[c].kind = "type" => want[c].pair)
        /\ label = "consent" => want[c].kind = "type"
        /\ label = "slot" => want[c].kind \in {"submit", "close"}
  BY <1>1, DecidedLabels DEF DropGrant, Goto
<1>3. drop' \in [Calls -> SUBSET Rows]
  BY <1>1 DEF DropGrant
<1>4. ConsentTypes'
  BY <1>0, <1>2, <1>3 DEF ConsentInv, ConsentTypes, Labels, Threads
<1>5. pc'[c] = label /\ \A d \in Calls \ {c} : pc'[d] = pc[d]
  BY <1>2 DEF ConsentInv, ConsentTypes, Threads
<1>6. KindInv' /\ DialogInv'
  BY <1>0, <1>2, <1>5 DEF ConsentInv, ConsentTypes, KindInv, DialogInv, Asking
<1>7. AnsweredInv' /\ TypesWithConsent'
  BY <1>0, <1>2, <1>5 DEF ConsentInv, AnsweredInv, Answered, TypesWithConsent
<1>8. GrantsInv'
  BY <1>0, <1>2, <1>5 DEF ConsentInv, GrantsInv, Unstored
<1> QED BY <1>4, <1>6, <1>7, <1>8 DEF ConsentInv

\* An answer is read by the call that the dialog belongs to, once.
LEMMA AwaitAnswerKeeps ==
  ASSUME ConsentInv, NEW c \in Calls, AwaitAnswer(c)
  PROVE  ConsentInv'
<1> DEFINE r == want[c].on
<1>1. /\ pc[c] = "await" /\ ask[r].by = c /\ ask[r].state # "open"
      /\ ask' = [ask EXCEPT ![r] = NoAsk]
      /\ Goto(c, IF ask[r].state = "deny" THEN "refuse" ELSE "check")
      /\ UNCHANGED <<mine, cand, drop, agents, consented, grants, lasting>>
  BY DEF AwaitAnswer, agtermVars
<1>n. None \notin Calls
  BY NameAssumption
<1>2. r \in Rows /\ want[c].kind = "type"
  BY <1>1 DEF ConsentInv, KindInv, Asking
<1>3. PICK b \in BOOLEAN : want' = [want EXCEPT ![c].pair = b]
  BY DEF AwaitAnswer
<1>4. /\ want' \in [Calls -> Wants]
      /\ \A d \in Calls : want'[d].kind = want[d].kind /\ want'[d].on = want[d].on
  BY <1>3, WantPair DEF ConsentInv, ConsentTypes
<1>5. PICK label \in {"refuse", "check"} :
        /\ pc' = [pc EXCEPT ![c] = label]
        /\ label = "check" => ask[r].state \in {"once", "pair"}
        /\ label = "check" /\ want'[c].pair => ask[r].state = "pair"
  <2>1. ask[r].state \in {"none", "open", "once", "pair", "deny"} /\ ask[r].state # "none"
    BY <1>1, <1>2, <1>n DEF ConsentInv, ConsentTypes, DialogInv
  <2>2. want'[c].pair = (ask[r].state = "pair")
    BY DEF AwaitAnswer, ConsentInv, ConsentTypes, Wants
  <2> QED BY <1>1, <2>1, <2>2 DEF Goto
<1> HIDE DEF r
<1>6. ConsentTypes'
  BY <1>1, <1>2, <1>4, <1>5 DEF ConsentInv, ConsentTypes, Labels, Threads, NoAsk
<1>7. /\ pc'[c] = label /\ \A d \in Calls \ {c} : pc'[d] = pc[d] /\ want'[d] = want[d]
      /\ ask'[r] = NoAsk /\ \A q \in Rows \ {r} : ask'[q] = ask[q]
  BY <1>1, <1>2, <1>3, <1>5 DEF ConsentInv, ConsentTypes, Threads
<1>8. KindInv'
  BY <1>2, <1>4, <1>5, <1>7 DEF ConsentInv, KindInv, Asking
<1>9. DialogInv'
  BY <1>1, <1>4, <1>7 DEF ConsentInv, ConsentTypes, DialogInv, NoAsk, r
<1>10. AnsweredInv'
  <2>1. label = "check" => <<c, r>> \in consented
    BY <1>1, <1>2, <1>5, <1>n DEF ConsentInv, DialogInv
  <2>2. want'[c].on = r
    BY <1>4 DEF r
  <2> QED BY <1>1, <1>5, <1>7, <2>1, <2>2 DEF ConsentInv, AnsweredInv, Answered
<1>11. GrantsInv'
  <2>1. Unstored' \subseteq Unstored
    BY <1>1, <1>4, <1>5, <1>7 DEF Unstored, NoAsk, r
  <2> QED BY <1>1, <1>5, <1>7, <2>1 DEF ConsentInv, GrantsInv
<1>12. TypesWithConsent'
  BY <1>1, <1>4, <1>5, <1>7 DEF ConsentInv, TypesWithConsent
<1> QED BY <1>6, <1>8, <1>9, <1>10, <1>11, <1>12 DEF ConsentInv

\* A dialog that opens belongs to the call that asks, or to nobody.
LEMMA AskOpenKeeps ==
  ASSUME ConsentInv, NEW c \in Calls, AskOpen(c)
  PROVE  ConsentInv'
<1> DEFINE r == want[c].on
<1> USE NameAssumption DEF ConsentInv, ConsentTypes, KindInv, DialogInv, AnsweredInv,
      Answered, GrantsInv, Unstored, TypesWithConsent, Wants, Labels, Kinds, Threads, Asking, Goto
<1>0. pc[c] = "ask" /\ UNCHANGED <<want, mine, cand, drop, agents, consented, grants, lasting>>
  BY DEF AskOpen
<1>r. r \in Rows
  BY <1>0
<1> HIDE DEF r
<1>1. CASE ask' = [ask EXCEPT ![r] = [state |-> "open", by |-> c]] /\ Goto(c, "await")
  <2>1. ConsentTypes' BY <1>0, <1>r, <1>1
  <2>2. DialogInv' BY <1>0, <1>r, <1>1 DEF r
  <2>3. KindInv' /\ AnsweredInv' /\ TypesWithConsent' BY <1>0, <1>r, <1>1
  <2>4. GrantsInv'
    <3>1. Unstored' \subseteq Unstored BY <1>0, <1>r, <1>1
    <3>2. \A d \in Calls : pc'[d] # "idle" => pc[d] # "idle" BY <1>0, <1>1
    <3> HIDE DEF Unstored
    <3> QED BY <1>0, <3>1, <3>2
  <2> HIDE DEF ConsentTypes, DialogInv, KindInv, AnsweredInv, TypesWithConsent, GrantsInv
  <2> QED BY <2>1, <2>2, <2>3, <2>4
<1>2. CASE Goto(c, "undialog") /\ UNCHANGED ask
  BY <1>0, <1>2
<1>3. CASE ask' = [ask EXCEPT ![r] = [state |-> "open", by |-> None]] /\ Goto(c, "undialog")
  BY <1>0, <1>r, <1>3
<1> HIDE DEF ConsentInv, Goto
<1> QED BY <1>1, <1>2, <1>3 DEF AskOpen, r

\* A look at the pages of a slot does not touch dialogs.
LEMMA DriveLookKeeps ==
  ASSUME ConsentInv, NEW c \in Calls, DriveLook(c)
  PROVE  ConsentInv'
<1>1. PICK p \in cand[c] : /\ cand' = [cand EXCEPT ![c] = @ \ {p}]
                           /\ mine' = [mine EXCEPT ![c] = p] \/ UNCHANGED mine
  BY DEF DriveLook
<1>2. ConsentTypes'
  BY <1>1 DEF DriveLook, agtermVars, ConsentInv, ConsentTypes
<1>3. UNCHANGED <<pc, want, ask, consented, grants, lasting>>
  BY DEF DriveLook, agtermVars
<1> QED BY <1>2, <1>3 DEF ConsentInv, KindInv, DialogInv, AnsweredInv, Answered,
                                 GrantsInv, Unstored, TypesWithConsent

\* An answer is stored.
LEMMA AddGrantKeeps ==
  ASSUME ConsentInv, NEW c \in Calls, AddGrant(c)
  PROVE  ConsentInv'
<1>0. /\ pc[c] = "grant" /\ pc' = [pc EXCEPT ![c] = "undialogExec"]
      /\ grants' \subseteq grants \cup {want[c].on}
      /\ UNCHANGED <<want, mine, cand, drop, agents, ask, consented, lasting>>
  BY DEF AddGrant, Goto
<1>1. /\ pc'[c] = "undialogExec" /\ \A d \in Calls \ {c} : pc'[d] = pc[d]
      /\ want[c].kind = "type" /\ want[c].on \in Rows /\ <<c, want[c].on>> \in consented
  BY <1>0 DEF ConsentInv, ConsentTypes, KindInv, AnsweredInv, Answered, Threads
<1>2. ConsentTypes'
  BY <1>0, <1>1 DEF ConsentInv, ConsentTypes, Labels, Threads
<1>3. KindInv' /\ DialogInv'
  BY <1>0, <1>1 DEF ConsentInv, ConsentTypes, KindInv, DialogInv, Asking
<1>4. AnsweredInv' /\ TypesWithConsent'
  BY <1>0, <1>1 DEF ConsentInv, AnsweredInv, Answered, TypesWithConsent
<1>5. GrantsInv'
  <2>1. Unstored' \subseteq Unstored
    BY <1>0, <1>1 DEF Unstored
  <2>2. want[c].on \in lasting
    BY <1>0, <1>1 DEF ConsentInv, GrantsInv, KindInv, Unstored
  <2> QED BY <1>0, <1>1, <2>1, <2>2 DEF ConsentInv, GrantsInv
<1> QED BY <1>2, <1>3, <1>4, <1>5 DEF ConsentInv

\* A dialog is canceled, or left to nobody.
LEMMA CancelKeeps ==
  ASSUME ConsentInv, NEW c \in Calls, Cancel(c)
  PROVE  ConsentInv'
<1> DEFINE r == want[c].on
<1>0. /\ pc[c] \in {"cancelTimeout", "cancelGone"}
      /\ UNCHANGED <<want, mine, cand, drop, agents, consented, grants, lasting>>
  BY DEF Cancel
<1>1. r \in Rows /\ want[c].kind = "type"
  BY <1>0 DEF ConsentInv, KindInv, Asking
<1>2. PICK label \in {"refuse", "undialog"} : pc' = [pc EXCEPT ![c] = label]
  BY DEF Cancel, Goto
<1>3. /\ pc'[c] = label /\ \A d \in Calls \ {c} : pc'[d] = pc[d]
      /\ ask'[r].by = None
      /\ ask'[r].state = "pair" => ask[r].state = "pair"
      /\ \A q \in Rows \ {r} : ask'[q] = ask[q]
  BY <1>1, <1>2 DEF Cancel, ConsentInv, ConsentTypes, Threads, NoAsk
<1>4. ConsentTypes'
  <2>1. ask' \in [Rows -> [state : {"none", "open", "once", "pair", "deny"},
                           by : Calls \cup {None}]]
    BY <1>1 DEF Cancel, ConsentInv, ConsentTypes, NoAsk
  <2> QED BY <1>0, <1>2, <2>1 DEF ConsentInv, ConsentTypes, Labels, Threads
<1> HIDE DEF r
<1>5. KindInv' /\ AnsweredInv' /\ TypesWithConsent'
  BY <1>0, <1>1, <1>3 DEF ConsentInv, KindInv, AnsweredInv, Answered, TypesWithConsent, Asking
<1>6. DialogInv'
  <2>1. ASSUME NEW q \in Rows, ask'[q].by # None
        PROVE  /\ want[ask'[q].by].on = q /\ pc'[ask'[q].by] \in Asking
               /\ ask'[q].state # "none"
               /\ ask'[q].state \in {"once", "pair"} => <<ask'[q].by, q>> \in consented
    <3>1. q # r /\ ask'[q] = ask[q]
      BY <1>3, <2>1
    <3>2. ask[q].by \in Calls
      BY <2>1, <3>1 DEF ConsentInv, ConsentTypes
    <3>3. want[ask[q].by].on = q
      BY <2>1, <3>1 DEF ConsentInv, DialogInv
    <3>4. ask[q].by # c
      BY <3>1, <3>3 DEF r
    <3> QED BY <1>3, <2>1, <3>1, <3>2, <3>3, <3>4 DEF ConsentInv, DialogInv
  <2> QED BY <1>0, <2>1 DEF DialogInv
<1>7. GrantsInv'
  <2>1. Unstored' \subseteq Unstored
    BY <1>0, <1>1, <1>3 DEF Unstored
  <2> QED BY <1>0, <1>3, <2>1 DEF ConsentInv, GrantsInv
<1> QED BY <1>4, <1>5, <1>6, <1>7 DEF ConsentInv

\* One step per action of a call.
LEMMA CallKeeps ==
  ASSUME ConsentInv, NEW c \in Calls, Admit(c) \/ Ctl(c) \/ Exec(c) \/ ClientLeaves(c)
  PROVE  ConsentInv'
<1> USE NameAssumption DEF ConsentInv, ConsentTypes, KindInv, DialogInv, AnsweredInv,
      Answered, GrantsInv, Unstored, TypesWithConsent, Wants, Labels, Kinds, Threads, Asking,
      Goto, agtermVars
<1>1. CASE ReadBody(c)
  <2>1. CASE Goto(c, "decide") BY <1>1, <2>1 DEF ReadBody
  <2>2. CASE Goto(c, "leave") BY <1>1, <2>2 DEF ReadBody
  <2> QED BY <1>1, <2>1, <2>2 DEF ReadBody
<1>2. CASE Admit(c) BY <1>2 DEF Admit
<1>3. CASE Exec(c) BY <1>3 DEF Exec
<1>4. CASE leave(c) BY <1>4 DEF leave, NoWant
<1>6. CASE AwaitEnds(c)
  <2>1. /\ pc[c] = "await"
        /\ pc' = [pc EXCEPT ![c] = "cancelTimeout"] \/ pc' = [pc EXCEPT ![c] = "cancelGone"]
        /\ UNCHANGED <<want, mine, cand, drop, ask, agents, grants, lasting, consented>>
    BY <1>6 DEF AwaitEnds
  <2>2. /\ pc'[c] \in {"cancelTimeout", "cancelGone"} /\ pc' \in [Threads -> Labels]
        /\ \A d \in Calls \ {c} : pc'[d] = pc[d]
    BY <2>1
  <2>3. ConsentTypes' /\ KindInv' /\ AnsweredInv' /\ TypesWithConsent' BY <2>1, <2>2
  <2>4. DialogInv' BY <2>1, <2>2
  <2>5. GrantsInv' BY <2>1, <2>2
  <2> HIDE DEF ConsentTypes, KindInv, DialogInv, AnsweredInv, GrantsInv, TypesWithConsent
  <2> QED BY <2>3, <2>4, <2>5
<1>8. CASE refuseRow(c) BY <1>8 DEF refuseRow
<1>9. CASE afterAnswer(c) BY <1>9 DEF afterAnswer
<1>10. CASE Undialog(c) BY <1>10 DEF Undialog
<1>13. CASE OpenedCanceled(c) BY <1>13 DEF OpenedCanceled
<1>16. CASE CancelHook(c) BY <1>16 DEF CancelHook
<1>17. CASE openInSlot(c) BY <1>17 DEF openInSlot
<1>19. CASE ClientLeaves(c) BY <1>19 DEF ClientLeaves
<1>20. CASE Authorize(c) BY <1>20, AuthorizeKeeps
<1>21. CASE AwaitAnswer(c) BY <1>21, AwaitAnswerKeeps
<1>22. CASE AskOpen(c) BY <1>22, AskOpenKeeps
<1>23. CASE DriveLook(c) BY <1>23, DriveLookKeeps
<1>24. CASE DropGrant(c) BY <1>24, DropGrantKeeps
<1>25. CASE AddGrant(c) BY <1>25, AddGrantKeeps
<1>27. CASE Cancel(c) BY <1>27, CancelKeeps
<1>26. CASE outcome(c) BY <1>26 DEF outcome
<1> HIDE DEF ConsentInv, ConsentTypes, KindInv, DialogInv, AnsweredInv, Answered, GrantsInv,
             Unstored, TypesWithConsent, Wants
<1>28. ASSUME ConsentTypes', pc[c] \notin Asking \cup {"idle"},
              UNCHANGED <<want, ask, grants, lasting, consented>>,
              \A d \in Calls \ {c} : pc'[d] = pc[d],
              \/ pc'[c] \in Neutral
              \/ pc'[c] = "exec" /\ want[c].kind # "type"
              \/ pc'[c] = "ask" /\ want[c].kind = "type"
       PROVE  ConsentInv'
  BY <1>28, MovesOn
<1>t. /\ pc \in [Threads -> Labels] /\ mine \in [Calls -> Pages \cup {None}]
      /\ c \in Threads /\ ConsentTypes /\ KindInv
  BY DEF ConsentInv, ConsentTypes
<1> USE <1>t DEF Neutral
<1>5. CASE ConsentBegin(c)
  <2>1. /\ pc[c] = "consent" /\ want[c].kind = "type"
        /\ pc' = [pc EXCEPT ![c] = "leave"] \/ pc' = [pc EXCEPT ![c] = "ask"]
        /\ UNCHANGED <<want, mine, cand, drop, ask, agents, grants, lasting, consented>>
    BY <1>5 DEF ConsentBegin, KindInv
  <2>2. ConsentTypes'
    BY <2>1 DEF ConsentTypes
  <2> QED BY <1>28, <2>1, <2>2
<1>11. CASE register(c)
  <2>1. /\ pc[c] = "register"
        /\ pc' = [pc EXCEPT ![c] = "leave"] \/ pc' = [pc EXCEPT ![c] = "open"]
        /\ mine' \in [Calls -> Pages \cup {None}]
        /\ UNCHANGED <<want, cand, drop, ask, agents, grants, lasting, consented>>
    BY <1>11 DEF register
  <2>2. ConsentTypes'
    BY <2>1 DEF ConsentTypes
  <2> QED BY <1>28, <2>1, <2>2
<1>12. CASE OpenOverlay(c)
  <2>1. /\ pc[c] = "open"
        /\ \E label \in {"hook", "release", "opened"} : pc' = [pc EXCEPT ![c] = label]
        /\ UNCHANGED <<want, mine, cand, drop, ask, agents, grants, lasting, consented>>
    BY <1>12 DEF OpenOverlay
  <2>2. ConsentTypes'
    BY <2>1 DEF ConsentTypes
  <2> QED BY <1>28, <2>1, <2>2
<1>14. CASE bind(c)
  <2>1. /\ pc[c] = "bind"
        /\ \E label \in {"wait", "track", "release"} : pc' = [pc EXCEPT ![c] = label]
        /\ UNCHANGED <<want, mine, cand, drop, ask, agents, grants, lasting, consented>>
    BY <1>14 DEF bind
  <2>2. ConsentTypes'
    BY <2>1 DEF ConsentTypes
  <2> QED BY <1>28, <2>1, <2>2
<1>15. CASE track(c)
  <2>1. /\ pc[c] = "track"
        /\ UNCHANGED <<want, mine, cand, drop, ask, agents, grants, lasting, consented>>
    BY <1>15 DEF track
  <2>2. /\ pc' \in [Threads -> Labels]
        /\ pc'[c] \in {"release", "leave"}
        /\ \A d \in Calls \ {c} : pc'[d] = pc[d]
    <3>1. CASE closed BY <1>15, <3>1 DEF track
    <3>2. CASE ~closed BY <1>15, <3>2 DEF track
    <3> QED BY <3>1, <3>2
  <2>3. ConsentTypes'
    BY <2>1, <2>2 DEF ConsentTypes
  <2> QED BY <1>28, <2>1, <2>2, <2>3
<1>18. CASE Drive(c)
  <2>1. /\ pc[c] = "drive" /\ want[c].kind # "type"
        /\ \E label \in {"exec", "closeLook", "leave"} : pc' = [pc EXCEPT ![c] = label]
        /\ UNCHANGED <<want, mine, cand, drop, ask, agents, grants, lasting, consented>>
    BY <1>18 DEF Drive, KindInv
  <2>2. ConsentTypes'
    BY <2>1 DEF ConsentTypes
  <2> QED BY <1>28, <2>1, <2>2
<1> QED
  BY <1>1, <1>2, <1>3, <1>4, <1>5, <1>6, <1>8, <1>9, <1>10, <1>11, <1>12,
     <1>13, <1>14, <1>15, <1>16, <1>17, <1>18, <1>19, <1>20, <1>21, <1>22, <1>23, <1>24,
     <1>25, <1>26, <1>27
     DEF Ctl, Consent, RunPage, driveShimPage

\* The goroutine of a page, or a call that waits for one, asks nobody.
LEMMA ThreadKeeps ==
  ASSUME ConsentInv, NEW t \in Threads, WaitPage(t) \/ WaitPolls(t)
  PROVE  ConsentInv'
<1> USE NameAssumption DEF ConsentInv, ConsentTypes, KindInv, DialogInv, AnsweredInv,
      Answered, GrantsInv, Unstored, TypesWithConsent, Wants, Labels, Kinds, Threads, Asking,
      Goto, agtermVars
<1>1. CASE WaitEnds(t) BY <1>1 DEF WaitEnds
<1>2. CASE WaitPolls(t) BY <1>2 DEF WaitPolls
<1>3. CASE WaitDismisses(t) BY <1>3 DEF WaitDismisses
<1>6. CASE release(t) BY <1>6 DEF release
<1> HIDE DEF ConsentInv
<1>t. pc \in [Threads -> Labels] /\ ConsentTypes
  BY DEF ConsentInv
<1>4. CASE CloseLook(t) \/ closePageOverlay(t)
  <2>1. /\ pc[t] \in {"closeLook", "close"}
        /\ \E label \in {"close", "release", "outcome", "leave"} : pc' = [pc EXCEPT ![t] = label]
        /\ UNCHANGED <<want, mine, cand, drop, ask, agents, grants, lasting, consented>>
    BY <1>4 DEF CloseLook, closePageOverlay, Closed
  <2>2. ConsentTypes'
    BY <1>t, <2>1
  <2> QED BY <1>t, <2>1, <2>2, MovesOn DEF Neutral
<1>5. CASE closePageOverlay(t) BY <1>4, <1>5
<1> QED BY <1>1, <1>2, <1>3, <1>4, <1>5, <1>6 DEF WaitPage

\* The user answers: a row that he lets the host type into for good he lets every
\* call that runs.
LEMMA AnswerKeeps ==
  ASSUME ConsentInv, NEW r \in Rows, Answer(r)
  PROVE  ConsentInv'
<1>0. /\ ask[r].state = "open" /\ UNCHANGED <<pc, want, mine, cand, drop, agents, grants>>
  BY DEF Answer, callVars
<1>1. /\ ask' \in [Rows -> [state : {"none", "open", "once", "pair", "deny"},
                           by : Calls \cup {None}]]
      /\ \A q \in Rows \ {r} : ask'[q] = ask[q]
      /\ ask'[r].by = ask[r].by \/ ask'[r].by = None
      /\ ask'[r].state # "none" \/ ask'[r].by = None
      /\ lasting \subseteq lasting' /\ lasting' \subseteq lasting \cup {r}
      /\ consented \subseteq consented' /\ consented' \subseteq Calls \X Rows
      /\ \/ lasting' = lasting /\ ask'[r].state # "pair"
         \/ r \in lasting' /\ \A c \in Calls : pc[c] # "idle" => <<c, r>> \in consented'
      /\ ask'[r].state = "once" => <<ask'[r].by, r>> \in consented'
  BY NameAssumption DEF Answer, LetHost, NoAsk, ConsentInv, ConsentTypes
<1>2. ConsentTypes'
  BY <1>0, <1>1 DEF ConsentInv, ConsentTypes
<1>3. KindInv' /\ AnsweredInv' /\ TypesWithConsent'
  BY <1>0, <1>1 DEF ConsentInv, KindInv, AnsweredInv, Answered, TypesWithConsent
<1>4. DialogInv'
  <2>1. ASSUME ask'[r].by # None
        PROVE  /\ want[ask'[r].by].on = r /\ pc[ask'[r].by] \in Asking
               /\ ask'[r].by \in Calls
    BY <1>1, <2>1 DEF ConsentInv, ConsentTypes, DialogInv
  <2>2. ASSUME ask'[r].by # None, ask'[r].state = "pair"
        PROVE  <<ask'[r].by, r>> \in consented'
    BY <1>1, <2>1, <2>2 DEF Asking
  <2> QED BY <1>0, <1>1, <2>1, <2>2 DEF ConsentInv, DialogInv
<1>5. GrantsInv'
  <2>1. Unstored' \subseteq lasting'
    BY <1>0, <1>1 DEF ConsentInv, GrantsInv, Unstored
  <2> QED BY <1>0, <1>1, <2>1 DEF ConsentInv, GrantsInv
<1> QED BY <1>2, <1>3, <1>4, <1>5 DEF ConsentInv

\* The host, agterm and the user, next to the steps above.
LEMMA ConsentStep == ConsentInv /\ [Next]_vars => ConsentInv'
<1> SUFFICES ASSUME ConsentInv, [Next]_vars PROVE ConsentInv'
  OBVIOUS
<1>1. ASSUME NEW c \in Calls, Admit(c) \/ Ctl(c) \/ Exec(c) \/ ClientLeaves(c)
      PROVE  ConsentInv'
  BY <1>1, CallKeeps
<1>2. ASSUME NEW t \in Threads, WaitPage(t) \/ WaitPolls(t) PROVE ConsentInv'
  BY <1>2, ThreadKeeps
<1> USE NameAssumption DEF ConsentInv, ConsentTypes, KindInv, DialogInv, AnsweredInv,
      Answered, GrantsInv, Unstored, TypesWithConsent, Wants, Labels, Kinds, Threads, Asking, Goto, callVars, agtermVars
<1>3. ASSUME NEW p \in Pages, watchEnds(p) PROVE ConsentInv'
  BY <1>3 DEF watchEnds
<1>4. ASSUME NEW p \in Pages, NEW state \in {"submitted", "dismissed"},
             current(p, state) \/ servePost(p, state)
      PROVE  ConsentInv'
  BY <1>4 DEF current, servePost
<1>5. CASE Stop \/ shutdown \/ shutdownReturns \/ NewHost
  BY <1>5 DEF Stop, shutdown, shutdownReturns, NewHost
<1>6. ASSUME NEW r \in Rows, Answer(r) PROVE ConsentInv'
  BY <1>6, AnswerKeeps
<1>7. ASSUME NEW r \in Rows, AgentChanges(r) \/ RefusalEnds(r) PROVE ConsentInv'
  BY <1>7 DEF AgentChanges, RefusalEnds
<1>8. ASSUME NEW s \in Slots, UserCloses(s) PROVE ConsentInv'
  BY <1>8 DEF UserCloses
<1>9. CASE UNCHANGED vars
  BY <1>9 DEF vars
<1>10. ASSUME NEW r \in Rows, OpenOrchestrator(r) PROVE ConsentInv'
  BY <1>10 DEF OpenOrchestrator, LetHost
<1>11. CASE Unbind
  BY <1>11 DEF Unbind
<1> HIDE DEF ConsentInv
<1> QED BY <1>1, <1>2, <1>3, <1>4, <1>5, <1>6, <1>7, <1>8, <1>9, <1>10, <1>11 DEF Next

\* The invariant is inductive.
LEMMA ConsentAlways == Spec => []ConsentInv
<1>1. Init => ConsentInv BY ConsentInit
<1>2. ConsentInv /\ [Next]_vars => ConsentInv' BY ConsentStep
<1> QED BY <1>1, <1>2, PTL DEF Spec

\* A call types only into a row that the user has allowed it, by a click for this
\* very call or by a grant that stood while this call was decided; another call
\* may have dropped the grant since. For any number of calls, rows, pages and
\* hosts that restart.
THEOREM TypingIsAllowed == Spec => []TypesWithConsent
<1>1. ConsentInv => TypesWithConsent BY DEF ConsentInv
<1> QED BY <1>1, ConsentAlways, PTL

\* An open dialog that belongs to a call is read or canceled by that call.
THEOREM DialogIsRead == Spec => []DialogHasReader
<1>1. ConsentInv => DialogHasReader
  BY DEF ConsentInv, DialogInv, DialogHasReader, Asking
<1> QED BY <1>1, ConsentAlways, PTL
-----------------------------------------------------------------------------
(* The slots of the host, and its shutdown.  What is counted is finite at   *)
(* any time, whatever the set of calls and pages, since each has begun.    *)

Busy(S) == {t \in S : pc[t] # "idle"}

\* What shutdown waits for, and what it has seen when it returns.
StopInv ==
  /\ shut # "no" => closed
  /\ drained # "none" => closed
  /\ drained = "closed" => running = 0
  /\ shut = "done" => running = 0

CountInv ==
  /\ calls \in Int /\ running \in Int
  /\ IsFiniteSet(Busy(Calls)) /\ calls = Cardinality(Busy(Calls))
  /\ IsFiniteSet(Busy(Threads)) /\ running = Cardinality(Busy(Threads))

\* A step of a thread that is counted before and after.
Moves(t) ==
  /\ pc[t] # "idle"
  /\ \E label \in Labels \ {"idle"} : pc' = [pc EXCEPT ![t] = label]

\* The user, and the agents of a row.
Environment(r) ==
  Answer(r) \/ OpenOrchestrator(r) \/ AgentChanges(r) \/ RefusalEnds(r)

Quiet ==
  /\ UNCHANGED pc \/ \E t \in Threads : Moves(t)
  /\ UNCHANGED <<calls, running, closed, drained, shut>>

\* The steps of a call between its Admit and its leave.
LEMMA QuietCall ==
  ASSUME ConsentTypes, NEW c \in Calls, Ctl(c) \/ Exec(c) \/ ClientLeaves(c), ~leave(c), ~track(c)
  PROVE  Quiet
<1>0. c \in Threads
  BY DEF Threads
<1> USE <1>0 DEF Quiet, Moves, Goto, Labels, hostVars
<1>1. CASE ReadBody(c) BY <1>1 DEF ReadBody
<1>2. CASE Authorize(c)
  <2>1. \E label \in Labels \ {"idle"} : pc' = [pc EXCEPT ![c] = label]
    BY <1>2, DecisionTypes, DecidedLabels DEF Authorize
  <2> QED BY <1>2, <2>1 DEF Authorize
<1>3. CASE Exec(c) BY <1>3 DEF Exec
<1>4. CASE ConsentBegin(c) BY <1>4 DEF ConsentBegin
<1>5. CASE AskOpen(c) BY <1>5 DEF AskOpen
<1>6. CASE AwaitAnswer(c) BY <1>6 DEF AwaitAnswer
<1>7. CASE AwaitEnds(c) BY <1>7 DEF AwaitEnds
<1>8. CASE Cancel(c) BY <1>8 DEF Cancel
<1>9. CASE refuseRow(c) BY <1>9 DEF refuseRow
<1>10. CASE afterAnswer(c) BY <1>10 DEF afterAnswer
<1>11. CASE Undialog(c) BY <1>11 DEF Undialog
<1>12. CASE register(c) BY <1>12 DEF register
<1>13. CASE OpenOverlay(c) BY <1>13 DEF OpenOverlay
<1>14. CASE OpenedCanceled(c) BY <1>14 DEF OpenedCanceled
<1>15. CASE bind(c) BY <1>15 DEF bind
<1>16. CASE CancelHook(c) BY <1>16 DEF CancelHook
<1>17. CASE openInSlot(c) BY <1>17 DEF openInSlot
<1>18. CASE DriveLook(c) BY <1>18 DEF DriveLook
<1>19. CASE Drive(c) BY <1>19 DEF Drive
<1>20. CASE ClientLeaves(c) BY <1>20 DEF ClientLeaves
<1>21. CASE DropGrant(c)
  <2>1. \E label \in Labels \ {"idle"} : pc' = [pc EXCEPT ![c] = label]
    BY <1>21, DecidedLabels DEF DropGrant, ConsentTypes
  <2> QED BY <1>21, <2>1 DEF DropGrant
<1>22. CASE AddGrant(c) BY <1>22 DEF AddGrant
<1>23. CASE outcome(c) BY <1>23 DEF outcome
<1> HIDE DEF Quiet
<1> QED
  BY <1>1, <1>2, <1>3, <1>4, <1>5, <1>6, <1>7, <1>8, <1>9, <1>10, <1>11, <1>12,
     <1>13, <1>14, <1>15, <1>16, <1>17, <1>18, <1>19, <1>20, <1>21, <1>22, <1>23
     DEF Ctl, Consent, RunPage, driveShimPage

\* The steps that wait for a page, and those of agterm, the user and the pages.
LEMMA QuietRest ==
  ASSUME \/ \E t \in Threads : WaitPage(t) \/ WaitPolls(t)
         \/ \E p \in Pages, state \in {"submitted", "dismissed"} :
              current(p, state) \/ servePost(p, state)
         \/ Stop
         \/ \E r \in Rows : Environment(r)
         \/ Unbind
         \/ \E s \in Slots : UserCloses(s)
         \/ UNCHANGED vars
  PROVE  Quiet
<1> USE DEF Quiet, Moves, Goto, Labels, hostVars, callVars
<1>1. ASSUME NEW t \in Threads, WaitPage(t) \/ WaitPolls(t) PROVE Quiet
  <2>1. CASE WaitEnds(t) BY <2>1 DEF WaitEnds
  <2>2. CASE WaitPolls(t) BY <2>2 DEF WaitPolls
  <2>3. CASE WaitDismisses(t) BY <2>3 DEF WaitDismisses
  <2>4. CASE CloseLook(t) BY <2>4 DEF CloseLook, Closed
  <2>5. CASE closePageOverlay(t) BY <2>5 DEF closePageOverlay, Closed
  <2>6. CASE release(t) BY <2>6 DEF release
  <2> HIDE DEF Quiet
  <2> QED BY <1>1, <2>1, <2>2, <2>3, <2>4, <2>5, <2>6 DEF WaitPage
<1>2. ASSUME NEW p \in Pages, NEW state \in {"submitted", "dismissed"},
             current(p, state) \/ servePost(p, state)
      PROVE  Quiet
  BY <1>2 DEF current, servePost
<1>3. CASE Stop \/ Unbind \/ UNCHANGED vars
  BY <1>3 DEF Stop, Unbind, vars
<1>4. ASSUME NEW r \in Rows, Environment(r) PROVE Quiet
  BY <1>4 DEF Environment, Answer, OpenOrchestrator, AgentChanges,
              RefusalEnds
<1>5. ASSUME NEW s \in Slots, UserCloses(s) PROVE Quiet
  BY <1>5 DEF UserCloses
<1> HIDE DEF Quiet
<1> QED BY <1>1, <1>2, <1>3, <1>4, <1>5

\* Every step is quiet, or one of those that count.
LEMMA CountingSteps ==
  ASSUME ConsentTypes, [Next]_vars
  PROVE  \/ Quiet
         \/ \E c \in Calls : Admit(c) \/ leave(c) \/ track(c)
         \/ \E p \in Pages : watchEnds(p)
         \/ shutdown \/ shutdownReturns \/ NewHost
<1>1. ASSUME NEW c \in Calls, Admit(c) \/ Ctl(c) \/ Exec(c) \/ ClientLeaves(c)
      PROVE  Quiet \/ Admit(c) \/ leave(c) \/ track(c)
  BY <1>1, QuietCall
<1> QED BY <1>1, QuietRest DEF Next, Environment

\* The labels at which the goroutine of a page watches it.
Watching == {"wait", "dismiss", "closeLook", "close", "release"}

\* The labels between register and release, of a call that opens a page.
Opening == Watching \cup {"open", "opened", "bind", "track", "hook", "outcome"}

HoldsPage(c) == pc[c] \in Opening /\ want[c].kind = "page"

\* Who may be told what of a page.
Tellings == {"post", "wait", "drive"} \X {"submitted", "dismissed"}

PageTypes ==
  /\ page \in [Pages -> [state : {"open", "submitted", "dismissed"}, bound : BOOLEAN,
                         slot : Slots \cup {None}, served : BOOLEAN]]
  /\ shows \in [Slots -> Pages \cup {None}]
  /\ posts \subseteq Pages \X {"submitted", "dismissed"}
  /\ told \in [Pages -> SUBSET Tellings]

\* A call that waits for a page at these labels has opened it.
OpeningInv ==
  \A c \in Calls :
    pc[c] \in (Opening \cup {"register"}) \ {"closeLook", "close"} => want[c].kind = "page"

\* A page that is served has one thread that releases it: the call that has
\* opened it, until that call hands it over to the page's own goroutine.
HolderInv ==
  /\ \A p \in Pages : pc[p] \in Watching \cup {"idle", "finish"}
  /\ \A p \in Pages : pc[p] \in Watching => page[p].served
  /\ \A c \in Calls : HoldsPage(c) =>
       mine[c] \in Pages /\ page[mine[c]].served /\ pc[mine[c]] = "idle"
  /\ \A c, d \in Calls : HoldsPage(c) /\ HoldsPage(d) /\ mine[c] = mine[d] => c = d
  /\ \A p \in Pages : page[p].served =>
       pc[p] \in Watching \/ \E c \in Calls : HoldsPage(c) /\ mine[c] = p

\* The labels at which a call that waits for its page has seen it end.
Reported == {"closeLook", "close", "outcome"}

EndedInv ==
  \A c \in Calls : pc[c] \in Reported /\ HoldsPage(c) => ~isOpen(mine[c])

\* Adding a thread to those that are counted, and taking one away.
LEMMA BusyChanges ==
  ASSUME NEW S, IsFiniteSet(Busy(S)), NEW t \in S
  PROVE  /\ pc[t] = "idle" /\ Busy(S)' = Busy(S) \cup {t} =>
              IsFiniteSet(Busy(S)') /\ Cardinality(Busy(S)') = Cardinality(Busy(S)) + 1
         /\ pc[t] # "idle" /\ Busy(S)' = Busy(S) \ {t} =>
              IsFiniteSet(Busy(S)') /\ Cardinality(Busy(S)') = Cardinality(Busy(S)) - 1
<1>1. t \in Busy(S) <=> pc[t] # "idle"
  BY DEF Busy
<1> QED BY <1>1, FS_AddElement, FS_RemoveElement

\* Once nothing is counted nothing runs.
LEMMA NothingBusy ==
  ASSUME CountInv, running = 0 PROVE \A t \in Threads : pc[t] = "idle"
<1>1. Busy(Threads) = {}
  BY FS_EmptySet DEF CountInv
<1> QED BY <1>1 DEF Busy

\* The counters follow every way into a call or a goroutine and out of it.
LEMMA CountStep ==
  ASSUME ConsentInv, OpeningInv, HolderInv, CountInv, StopInv, [Next]_vars
  PROVE  CountInv' /\ StopInv'
<1> DEFINE C == Busy(Calls)
           T == Busy(Threads)
<1>t. /\ pc \in [Threads -> Labels] /\ mine \in [Calls -> Pages \cup {None}]
      /\ Calls \cap Pages = {} /\ Calls \subseteq Threads /\ Pages \subseteq Threads
  BY NameAssumption DEF ConsentInv, ConsentTypes, Threads
<1>f. /\ IsFiniteSet(C) /\ IsFiniteSet(T) /\ Cardinality(C) \in Nat /\ Cardinality(T) \in Nat
      /\ calls = Cardinality(C) /\ running = Cardinality(T)
  BY FS_CardinalityType DEF CountInv
<1>1. CASE Quiet
  <2>1. C' = C /\ T' = T
    BY <1>t, <1>1 DEF Quiet, Moves, Busy
  <2> QED BY <2>1, <1>1, Zenon DEF Quiet, CountInv, StopInv
<1>2. ASSUME NEW c \in Calls, Admit(c) PROVE CountInv' /\ StopInv'
  <2>1. /\ pc[c] = "idle" /\ pc' = [pc EXCEPT ![c] = "body"] /\ ~closed
        /\ calls' = calls + 1 /\ running' = running + 1 /\ UNCHANGED <<closed, drained, shut>>
    BY <1>2 DEF Admit, Goto
  <2>2. C' = C \cup {c} /\ T' = T \cup {c}
    BY <1>t, <2>1 DEF Busy
  <2>3. CountInv'
    BY <1>t, <1>f, <2>1, <2>2, BusyChanges DEF CountInv
  <2> QED BY <2>1, <2>3 DEF StopInv
<1>3. ASSUME NEW t \in Threads, pc[t] # "idle", pc' = [pc EXCEPT ![t] = "idle"], Finish,
             calls' = IF t \in Calls THEN calls - 1 ELSE calls, UNCHANGED <<closed, shut>>
      PROVE  CountInv' /\ StopInv'
  <2>1. T' = T \ {t} /\ C' = (IF t \in Calls THEN C \ {t} ELSE C)
    BY <1>t, <1>3 DEF Busy
  <2>2. running' = running - 1
    BY <1>3 DEF Finish
  <2>3. CountInv'
    <3>1. IsFiniteSet(T') /\ Cardinality(T') = Cardinality(T) - 1
      BY <1>f, <1>3, <2>1, BusyChanges
    <3>2. CASE t \in Calls
      <4>1. IsFiniteSet(C') /\ Cardinality(C') = Cardinality(C) - 1
        BY <1>f, <1>3, <2>1, <3>2, BusyChanges
      <4> QED BY <1>f, <1>3, <2>2, <3>1, <3>2, <4>1 DEF CountInv
    <3>3. CASE t \notin Calls
      <4>1. C' = C /\ calls' = calls
        BY <1>3, <2>1, <3>3
      <4> QED BY <1>f, <2>2, <3>1, <4>1 DEF CountInv
    <3> QED BY <3>2, <3>3
  <2>4. running # 0
    BY <1>3, NothingBusy
  <2> QED BY <1>3, <1>f, <2>2, <2>3, <2>4 DEF Finish, StopInv
<1>4. ASSUME NEW c \in Calls, track(c) PROVE CountInv' /\ StopInv'
  <2>1. pc[c] = "track" /\ mine[c] \in Pages /\ pc[mine[c]] = "idle"
    BY <1>4 DEF track, OpeningInv, HolderInv, HoldsPage, Opening
  <2>2. UNCHANGED <<calls, closed, drained, shut>>
    BY <1>4 DEF track
  <2>3. CASE closed
    <3>1. pc' = [pc EXCEPT ![c] = "release"] /\ UNCHANGED running
      BY <1>4, <2>3 DEF track, Goto
    <3>2. C' = C /\ T' = T
      BY <1>t, <2>1, <3>1 DEF Busy
    <3> QED BY <2>2, <3>1, <3>2, Zenon DEF CountInv, StopInv
  <2>4. CASE ~closed
    <3>1. /\ pc' = [pc EXCEPT ![c] = "leave", ![mine[c]] = "wait"]
          /\ running' = running + 1
      BY <1>4, <2>4 DEF track
    <3>2. C' = C /\ T' = T \cup {mine[c]}
      BY <1>t, <2>1, <3>1 DEF Busy
    <3>3. IsFiniteSet(T') /\ Cardinality(T') = Cardinality(T) + 1
      BY <1>t, <1>f, <2>1, <3>2, BusyChanges
    <3>4. CountInv'
      BY <1>f, <2>2, <3>1, <3>2, <3>3 DEF CountInv
    <3> QED BY <2>2, <2>4, <3>4 DEF StopInv
  <2> QED BY <2>3, <2>4
<1>5. CASE shutdown
  <2>1. UNCHANGED <<pc, calls, running>>
    BY <1>5 DEF shutdown, callVars
  <2>2. CountInv'
    BY <2>1, Zenon DEF CountInv, Busy
  <2> QED BY <1>5, <2>1, <2>2 DEF shutdown, StopInv
<1>6. CASE shutdownReturns
  <2>1. UNCHANGED <<pc, calls, running>>
    BY <1>6 DEF shutdownReturns, callVars
  <2>2. CountInv'
    BY <2>1, Zenon DEF CountInv, Busy
  <2> QED BY <1>6, <2>1, <2>2 DEF shutdownReturns, StopInv
<1>7. CASE NewHost
  <2>1. /\ shut = "done" /\ UNCHANGED pc /\ calls' = 0 /\ running' = 0
        /\ drained' = "none" /\ shut' = "no"
    BY <1>7 DEF NewHost, callVars
  <2>2. \A t \in Threads : pc[t] = "idle"
    BY <2>1, NothingBusy DEF StopInv
  <2>3. C' = {} /\ T' = {}
    BY <1>t, <2>1, <2>2 DEF Busy
  <2> QED BY <2>1, <2>3, FS_EmptySet DEF CountInv, StopInv
<1>8. ASSUME NEW c \in Calls, leave(c) PROVE CountInv' /\ StopInv'
  BY <1>t, <1>3, <1>8 DEF leave, Goto
<1>9. ASSUME NEW p \in Pages, watchEnds(p) PROVE CountInv' /\ StopInv'
  BY <1>t, <1>3, <1>9 DEF watchEnds, Goto
<1> QED BY <1>1, <1>2, <1>4, <1>5, <1>6, <1>7, <1>8, <1>9, CountingSteps DEF ConsentInv

PageInv == PageTypes /\ OpeningInv /\ HolderInv

\* Whoever goes to such a label has seen his page end.
Reports ==
  \A c \in Calls : pc'[c] \in Reported /\ want'[c].kind = "page" =>
    HoldsPage(c) /\ (pc[c] \in Reported \/ ~isOpen(mine[c])) /\ mine'[c] = mine[c]

\* A step after which the same threads hold the same pages.
SameHolders ==
  /\ OpeningInv' /\ Reports
  /\ \A c \in Calls : (HoldsPage(c)' <=> HoldsPage(c)) /\ (HoldsPage(c) => mine'[c] = mine[c])
  /\ \A p \in Pages : /\ page'[p].served = page[p].served
                      /\ \/ pc'[p] = pc[p]
                         \/ {pc[p], pc'[p]} \subseteq Watching
                         \/ pc[p] = "finish" /\ pc'[p] = "idle"

LEMMA SameHoldersKeep ==
  ASSUME HolderInv, SameHolders PROVE HolderInv'
<1>1. ASSUME NEW p \in Pages PROVE pc'[p] \in Watching \cup {"idle", "finish"}
  BY DEF HolderInv, SameHolders
<1>2. ASSUME NEW p \in Pages, pc'[p] \in Watching PROVE page'[p].served
  BY <1>2 DEF HolderInv, SameHolders, Watching
<1>3. ASSUME NEW c \in Calls, HoldsPage(c)'
      PROVE  /\ HoldsPage(c) /\ mine'[c] = mine[c] /\ mine'[c] \in Pages
             /\ page'[mine'[c]].served /\ pc'[mine'[c]] = "idle"
  BY <1>3 DEF HolderInv, SameHolders, Watching
<1>4. ASSUME NEW c \in Calls, NEW d \in Calls, HoldsPage(c)', HoldsPage(d)', mine'[c] = mine'[d]
      PROVE  c = d
  BY <1>3, <1>4 DEF HolderInv
<1>5. ASSUME NEW p \in Pages, page'[p].served, pc'[p] \notin Watching
      PROVE  \E c \in Calls : HoldsPage(c)' /\ mine'[c] = p
  <2>1. page[p].served /\ pc[p] \notin Watching
    BY <1>5 DEF SameHolders, HolderInv, Watching
  <2>2. PICK c \in Calls : HoldsPage(c) /\ mine[c] = p
    BY <2>1 DEF HolderInv
  <2> QED BY <2>2 DEF SameHolders
<1> QED BY <1>1, <1>2, <1>3, <1>4, <1>5 DEF HolderInv

\* The steps of a call that neither register a page nor let go of one.
LEMMA CallSameHolders ==
  ASSUME ConsentInv, PageInv, NEW c \in Calls, Admit(c) \/ Ctl(c) \/ Exec(c) \/ ClientLeaves(c),
         ~register(c), ~track(c)
  PROVE  SameHolders
<1>t. /\ pc \in [Threads -> Labels] /\ mine \in [Calls -> Pages \cup {None}]
      /\ want \in [Calls -> Wants] /\ c \notin Pages /\ c \in Threads
      /\ Calls \cap Pages = {}
  BY NameAssumption DEF ConsentInv, ConsentTypes, Threads
<1>p. page \in [Pages -> [state : {"open", "submitted", "dismissed"}, bound : BOOLEAN,
                         slot : Slots \cup {None}, served : BOOLEAN]]
  BY DEF PageInv, PageTypes
<1> USE <1>t DEF SameHolders, OpeningInv, HoldsPage, Opening, Watching, Goto, Threads, pageVars,
                 Reports, Reported
<1>0. OpeningInv
  BY DEF PageInv
<1>1. CASE ReadBody(c) BY <1>0, <1>1 DEF ReadBody
<1>2. CASE Admit(c) BY <1>0, <1>2 DEF Admit
<1>3. CASE Exec(c) BY <1>0, <1>3 DEF Exec
<1>4. CASE leave(c) BY <1>0, <1>4 DEF leave
<1>5. CASE ConsentBegin(c) BY <1>0, <1>5 DEF ConsentBegin
<1>6. CASE AwaitEnds(c) BY <1>0, <1>6 DEF AwaitEnds
<1>7. CASE Cancel(c) BY <1>0, <1>7 DEF Cancel
<1>8. CASE refuseRow(c) BY <1>0, <1>8 DEF refuseRow
<1>9. CASE afterAnswer(c) BY <1>0, <1>9 DEF afterAnswer
<1>10. CASE Undialog(c) BY <1>0, <1>10 DEF Undialog
<1>11. CASE AskOpen(c) BY <1>0, <1>11 DEF AskOpen
<1>12. CASE OpenOverlay(c) BY <1>0, <1>12 DEF OpenOverlay
<1>13. CASE OpenedCanceled(c) BY <1>0, <1>13 DEF OpenedCanceled
<1>14. CASE bind(c) BY <1>0, <1>p, <1>14 DEF bind
<1>15. CASE AwaitAnswer(c) BY <1>0, <1>15 DEF AwaitAnswer
<1>16. CASE CancelHook(c) BY <1>0, <1>16 DEF CancelHook
<1>17. CASE openInSlot(c) BY <1>0, <1>17 DEF openInSlot
<1>18. CASE Drive(c)
  <2>1. /\ pc[c] = "drive" /\ UNCHANGED <<want, mine>>
        /\ Goto(c, "exec") \/ Goto(c, "closeLook") \/ Goto(c, "leave")
        /\ \A p \in Pages : page'[p].served = page[p].served
    BY <1>p, <1>18 DEF Drive, Tell, Transition
  <2>2. want[c].kind \in {"submit", "close"}
    BY <2>1 DEF ConsentInv, KindInv
  <2> QED BY <1>0, <2>1, <2>2
<1>19. CASE DriveLook(c)
  <2>1. /\ pc[c] = "drive" /\ UNCHANGED <<pc, want>>
        /\ \A d \in Calls \ {c} : mine'[d] = mine[d]
        /\ \A p \in Pages : page'[p].served = page[p].served
    BY <1>p, <1>19 DEF DriveLook, Transition
  <2> QED BY <1>0, <2>1
<1>20. CASE Authorize(c) \/ DropGrant(c)
  <2>1. PICK w \in Wants, label \in {"leave", "exec", "consent", "register", "slot", "drop"} :
          /\ want' = [want EXCEPT ![c] = w] /\ pc' = [pc EXCEPT ![c] = label]
          /\ label = "register" => w.kind = "page"
    <3>1. CASE Authorize(c)
      <4>1. PICK w \in Decisions, unlisted \in SUBSET (grants \ agents) :
              want' = [want EXCEPT ![c] = w]
              /\ pc' = [pc EXCEPT ![c] = IF unlisted = {} THEN Decided(w) ELSE "drop"]
        BY <3>1, Zenon DEF Authorize
      <4>2. w \in Wants
        BY DecisionTypes DEF ConsentInv
      <4> QED BY <4>1, <4>2, DecidedLabels
    <3>2. CASE DropGrant(c)
      <4>1. want' = [want EXCEPT ![c] = want[c]]
        BY <3>2 DEF DropGrant
      <4>2. \/ pc' = [pc EXCEPT ![c] = Decided(want[c])]
            \/ pc' = [pc EXCEPT ![c] = "drop"]
        BY <3>2 DEF DropGrant
      <4> QED BY <4>1, <4>2, DecidedLabels
    <3> QED BY <1>20, <3>1, <3>2
  <2>2. pc[c] \in {"decide", "drop"} /\ UNCHANGED <<mine, page>>
    BY <1>20 DEF Authorize, DropGrant
  <2>3. /\ pc'[c] = label /\ want'[c] = w
        /\ \A t \in Threads \ {c} : pc'[t] = pc[t]
        /\ \A d \in Calls \ {c} : want'[d] = want[d]
    BY <2>1
  <2> QED BY <1>0, <2>1, <2>2, <2>3
<1>22. CASE AddGrant(c) BY <1>0, <1>22 DEF AddGrant
<1>23. CASE outcome(c)
  <2>1. want[c].kind = "page"
    BY <1>0, <1>23 DEF outcome
  <2> QED BY <1>0, <1>23, <2>1 DEF outcome
<1>21. CASE ClientLeaves(c) BY <1>0, <1>21 DEF ClientLeaves
<1> HIDE DEF SameHolders
<1> QED
  BY <1>1, <1>2, <1>3, <1>4, <1>5, <1>6, <1>7, <1>8, <1>9, <1>10, <1>11, <1>12,
     <1>13, <1>14, <1>15, <1>16, <1>17, <1>18, <1>19, <1>20, <1>21, <1>22, <1>23
     DEF Ctl, Consent, RunPage, driveShimPage

\* register picks a page that nothing refers to.
LEMMA RegisterHolds ==
  ASSUME ConsentInv, PageInv, NEW c \in Calls, register(c)
  PROVE  OpeningInv' /\ HolderInv' /\ Reports
<1>t. /\ pc \in [Threads -> Labels] /\ mine \in [Calls -> Pages \cup {None}]
      /\ c \in Threads /\ Calls \cap Pages = {} /\ OpeningInv /\ HolderInv
      /\ page \in [Pages -> [state : {"open", "submitted", "dismissed"}, bound : BOOLEAN,
                             slot : Slots \cup {None}, served : BOOLEAN]]
  BY NameAssumption DEF ConsentInv, ConsentTypes, Threads, PageInv, PageTypes
<1>0. pc[c] = "register" /\ want[c].kind = "page" /\ ~HoldsPage(c) /\ UNCHANGED want
  BY <1>t DEF register, OpeningInv, Opening, Watching, HoldsPage
<1>1. CASE Goto(c, "leave") /\ UNCHANGED <<mine, page>>
  <2>1. SameHolders
    BY <1>t, <1>0, <1>1
       DEF SameHolders, OpeningInv, HoldsPage, Opening, Watching, Goto, Threads, Reports,
           Reported
  <2> QED BY <2>1, <1>t, SameHoldersKeep DEF SameHolders
<1>2. ASSUME NEW p \in Pages, Unused(p), mine' = [mine EXCEPT ![c] = p], Goto(c, "open"),
             page' = [page EXCEPT ![p] = [state |-> "open", bound |-> FALSE,
                                          slot |-> want[c].on, served |-> TRUE]]
      PROVE  OpeningInv' /\ HolderInv' /\ Reports
  <2>1. /\ pc'[c] = "open" /\ \A t \in Threads \ {c} : pc'[t] = pc[t]
        /\ mine'[c] = p /\ \A d \in Calls \ {c} : mine'[d] = mine[d]
        /\ page'[p].served /\ \A q \in Pages \ {p} : page'[q] = page[q]
    BY <1>t, <1>2 DEF Goto
  <2>2. HoldsPage(c)' /\ \A d \in Calls \ {c} : HoldsPage(d)' <=> HoldsPage(d)
    BY <1>0, <2>1 DEF HoldsPage, Opening, Threads
  <2>3. pc[p] = "idle" /\ ~page[p].served /\ \A d \in Calls : mine[d] # p
    BY <1>2 DEF Unused
  <2>4. \A q \in Pages : pc'[q] = pc[q]
    BY <1>t, <2>1 DEF Threads
  <2>5. OpeningInv'
    BY <1>t, <1>0, <2>1 DEF OpeningInv, Threads, Opening
  <2>6. \A q \in Pages : pc'[q] \in Watching => page'[q].served
    BY <1>t, <2>1, <2>3, <2>4 DEF HolderInv, Watching
  <2>7. ASSUME NEW d \in Calls, HoldsPage(d)'
        PROVE  mine'[d] \in Pages /\ page'[mine'[d]].served /\ pc'[mine'[d]] = "idle"
    BY <1>t, <2>1, <2>2, <2>3, <2>4, <2>7 DEF HolderInv
  <2>8. \A d, e \in Calls : HoldsPage(d)' /\ HoldsPage(e)' /\ mine'[d] = mine'[e] => d = e
    BY <1>t, <2>1, <2>2, <2>3 DEF HolderInv
  <2>9. ASSUME NEW q \in Pages, page'[q].served, pc'[q] \notin Watching
        PROVE  \E d \in Calls : HoldsPage(d)' /\ mine'[d] = q
    <3>1. CASE q = p BY <2>1, <2>2, <3>1
    <3>2. CASE q # p
      <4>1. PICK d \in Calls : HoldsPage(d) /\ mine[d] = q
        BY <1>t, <2>1, <2>4, <2>9, <3>2 DEF HolderInv
      <4> QED BY <1>0, <2>1, <2>2, <4>1
    <3> QED BY <3>1, <3>2
  <2>10. \A q \in Pages : pc'[q] \in Watching \cup {"idle", "finish"}
    BY <1>t, <2>4 DEF HolderInv
  <2>11. Reports
    BY <1>0, <2>1 DEF Reports, Reported, HoldsPage, Opening, Watching, Threads
  <2> QED BY <2>5, <2>6, <2>7, <2>8, <2>9, <2>10, <2>11 DEF HolderInv
<1> QED BY <1>1, <1>2 DEF register

\* track hands the page over, unless the host stops.
LEMMA TrackHolds ==
  ASSUME ConsentInv, PageInv, NEW c \in Calls, track(c)
  PROVE  OpeningInv' /\ HolderInv' /\ Reports
<1>t. /\ pc \in [Threads -> Labels] /\ mine \in [Calls -> Pages \cup {None}]
      /\ c \in Threads /\ Calls \cap Pages = {} /\ OpeningInv /\ HolderInv
  BY NameAssumption DEF ConsentInv, ConsentTypes, Threads, PageInv
<1>0. /\ pc[c] = "track" /\ HoldsPage(c) /\ UNCHANGED <<want, mine, page>>
  BY <1>t DEF track, OpeningInv, Opening, Watching, HoldsPage, pageVars
<1>1. CASE closed
  <2>1. Goto(c, "release")
    BY <1>1 DEF track
  <2>2. SameHolders
    BY <1>t, <1>0, <2>1
       DEF SameHolders, OpeningInv, HoldsPage, Opening, Watching, Goto, Threads, Reports,
           Reported
  <2> QED BY <2>2, <1>t, SameHoldersKeep DEF SameHolders
<1>2. CASE ~closed
  <2> DEFINE p == mine[c]
  <2>p. p \in Pages /\ pc[p] = "idle" /\ page[p].served
    BY <1>t, <1>0 DEF HolderInv
  <2>1. /\ pc' = [pc EXCEPT ![c] = "leave", ![p] = "wait"]
    BY <1>2 DEF track
  <2>2. /\ pc'[c] = "leave" /\ pc'[p] = "wait"
        /\ \A t \in Threads \ {c, p} : pc'[t] = pc[t]
    BY <1>t, <2>p, <2>1 DEF Threads
  <2> HIDE DEF p
  <2>3. ~HoldsPage(c)' /\ \A d \in Calls \ {c} : HoldsPage(d)' <=> HoldsPage(d)
    BY <1>t, <1>0, <2>p, <2>2 DEF HoldsPage, Opening, Watching, Threads
  <2>4. \A d \in Calls \ {c} : HoldsPage(d) => mine[d] # p
    BY <1>t, <1>0 DEF HolderInv, p
  <2>5. OpeningInv'
    BY <1>t, <1>0, <2>p, <2>2 DEF OpeningInv, Threads, Opening, Watching
  <2>6. \A q \in Pages : /\ pc'[q] \in Watching \cup {"idle", "finish"}
                         /\ pc'[q] \in Watching => page'[q].served
    BY <1>t, <1>0, <2>p, <2>2 DEF HolderInv, Watching, Threads
  <2>7. ASSUME NEW d \in Calls, HoldsPage(d)'
        PROVE  mine'[d] \in Pages /\ page'[mine'[d]].served /\ pc'[mine'[d]] = "idle"
    BY <1>t, <1>0, <2>2, <2>3, <2>4, <2>7 DEF HolderInv, Threads
  <2>8. \A d, e \in Calls : HoldsPage(d)' /\ HoldsPage(e)' /\ mine'[d] = mine'[e] => d = e
    BY <1>t, <1>0, <2>3 DEF HolderInv
  <2>9. ASSUME NEW q \in Pages, page'[q].served, pc'[q] \notin Watching
        PROVE  \E d \in Calls : HoldsPage(d)' /\ mine'[d] = q
    <3>1. q # p
      BY <2>2, <2>9 DEF Watching
    <3>2. pc[q] \notin Watching /\ page[q].served
      BY <1>t, <1>0, <2>2, <2>9, <3>1 DEF Threads
    <3>3. PICK d \in Calls : HoldsPage(d) /\ mine[d] = q
      BY <1>t, <3>2 DEF HolderInv
    <3> QED BY <1>0, <2>3, <3>1, <3>3 DEF p
  <2>10. Reports
    BY <1>t, <1>0, <2>p, <2>2 DEF Reports, Reported, HoldsPage, Opening, Watching, Threads
  <2> QED BY <2>5, <2>6, <2>7, <2>8, <2>9, <2>10 DEF HolderInv
<1> QED BY <1>1, <1>2

\* The thread that holds a page is the one that releases it.
LEMMA ReleaseHolds ==
  ASSUME ConsentInv, PageInv, NEW t \in Threads, release(t)
  PROVE  OpeningInv' /\ HolderInv' /\ Reports
<1> DEFINE p == Page(t)
<1>t. /\ pc \in [Threads -> Labels] /\ mine \in [Calls -> Pages \cup {None}]
      /\ Calls \cap Pages = {} /\ OpeningInv /\ HolderInv
      /\ page \in [Pages -> [state : {"open", "submitted", "dismissed"}, bound : BOOLEAN,
                             slot : Slots \cup {None}, served : BOOLEAN]]
  BY NameAssumption DEF ConsentInv, ConsentTypes, Threads, PageInv, PageTypes
<1>0. /\ pc[t] = "release" /\ UNCHANGED <<want, mine>>
      /\ pc' = [pc EXCEPT ![t] = IF t \in Calls THEN "leave" ELSE "finish"]
      /\ page' = [q \in Pages |-> IF q \in {p} THEN [page[q] EXCEPT !.served = FALSE] ELSE page[q]]
  BY DEF release, Release, Goto
<1>1. /\ pc'[t] = (IF t \in Calls THEN "leave" ELSE "finish")
      /\ \A u \in Threads \ {t} : pc'[u] = pc[u]
  BY <1>t, <1>0
<1>2. t \in Calls => HoldsPage(t) /\ p = mine[t]
  BY <1>t, <1>0 DEF OpeningInv, HoldsPage, Opening, Watching, Page
<1>3. /\ p \in Pages /\ page[p].served
      /\ t \notin Calls => p = t
  BY <1>t, <1>0, <1>2 DEF HolderInv, Page, Watching, Threads
<1>4. ~page'[p].served /\ \A q \in Pages \ {p} : page'[q] = page[q]
  BY <1>t, <1>0, <1>3
<1> HIDE DEF p
<1>5. \A d \in Calls : HoldsPage(d)' <=> d # t /\ HoldsPage(d)
  BY <1>t, <1>0, <1>1 DEF HoldsPage, Opening, Watching, Threads
<1>6. \A d \in Calls : d # t /\ HoldsPage(d) => mine[d] # p
  BY <1>t, <1>0, <1>2, <1>3 DEF HolderInv, Watching
<1>7. OpeningInv'
  BY <1>t, <1>0, <1>1 DEF OpeningInv, Threads, Opening, Watching
<1>8. \A q \in Pages : /\ pc'[q] \in Watching \cup {"idle", "finish"}
                       /\ pc'[q] \in Watching => q # p /\ page[q].served
  <2>1. CASE t \in Calls
    <3>1. pc[p] = "idle" /\ \A q \in Pages : pc'[q] = pc[q]
      BY <1>t, <1>1, <1>2, <2>1 DEF HolderInv, Threads
    <3> QED BY <1>t, <3>1 DEF HolderInv, Watching
  <2>2. CASE t \notin Calls
    BY <1>t, <1>1, <1>3, <2>2 DEF HolderInv, Watching, Threads
  <2> QED BY <2>1, <2>2
<1>9. ASSUME NEW d \in Calls, HoldsPage(d)'
      PROVE  mine'[d] \in Pages /\ page'[mine'[d]].served /\ pc'[mine'[d]] = "idle"
  <2>1. mine[d] \in Pages \ {p} /\ page[mine[d]].served /\ pc[mine[d]] = "idle"
    BY <1>t, <1>5, <1>6, <1>9 DEF HolderInv
  <2> QED BY <1>0, <1>1, <1>4, <2>1 DEF Threads
<1>10. \A d, e \in Calls : HoldsPage(d)' /\ HoldsPage(e)' /\ mine'[d] = mine'[e] => d = e
  BY <1>t, <1>0, <1>5 DEF HolderInv
<1>11. ASSUME NEW q \in Pages, page'[q].served, pc'[q] \notin Watching
       PROVE  \E d \in Calls : HoldsPage(d)' /\ mine'[d] = q
  <2>1. q # p /\ page[q].served
    BY <1>4, <1>11
  <2>2. pc'[q] = pc[q]
    BY <1>t, <1>1, <1>3, <2>1 DEF Threads
  <2>3. PICK d \in Calls : HoldsPage(d) /\ mine[d] = q
    BY <1>t, <1>11, <2>1, <2>2 DEF HolderInv
  <2> QED BY <1>0, <1>2, <1>5, <2>1, <2>3
<1>12. Reports
  BY <1>t, <1>0, <1>1 DEF Reports, Reported, HoldsPage, Opening, Watching, Threads
<1> QED BY <1>4, <1>7, <1>8, <1>9, <1>10, <1>11, <1>12, <1>t DEF HolderInv

\* Whoever waits for a page keeps it until he releases it.
LEMMA RestSameHolders ==
  ASSUME ConsentInv, PageInv,
         \/ \E t \in Threads : (WaitPage(t) /\ ~release(t)) \/ WaitPolls(t)
         \/ \E p \in Pages : watchEnds(p)
         \/ \E p \in Pages, state \in {"submitted", "dismissed"} :
              current(p, state) \/ servePost(p, state)
         \/ Stop \/ shutdown \/ shutdownReturns
         \/ \E r \in Rows : Environment(r)
         \/ Unbind
         \/ \E s \in Slots : UserCloses(s)
         \/ UNCHANGED vars
  PROVE  SameHolders
<1>t. /\ pc \in [Threads -> Labels] /\ mine \in [Calls -> Pages \cup {None}]
      /\ Calls \cap Pages = {} /\ OpeningInv
      /\ \A p \in Pages : pc[p] \in Watching \cup {"idle", "finish"}
      /\ page \in [Pages -> [state : {"open", "submitted", "dismissed"}, bound : BOOLEAN,
                             slot : Slots \cup {None}, served : BOOLEAN]]
  BY NameAssumption DEF ConsentInv, ConsentTypes, Threads, PageInv, PageTypes, HolderInv
<1> USE <1>t DEF SameHolders, OpeningInv, HoldsPage, Opening, Watching, Goto, Threads,
                 callVars, pageVars, Reports, Reported
<1>1. ASSUME NEW t \in Threads, WaitEnds(t) PROVE SameHolders
  <2>1. UNCHANGED <<want, mine, page>> /\ pc[t] = "wait"
    BY <1>1 DEF WaitEnds
  <2>2. \/ pc' = [pc EXCEPT ![t] = "closeLook"] /\ ~isOpen(Page(t))
        \/ pc' = [pc EXCEPT ![t] = "hook"] /\ t \in Calls
        \/ pc' = [pc EXCEPT ![t] = "release"]
    BY <1>1 DEF WaitEnds
  <2>3. t \in Calls => Page(t) = mine[t]
    BY DEF Page
  <2> QED BY <2>1, <2>2, <2>3
<1>2. ASSUME NEW t \in Threads, WaitPolls(t) PROVE SameHolders
  BY <1>2 DEF WaitPolls
<1>3. ASSUME NEW t \in Threads, WaitDismisses(t) PROVE SameHolders
  <2>1. \A p \in Pages : page'[p].served = page[p].served
    BY <1>3 DEF WaitDismisses, Transition
  <2>2. pc[t] = "dismiss" /\ pc' = [pc EXCEPT ![t] = "wait"] /\ UNCHANGED <<want, mine>>
    BY <1>3 DEF WaitDismisses
  <2> QED BY <2>1, <2>2
<1>4. ASSUME NEW t \in Threads, CloseLook(t) \/ closePageOverlay(t) PROVE SameHolders
  <2>1. CASE t \in Calls /\ want[t].kind # "page"
    <3>1. /\ pc[t] \in {"closeLook", "close"} /\ UNCHANGED <<want, mine, page>>
          /\ pc' = [pc EXCEPT ![t] = "close"] \/ pc' = [pc EXCEPT ![t] = "leave"]
      BY <1>4, <2>1 DEF CloseLook, closePageOverlay, Closed
    <3> QED BY <2>1, <3>1
  <2>2. CASE ~(t \in Calls /\ want[t].kind # "page")
    <3>1. /\ pc[t] \in {"closeLook", "close"} /\ UNCHANGED <<want, mine, page>>
          /\ \/ pc' = [pc EXCEPT ![t] = "close"]
             \/ pc' = [pc EXCEPT ![t] = IF t \in Pages THEN "release" ELSE "outcome"]
      BY <1>4, <2>2 DEF CloseLook, closePageOverlay, Closed
    <3> QED BY <2>2, <3>1
  <2> QED BY <2>1, <2>2
<1>5. ASSUME NEW p \in Pages, watchEnds(p) PROVE SameHolders
  BY <1>5 DEF watchEnds
<1>6. ASSUME NEW p \in Pages, NEW state \in {"submitted", "dismissed"},
             current(p, state) \/ servePost(p, state)
      PROVE  SameHolders
  <2>1. \A q \in Pages : page'[q].served = page[q].served
    BY <1>6 DEF current, servePost, Tell, Transition
  <2>2. UNCHANGED <<pc, want, mine>>
    BY <1>6 DEF current, servePost
  <2> QED BY <2>1, <2>2
<1>7. CASE Stop \/ shutdown \/ shutdownReturns \/ Unbind \/ UNCHANGED vars
  BY <1>7 DEF Stop, shutdown, shutdownReturns, Unbind, vars
<1>8. ASSUME NEW r \in Rows, Environment(r)
      PROVE  SameHolders
  BY <1>8 DEF Environment, Answer, OpenOrchestrator, AgentChanges,
              RefusalEnds
<1>9. ASSUME NEW s \in Slots, UserCloses(s) PROVE SameHolders
  BY <1>9 DEF UserCloses
<1> HIDE DEF SameHolders
<1> QED BY <1>1, <1>2, <1>3, <1>4, <1>5, <1>6, <1>7, <1>8, <1>9 DEF WaitPage

\* A host that is started again finds no thread of the last one.
LEMMA NewHostHolds ==
  ASSUME ConsentInv, PageInv, CountInv, StopInv, NewHost
  PROVE  OpeningInv' /\ HolderInv' /\ Reports
<1>1. shut = "done" /\ UNCHANGED <<pc, want, mine>>
  BY DEF NewHost, callVars
<1>2. \A t \in Threads : pc[t] = "idle"
  BY <1>1, NothingBusy DEF StopInv
<1>3. \A p \in Pages : ~page'[p].served
  BY DEF NewHost, Release, PageInv, PageTypes
<1> QED BY <1>1, <1>2, <1>3 DEF OpeningInv, HolderInv, HoldsPage, Opening, Watching, Threads,
                                  Reports, Reported

LEMMA HolderStep ==
  ASSUME ConsentInv, PageInv, CountInv, StopInv, [Next]_vars
  PROVE  OpeningInv' /\ HolderInv' /\ Reports
<1>0. HolderInv
  BY DEF PageInv
<1>1. SameHolders => OpeningInv' /\ HolderInv' /\ Reports
  BY <1>0, SameHoldersKeep DEF SameHolders
<1>2. ASSUME NEW c \in Calls, Admit(c) \/ Ctl(c) \/ Exec(c) \/ ClientLeaves(c)
      PROVE  OpeningInv' /\ HolderInv' /\ Reports
  BY <1>1, <1>2, CallSameHolders, RegisterHolds, TrackHolds
<1>3. ASSUME NEW t \in Threads, WaitPage(t) \/ WaitPolls(t)
      PROVE  OpeningInv' /\ HolderInv' /\ Reports
  BY <1>1, <1>3, RestSameHolders, ReleaseHolds
<1> QED BY <1>1, <1>2, <1>3, RestSameHolders, NewHostHolds DEF Next, Environment

\* The steps that change a page, what is told of it, or their number.
LEMMA PageSteps ==
  ASSUME [Next]_vars
  PROVE  \/ UNCHANGED <<page, perHost, told>>
         \/ \E c \in Calls :
              register(c) \/ bind(c) \/ DriveLook(c) \/ Drive(c) \/ outcome(c)
         \/ \E t \in Threads : WaitDismisses(t) \/ release(t)
         \/ \E p \in Pages, state \in {"submitted", "dismissed"} : servePost(p, state)
         \/ NewHost
<1> DEFINE Same == UNCHANGED <<page, perHost, told>>
<1>1. ASSUME NEW c \in Calls, Admit(c) \/ Exec(c) \/ ClientLeaves(c) \/ ReadBody(c)
                              \/ Authorize(c) \/ DropGrant(c) \/ Consent(c) \/ leave(c) \/ openInSlot(c)
      PROVE  Same
  BY <1>1 DEF Admit, Exec, ClientLeaves, ReadBody, Authorize, DropGrant, leave, openInSlot, Consent,
              ConsentBegin, AskOpen, AwaitAnswer, AwaitEnds, Cancel, refuseRow, afterAnswer,
              AddGrant, Undialog, pageVars
<1>2. ASSUME NEW c \in Calls, OpenOverlay(c) \/ OpenedCanceled(c) \/ track(c) \/ CancelHook(c)
      PROVE  Same
  BY <1>2 DEF OpenOverlay, OpenedCanceled, track, CancelHook, pageVars
<1>3. ASSUME NEW t \in Threads,
             WaitEnds(t) \/ WaitPolls(t) \/ CloseLook(t) \/ closePageOverlay(t)
      PROVE  Same
  BY <1>3 DEF WaitEnds, WaitPolls, CloseLook, closePageOverlay, pageVars
<1>4. ASSUME NEW p \in Pages, NEW state \in {"submitted", "dismissed"},
             watchEnds(p) \/ current(p, state)
      PROVE  Same
  BY <1>4 DEF watchEnds, current, pageVars
<1>5. CASE Stop \/ shutdown \/ shutdownReturns \/ Unbind \/ UNCHANGED vars
  BY <1>5 DEF Stop, shutdown, shutdownReturns, Unbind, vars, pageVars
<1>6. ASSUME NEW r \in Rows, Environment(r) PROVE Same
  BY <1>6 DEF Environment, Answer, OpenOrchestrator, AgentChanges,
              RefusalEnds, pageVars
<1>7. ASSUME NEW s \in Slots, UserCloses(s) PROVE Same
  BY <1>7 DEF UserCloses, pageVars
<1> HIDE DEF Same
<1>8. ASSUME NEW c \in Calls, Admit(c) \/ Ctl(c) \/ Exec(c) \/ ClientLeaves(c)
      PROVE  Same \/ register(c) \/ bind(c) \/ DriveLook(c) \/ Drive(c) \/ outcome(c)
  BY <1>1, <1>2, <1>8 DEF Ctl, RunPage, driveShimPage
<1>9. ASSUME NEW t \in Threads, WaitPage(t) \/ WaitPolls(t)
      PROVE  Same \/ WaitDismisses(t) \/ release(t)
  BY <1>3, <1>9 DEF WaitPage
<1> QED
  <2>1. CASE \E c \in Calls : Admit(c) \/ Ctl(c) \/ Exec(c) \/ ClientLeaves(c)
    BY <1>8, <2>1 DEF Same
  <2>2. CASE \E t \in Threads : WaitPage(t) \/ WaitPolls(t)
    BY <1>9, <2>2 DEF Same
  <2>3. CASE \/ \E p \in Pages : watchEnds(p)
             \/ \E p \in Pages, state \in {"submitted", "dismissed"} :
                  current(p, state) \/ servePost(p, state)
    BY <1>4, <2>3 DEF Same
  <2> QED BY <1>5, <1>6, <1>7, <2>1, <2>2, <2>3 DEF Next, Environment, Same

\* A call about a page or a slot is about a slot of the host's own rows.
SlotInv ==
  \A c \in Calls : want[c].kind \in {"page", "submit", "close"} => want[c].on \in Slots

\* Only these say what a call is about.
LEMMA WantSteps ==
  ASSUME [Next]_vars
  PROVE  UNCHANGED want \/ \E c \in Calls : Authorize(c) \/ AwaitAnswer(c) \/ leave(c)
<1>1. ASSUME NEW c \in Calls, Admit(c) \/ Ctl(c) \/ Exec(c) \/ ClientLeaves(c),
             ~Authorize(c), ~AwaitAnswer(c), ~leave(c)
      PROVE  UNCHANGED want
  <2>1. Admit(c) \/ Exec(c) \/ ClientLeaves(c) \/ ReadBody(c) \/ DropGrant(c) \/ outcome(c)
          => UNCHANGED want
    BY DEF Admit, Exec, ClientLeaves, ReadBody, DropGrant, outcome
  <2>2. Consent(c) => UNCHANGED want
    BY <1>1 DEF Consent, ConsentBegin, AskOpen, AwaitEnds, Cancel, refuseRow, afterAnswer,
                AddGrant, Undialog
  <2>3. RunPage(c) => UNCHANGED want
    BY DEF RunPage, register, OpenOverlay, OpenedCanceled, bind, track, CancelHook
  <2>4. driveShimPage(c) => UNCHANGED want
    BY DEF driveShimPage, openInSlot, DriveLook, Drive
  <2> QED BY <1>1, <2>1, <2>2, <2>3, <2>4 DEF Ctl
<1>2. ASSUME NEW t \in Threads, WaitPage(t) \/ WaitPolls(t) PROVE UNCHANGED want
  BY <1>2 DEF WaitPage, WaitPolls, WaitEnds, WaitDismisses, CloseLook, closePageOverlay,
              release
<1>3. ASSUME NEW p \in Pages, NEW state \in {"submitted", "dismissed"},
             watchEnds(p) \/ current(p, state) \/ servePost(p, state)
      PROVE  UNCHANGED want
  BY <1>3 DEF watchEnds, current, servePost, callVars
<1>4. CASE Stop \/ shutdown \/ shutdownReturns \/ NewHost \/ Unbind \/ UNCHANGED vars
  BY <1>4 DEF Stop, shutdown, shutdownReturns, NewHost, Unbind, vars, callVars
<1>5. ASSUME NEW r \in Rows, Environment(r)
      PROVE  UNCHANGED want
  BY <1>5 DEF Environment, Answer, OpenOrchestrator, AgentChanges,
              RefusalEnds, callVars
<1>6. ASSUME NEW s \in Slots, UserCloses(s) PROVE UNCHANGED want
  BY <1>6 DEF UserCloses, callVars
<1>7. (\E p \in Pages : watchEnds(p)) => UNCHANGED want
  BY DEF watchEnds
<1> QED BY <1>1, <1>2, <1>3, <1>4, <1>5, <1>6, <1>7 DEF Next, Environment

LEMMA SlotStep == ConsentTypes /\ SlotInv /\ [Next]_vars => SlotInv'
<1> SUFFICES ASSUME ConsentTypes, SlotInv, [Next]_vars PROVE SlotInv'
  OBVIOUS
<1>t. want \in [Calls -> Wants]
  BY DEF ConsentTypes
<1>1. CASE UNCHANGED want
  BY <1>1 DEF SlotInv
<1>2. ASSUME NEW c \in Calls, AwaitAnswer(c) PROVE SlotInv'
  <2>1. PICK b \in BOOLEAN : want' = [want EXCEPT ![c].pair = b]
    BY <1>2 DEF AwaitAnswer
  <2> QED BY <1>t, <2>1, WantPair DEF SlotInv
<1>3. ASSUME NEW c \in Calls, leave(c) PROVE SlotInv'
  BY <1>t, <1>3 DEF leave, NoWant, SlotInv
<1>4. ASSUME NEW c \in Calls, Authorize(c) PROVE SlotInv'
  <2>1. PICK w \in Decisions : want' = [want EXCEPT ![c] = w]
    BY <1>4, Zenon DEF Authorize
  <2>2. w.kind \in {"page", "submit", "close"} => w.on \in Slots
    BY DecisionTypes
  <2> QED BY <1>t, <2>1, <2>2 DEF SlotInv
<1> QED BY <1>1, <1>2, <1>3, <1>4, WantSteps

PageRecords == [state : {"open", "submitted", "dismissed"}, bound : BOOLEAN,
                slot : Slots \cup {None}, served : BOOLEAN]

\* What agterm shows, and which POSTs are under way.
LEMMA ShowsTypes ==
  ASSUME ConsentInv, PageTypes, [Next]_vars
  PROVE  /\ shows' \in [Slots -> Pages \cup {None}]
         /\ posts' \subseteq Pages \X {"submitted", "dismissed"}
<1>t. /\ shows \in [Slots -> Pages \cup {None}] /\ mine \in [Calls -> Pages \cup {None}]
      /\ posts \subseteq Pages \X {"submitted", "dismissed"}
  BY DEF ConsentInv, ConsentTypes, PageTypes
<1> DEFINE G == /\ shows' \in [Slots -> Pages \cup {None}]
                /\ posts' \subseteq Pages \X {"submitted", "dismissed"}
<1>1. ASSUME NEW c \in Calls, Admit(c) \/ ClientLeaves(c) \/ ReadBody(c) \/ Authorize(c)
                              \/ Consent(c) \/ leave(c) \/ driveShimPage(c)
                              \/ DropGrant(c) \/ outcome(c)
      PROVE  G
  <2>1. UNCHANGED <<shows, posts>>
    BY <1>1 DEF Admit, ClientLeaves, ReadBody, Authorize, DropGrant, outcome, leave, driveShimPage, openInSlot,
                DriveLook, Drive, Consent, ConsentBegin, AskOpen, AwaitAnswer, AwaitEnds,
                Cancel, refuseRow, afterAnswer, AddGrant, Undialog, agtermVars, pageVars
  <2> QED BY <1>t, <2>1
<1>2. ASSUME NEW c \in Calls, Exec(c) \/ CancelHook(c) \/ OpenOverlay(c) PROVE G
  BY <1>t, <1>2 DEF Exec, CancelHook, OpenOverlay, pageVars
<1>3. ASSUME NEW c \in Calls, register(c) \/ OpenedCanceled(c) \/ bind(c) \/ track(c) PROVE G
  <2>1. UNCHANGED <<shows, posts>>
    BY <1>3 DEF register, OpenedCanceled, bind, track, agtermVars, pageVars
  <2> QED BY <1>t, <2>1
<1>4. ASSUME NEW t \in Threads, WaitPage(t) \/ WaitPolls(t) PROVE G
  <2>1. UNCHANGED posts /\ (UNCHANGED shows \/ \E s : shows' = [shows EXCEPT ![s] = None])
    BY <1>4 DEF WaitPage, WaitPolls, WaitEnds, WaitDismisses, CloseLook, closePageOverlay,
                release, agtermVars, pageVars
  <2> QED BY <1>t, <2>1
<1>5. ASSUME NEW p \in Pages, NEW state \in {"submitted", "dismissed"},
             current(p, state) \/ servePost(p, state)
      PROVE  G
  BY <1>t, <1>5 DEF current, servePost, agtermVars
<1>6. (\E p \in Pages : watchEnds(p)) => G
  BY <1>t DEF watchEnds, agtermVars, pageVars
<1>7. ASSUME Stop \/ shutdown \/ shutdownReturns \/ NewHost \/ Unbind \/ UNCHANGED vars PROVE G
  BY <1>t, <1>7 DEF Stop, shutdown, shutdownReturns, NewHost, Unbind, vars, agtermVars, pageVars
<1>8. ASSUME NEW r \in Rows, Environment(r) PROVE G
  BY <1>t, <1>8 DEF Environment, Answer, OpenOrchestrator, AgentChanges,
              RefusalEnds, agtermVars, pageVars
<1>9. ASSUME NEW s \in Slots, UserCloses(s) PROVE G
  BY <1>t, <1>9 DEF UserCloses, pageVars
<1> HIDE DEF G
<1>10. G
  <2>1. ASSUME NEW c \in Calls, Admit(c) \/ Ctl(c) \/ Exec(c) \/ ClientLeaves(c) PROVE G
    BY <1>1, <1>2, <1>3, <2>1 DEF Ctl, RunPage
  <2>2. CASE \E t \in Threads : WaitPage(t) \/ WaitPolls(t) BY <1>4, <2>2
  <2>3. CASE \E p \in Pages, state \in {"submitted", "dismissed"} :
               current(p, state) \/ servePost(p, state)
    BY <1>5, <2>3
  <2> QED BY <1>6, <1>7, <1>8, <1>9, <2>1, <2>2, <2>3 DEF Next, Environment
<1> QED BY <1>10 DEF G

\* A transition, of which a POST may be told, and a driving call always is.
LEMMA TransitionOnce ==
  ASSUME PageTypes, OutcomeTold, NEW p \in Pages, NEW state \in {"submitted", "dismissed"},
         Transition(p, state),
         \/ UNCHANGED told
         \/ Tell(p, "drive", state)
         \/ (isOpen(p) /\ Tell(p, "post", state))
  PROVE  /\ page' \in [Pages -> PageRecords] /\ told' \in [Pages -> SUBSET Tellings]
         /\ \A q \in Pages : /\ page'[q].served = page[q].served
                             /\ ~isOpen(q) => page'[q].state = page[q].state
         /\ OutcomeTold'
<1>t. page \in [Pages -> PageRecords] /\ told \in [Pages -> SUBSET Tellings]
  BY DEF PageTypes, PageRecords
<1>1. told' \in [Pages -> SUBSET Tellings]
  BY <1>t DEF Tell, Tellings
<1>2. /\ \A q \in Pages \ {p} : told'[q] = told[q]
      /\ \A e \in told'[p] : e \in told[p] \/ e[1] = "drive"
                               \/ (isOpen(p) /\ e = <<"post", state>>)
  <2>1. ASSUME NEW by, Tell(p, by, state)
        PROVE  /\ \A q \in Pages \ {p} : told'[q] = told[q]
               /\ told'[p] = told[p] \cup {<<by, state>>}
    BY <1>t, <2>1 DEF Tell
  <2>2. CASE UNCHANGED told
    <3>1. \A q \in Pages : told'[q] = told[q]
      BY <2>2
    <3> QED BY <3>1
  <2>3. CASE Tell(p, "drive", state)
    <3>1. <<"drive", state>>[1] = "drive"
      OBVIOUS
    <3> QED BY <2>1, <2>3, <3>1
  <2>4. CASE isOpen(p) /\ Tell(p, "post", state)
    BY <2>1, <2>4
  <2> QED BY <2>2, <2>3, <2>4
<1>3. CASE ~isOpen(p)
  <2>1. UNCHANGED page
    BY <1>3 DEF Transition
  <2> QED BY <1>t, <1>1, <1>2, <1>3, <2>1 DEF OutcomeTold
<1>4. CASE isOpen(p)
  <2>1. \A e \in told[p] : e[1] = "drive"
    BY <1>t, <1>4 DEF OutcomeTold, isOpen, Tellings
  <2>2. /\ page' \in [Pages -> PageRecords] /\ page'[p].state = state
        /\ \A q \in Pages \ {p} : page'[q] = page[q]
        /\ page'[p].served = page[p].served
    BY <1>t, <1>4 DEF Transition, PageRecords
  <2>3. OutcomeTold'
    BY <1>2, <2>1, <2>2 DEF OutcomeTold
  <2> QED BY <1>1, <1>4, <2>2, <2>3
<1> QED BY <1>3, <1>4

ServedPages == {p \in Pages : page[p].served}

\* The pages the host serves, counted.
ServedInv ==
  /\ IsFiniteSet(ServedPages) /\ PagesAccounted

\* A page that has ended does not open again under a call that has it.
EndedStays == \A p \in Pages : ~isOpen(p) => ~isOpen(p)' \/ \A c \in Calls : mine[c] # p

\* One step per action that changes a page.
LEMMA PagesStep ==
  ASSUME ConsentInv, SlotInv, PageInv, OutcomeTold, ServedInv, EndedInv, [Next]_vars
  PROVE  PageTypes' /\ OutcomeTold' /\ ServedInv' /\ EndedStays
<1>t. /\ page \in [Pages -> PageRecords] /\ PageTypes
      /\ told \in [Pages -> SUBSET Tellings]
      /\ mine \in [Calls -> Pages \cup {None}] /\ cand \in [Calls -> SUBSET Pages]
      /\ OpeningInv /\ HolderInv /\ Pages \cap Calls = {}
  BY NameAssumption DEF PageInv, PageTypes, PageRecords, ConsentInv, ConsentTypes
<1>s. IsFiniteSet(ServedPages) /\ perHost = Cardinality(ServedPages)
  BY DEF ServedInv, PagesAccounted, ServedPages
<1> DEFINE G == /\ page' \in [Pages -> PageRecords]
                /\ told' \in [Pages -> SUBSET Tellings]
                /\ OutcomeTold' /\ ServedInv' /\ EndedStays
<1>e. ASSUME \A p \in Pages : page'[p].state = page[p].state \/ isOpen(p)
      PROVE  EndedStays
  BY <1>e DEF EndedStays, isOpen
<1>k. ASSUME \A p \in Pages : page'[p].served = page[p].served, UNCHANGED perHost
      PROVE  ServedInv'
  <2>1. ServedPages' = ServedPages
    BY <1>k DEF ServedPages
  <2> QED BY <1>s, <1>k, <2>1, Zenon DEF ServedInv, PagesAccounted, ServedPages
<1>1. ASSUME UNCHANGED <<page, perHost, told>> PROVE G
  <2>1. OutcomeTold'
    BY <1>1, Zenon DEF OutcomeTold
  <2> QED BY <1>t, <1>e, <1>k, <1>1, <2>1
<1>2. ASSUME NEW c \in Calls, register(c) PROVE G
  <2>1. CASE UNCHANGED <<page, perHost, told>>
    BY <1>1, <2>1
  <2>2. ASSUME NEW p \in Pages, Unused(p), perHost' = perHost + 1, told' = [told EXCEPT ![p] = {}],
               page' = [page EXCEPT ![p] = [state |-> "open", bound |-> FALSE,
                                            slot |-> want[c].on, served |-> TRUE]]
        PROVE  G
    <3>1. want[c].on \in Slots
      BY <1>t, <1>2 DEF register, OpeningInv, Opening, SlotInv
    <3>2. /\ page' \in [Pages -> PageRecords] /\ page'[p].served
          /\ \A q \in Pages \ {p} : page'[q] = page[q]
      BY <1>t, <2>2, <3>1 DEF PageRecords
    <3>3. OutcomeTold' /\ told' \in [Pages -> SUBSET Tellings]
      BY <1>t, <2>2, <3>2 DEF OutcomeTold
    <3>4. p \notin ServedPages /\ ServedPages' = ServedPages \cup {p}
      BY <2>2, <3>2 DEF Unused, ServedPages
    <3>5. IsFiniteSet(ServedPages') /\ Cardinality(ServedPages') = Cardinality(ServedPages) + 1
      BY <1>s, <3>4, FS_AddElement
    <3>6. ServedInv'
      BY <1>s, <2>2, <3>5, Zenon DEF ServedInv, PagesAccounted, ServedPages
    <3>7. EndedStays
      BY <2>2, <3>2 DEF EndedStays, isOpen, Unused
    <3> QED BY <3>2, <3>3, <3>6, <3>7
  <2> QED BY <1>2, <2>1, <2>2 DEF register
<1>3. ASSUME NEW c \in Calls, bind(c) PROVE G
  <2>1. UNCHANGED <<perHost, told>>
    BY <1>3 DEF bind
  <2>2. /\ page' \in [Pages -> PageRecords]
        /\ \A p \in Pages : page'[p].served = page[p].served /\ page'[p].state = page[p].state
    <3>1. UNCHANGED page \/ page' = [page EXCEPT ![mine[c]].bound = TRUE]
      BY <1>3 DEF bind
    <3>2. mine[c] \in Pages
      BY <1>t, <1>3 DEF bind, OpeningInv, HolderInv, HoldsPage, Opening
    <3>3. CASE UNCHANGED page BY <1>t, <3>3
    <3>4. CASE page' = [page EXCEPT ![mine[c]].bound = TRUE]
      <4> DEFINE m == mine[c]
      <4>1. m \in Pages /\ page' = [page EXCEPT ![m].bound = TRUE]
        BY <3>2, <3>4
      <4> HIDE DEF m
      <4>2. /\ page'[m] = [page[m] EXCEPT !.bound = TRUE]
            /\ \A p \in Pages \ {m} : page'[p] = page[p]
        BY <1>t, <4>1
      <4>3. page[m] \in PageRecords
        BY <1>t, <4>1
      <4>4. /\ page'[m] \in PageRecords /\ page'[m].served = page[m].served
            /\ page'[m].state = page[m].state
        BY <4>2, <4>3 DEF PageRecords
      <4>5. page' \in [Pages -> PageRecords]
        BY <1>t, <4>1, <4>2, <4>4
      <4> QED BY <4>2, <4>4, <4>5
    <3> QED BY <3>1, <3>3, <3>4
  <2>3. OutcomeTold'
    BY <2>1, <2>2 DEF OutcomeTold
  <2> QED BY <1>t, <1>e, <1>k, <2>1, <2>2, <2>3
<1>4. ASSUME NEW c \in Calls, DriveLook(c) PROVE G
  <2>1. UNCHANGED <<perHost, told>>
    BY <1>4 DEF DriveLook
  <2>2. CASE UNCHANGED page
    BY <1>1, <2>1, <2>2
  <2>3. ASSUME NEW p \in Pages, Transition(p, "dismissed") PROVE G
    BY <1>t, <1>e, <1>k, <2>1, <2>3, TransitionOnce
  <2> QED BY <1>t, <1>4, <2>2, <2>3 DEF DriveLook
<1>5. ASSUME NEW p \in Pages, NEW state \in {"submitted", "dismissed"}, Transition(p, state),
             UNCHANGED told \/ Tell(p, "drive", state) \/ (isOpen(p) /\ Tell(p, "post", state)),
             UNCHANGED perHost
      PROVE  G
  <2>1. /\ page' \in [Pages -> PageRecords] /\ told' \in [Pages -> SUBSET Tellings]
        /\ \A q \in Pages : /\ page'[q].served = page[q].served
                            /\ ~isOpen(q) => page'[q].state = page[q].state
        /\ OutcomeTold'
    BY <1>t, <1>5, TransitionOnce
  <2> QED BY <1>e, <1>k, <1>5, <2>1
<1>6. ASSUME NEW c \in Calls, Drive(c) PROVE G
  <2>1. CASE UNCHANGED <<page, perHost, told>>
    BY <1>1, <2>1
  <2>2. CASE mine[c] # None
    <3> DEFINE end == IF want[c].kind = "submit" THEN "submitted" ELSE "dismissed"
    <3>1. mine[c] \in Pages /\ end \in {"submitted", "dismissed"}
      BY <1>t, <2>2
    <3>2. Transition(mine[c], end) /\ Tell(mine[c], "drive", end) /\ UNCHANGED perHost
      BY <1>6, <2>2 DEF Drive
    <3> HIDE DEF end, G
    <3> QED BY <1>5, <3>1, <3>2
  <2> QED BY <1>6, <2>1, <2>2 DEF Drive
<1>12. ASSUME NEW c \in Calls, outcome(c) PROVE G
  <2> DEFINE p == mine[c]
  <2>1. p \in Pages /\ ~isOpen(p)
    BY <1>t, <1>12 DEF outcome, OpeningInv, HolderInv, HoldsPage, Opening, EndedInv, Reported
  <2>2. UNCHANGED <<page, perHost>> /\ Tell(p, "wait", page[p].state)
    BY <1>12 DEF outcome
  <2> HIDE DEF p
  <2>3. page[p].state \in {"submitted", "dismissed"}
    BY <1>t, <2>1 DEF PageRecords, isOpen
  <2>4. told' \in [Pages -> SUBSET Tellings]
    <3>1. <<"wait", page[p].state>> \in Tellings
      BY <2>3 DEF Tellings
    <3> QED BY <1>t, <2>2, <3>1 DEF Tell
  <2>5. /\ \A q \in Pages \ {p} : told'[q] = told[q]
        /\ \A e \in told'[p] : e \in told[p] \/ e = <<"wait", page[p].state>>
    BY <1>t, <2>1, <2>2 DEF Tell
  <2>6. OutcomeTold'
    BY <2>2, <2>5 DEF OutcomeTold
  <2> QED BY <1>t, <1>e, <1>k, <2>2, <2>4, <2>6
<1>7. ASSUME NEW t \in Threads, WaitDismisses(t) PROVE G
  <2>1. Transition(Page(t), "dismissed") /\ UNCHANGED <<perHost, told>>
    BY <1>7 DEF WaitDismisses
  <2>2. Page(t) \in Pages
    BY <1>t, <1>7 DEF WaitDismisses, Page, OpeningInv, HolderInv, HoldsPage, Opening,
                      Watching, Threads
  <2> HIDE DEF G
  <2> QED BY <1>5, <2>1, <2>2
<1>8. ASSUME NEW t \in Threads, release(t) PROVE G
  <2> DEFINE p == Page(t)
  <2>1. /\ page' = [q \in Pages |-> IF q \in {p} THEN [page[q] EXCEPT !.served = FALSE] ELSE page[q]]
        /\ perHost' = perHost - Cardinality({q \in {p} : page[q].served}) /\ UNCHANGED told
    BY <1>8 DEF release, Release
  <2>2. p \in Pages /\ page[p].served
    BY <1>t, <1>8 DEF release, Page, OpeningInv, HolderInv, HoldsPage, Opening,
                      Watching, Threads
  <2> HIDE DEF p
  <2>3. /\ page' \in [Pages -> PageRecords] /\ ~page'[p].served
        /\ \A q \in Pages : page'[q].state = page[q].state
        /\ \A q \in Pages \ {p} : page'[q] = page[q]
    BY <1>t, <2>1, <2>2 DEF PageRecords
  <2>4. ServedPages' = ServedPages \ {p} /\ p \in ServedPages
    BY <2>2, <2>3 DEF ServedPages
  <2>5. {q \in {p} : page[q].served} = {p}
    BY <2>2
  <2>6. perHost' = perHost - 1
    BY <2>1, <2>5, FS_Singleton
  <2>7. IsFiniteSet(ServedPages') /\ Cardinality(ServedPages') = Cardinality(ServedPages) - 1
    BY <1>s, <2>4, FS_RemoveElement
  <2>8. ServedInv'
    BY <1>s, <2>6, <2>7, Zenon DEF ServedInv, PagesAccounted, ServedPages
  <2>9. OutcomeTold'
    BY <2>1, <2>3 DEF OutcomeTold
  <2> QED BY <1>t, <1>e, <2>1, <2>3, <2>8, <2>9
<1>9. ASSUME NEW p \in Pages, NEW state \in {"submitted", "dismissed"}, servePost(p, state)
      PROVE  G
  <2>1. /\ Transition(p, state) /\ UNCHANGED perHost
        /\ UNCHANGED told \/ (isOpen(p) /\ Tell(p, "post", state))
    BY <1>9 DEF servePost
  <2> HIDE DEF G
  <2> QED BY <1>5, <2>1
<1>10. ASSUME NewHost PROVE G
  <2>1. /\ page' = [p \in Pages |-> IF p \in {q \in Pages : page[q].served}
                                    THEN [page[p] EXCEPT !.served = FALSE] ELSE page[p]]
        /\ perHost' = perHost - Cardinality({p \in {q \in Pages : page[q].served} : page[p].served})
        /\ UNCHANGED told
    BY <1>10 DEF NewHost, Release
  <2>2. /\ page' \in [Pages -> PageRecords]
        /\ \A p \in Pages : page'[p].state = page[p].state /\ ~page'[p].served
    BY <1>t, <2>1 DEF PageRecords
  <2>3. {p \in {q \in Pages : page[q].served} : page[p].served} = ServedPages
    BY DEF ServedPages
  <2>4. perHost' = Cardinality(ServedPages) - Cardinality(ServedPages)
    BY <1>s, <2>1, <2>3
  <2>5. perHost' = 0
    BY <1>s, <2>4, FS_CardinalityType
  <2>7. ServedPages' = {}
    BY <2>2 DEF ServedPages
  <2>6. ServedInv'
    BY <2>5, <2>7, FS_EmptySet, Zenon DEF ServedInv, PagesAccounted, ServedPages
  <2>8. UNCHANGED told
    BY <2>1
  <2>9. OutcomeTold'
    BY <2>2, <2>8 DEF OutcomeTold
  <2> QED BY <1>t, <1>e, <2>2, <2>6, <2>8, <2>9
<1> HIDE DEF G
<1>11. G
  <2>1. CASE UNCHANGED <<page, perHost, told>> BY <1>1, <2>1
  <2>2. CASE \E c \in Calls : register(c) \/ bind(c) \/ DriveLook(c) \/ Drive(c)
                         \/ outcome(c)
    BY <1>2, <1>3, <1>4, <1>6, <1>12, <2>2
  <2>3. CASE \E t \in Threads : WaitDismisses(t) \/ release(t)
    BY <1>7, <1>8, <2>3
  <2>4. CASE \E p \in Pages, state \in {"submitted", "dismissed"} : servePost(p, state)
    BY <1>9, <2>4
  <2> QED BY <1>10, <2>1, <2>2, <2>3, <2>4, PageSteps
<1> QED BY <1>t, <1>11, ShowsTypes DEF G, PageTypes, PageRecords
-----------------------------------------------------------------------------
(* One dialog at a time, and none about a row that was refused.            *)

\* The labels at which a call has the turn of the host to ask.
Turn == {"ask", "refuse", "check", "grant", "undialog", "undialogExec"} \cup Asking

TurnInv ==
  /\ dialog \in BOOLEAN
  /\ \A c \in Calls : pc[c] \in Turn => dialog
  /\ \A c, d \in Calls : pc[c] \in Turn /\ pc[d] \in Turn => c = d
  /\ \A c \in Calls : pc[c] = "ask" => want[c].on \notin refused

\* Nobody gets the turn, and no refusal is remembered.
SameTurn ==
  /\ UNCHANGED dialog /\ refused' \subseteq refused
  /\ \A c \in Calls :
       /\ pc'[c] \in Turn => pc[c] \in Turn
       /\ pc'[c] = "ask" => pc[c] = "ask" /\ want'[c] = want[c]

LEMMA CallSameTurn ==
  ASSUME ConsentInv, PageInv, NEW c \in Calls, Admit(c) \/ Ctl(c) \/ Exec(c) \/ ClientLeaves(c),
         ~ConsentBegin(c), ~refuseRow(c), ~Undialog(c)
  PROVE  SameTurn
<1>t. /\ pc \in [Threads -> Labels] /\ want \in [Calls -> Wants]
      /\ c \in Threads /\ Calls \subseteq Threads /\ Pages \cap Calls = {}
  BY NameAssumption DEF ConsentInv, ConsentTypes, Threads
<1> USE <1>t DEF SameTurn, Turn, Asking, Goto, hostVars
<1>1. CASE ReadBody(c) BY <1>1 DEF ReadBody
<1>2. CASE Admit(c) BY <1>2 DEF Admit
<1>3. CASE Exec(c) BY <1>3 DEF Exec
<1>4. CASE leave(c) BY <1>4 DEF leave
<1>6. CASE AwaitEnds(c) BY <1>6 DEF AwaitEnds
<1>7. CASE Cancel(c) BY <1>7 DEF Cancel
<1>9. CASE afterAnswer(c) BY <1>9 DEF afterAnswer
<1>11. CASE AskOpen(c) BY <1>11 DEF AskOpen
<1>12. CASE OpenOverlay(c) BY <1>12 DEF OpenOverlay
<1>13. CASE OpenedCanceled(c) BY <1>13 DEF OpenedCanceled
<1>14. CASE bind(c) BY <1>14 DEF bind
<1>15. CASE AwaitAnswer(c) BY <1>15 DEF AwaitAnswer
<1>16. CASE CancelHook(c) BY <1>16 DEF CancelHook
<1>17. CASE openInSlot(c) BY <1>17 DEF openInSlot
<1>18. CASE Drive(c)
  <2>1. /\ pc[c] = "drive" /\ UNCHANGED <<want, dialog, refused>>
        /\ Goto(c, "exec") \/ Goto(c, "closeLook") \/ Goto(c, "leave")
    BY <1>18 DEF Drive
  <2> QED BY <2>1
<1>19. CASE DriveLook(c) BY <1>19 DEF DriveLook
<1>20. CASE Authorize(c) \/ DropGrant(c)
  <2>1. UNCHANGED <<dialog, refused>> /\ \A d \in Calls \ {c} : want'[d] = want[d]
    BY <1>20, Zenon DEF Authorize, DropGrant
  <2>2. \E label \in {"leave", "exec", "consent", "register", "slot", "drop"} : Goto(c, label)
    BY <1>20, DecisionTypes, DecidedLabels DEF Authorize, DropGrant, ConsentInv
  <2> QED BY <2>1, <2>2
<1>21. CASE ClientLeaves(c) BY <1>21 DEF ClientLeaves
<1>22. CASE register(c)
  <2>1. /\ UNCHANGED <<dialog, refused, want>>
        /\ Goto(c, "leave") \/ Goto(c, "open")
    BY <1>22 DEF register
  <2> QED BY <2>1
<1>23. CASE track(c)
  <2>1. UNCHANGED <<dialog, refused, want>>
    BY <1>23 DEF track
  <2>2. Goto(c, "release") \/ \E p : pc' = [pc EXCEPT ![c] = "leave", ![p] = "wait"]
    BY <1>23 DEF track
  <2> QED BY <2>1, <2>2
<1>24. CASE AddGrant(c) BY <1>24 DEF AddGrant
<1>25. CASE outcome(c) BY <1>25 DEF outcome
<1> HIDE DEF SameTurn
<1> QED
  BY <1>1, <1>2, <1>3, <1>4, <1>6, <1>7, <1>9, <1>11, <1>12, <1>13, <1>14, <1>15, <1>16,
     <1>17, <1>18, <1>19, <1>20, <1>21, <1>22, <1>23, <1>24, <1>25
     DEF Ctl, Consent, RunPage, driveShimPage

LEMMA RestSameTurn ==
  ASSUME ConsentInv,
         \/ \E t \in Threads : WaitPage(t) \/ WaitPolls(t)
         \/ \E p \in Pages : watchEnds(p)
         \/ \E p \in Pages, state \in {"submitted", "dismissed"} :
              current(p, state) \/ servePost(p, state)
         \/ Stop \/ shutdown \/ shutdownReturns
         \/ \E r \in Rows : Environment(r)
         \/ Unbind
         \/ \E s \in Slots : UserCloses(s)
         \/ UNCHANGED vars
  PROVE  SameTurn
<1>t. pc \in [Threads -> Labels] /\ Calls \subseteq Threads
  BY DEF ConsentInv, ConsentTypes, Threads
<1> USE <1>t DEF SameTurn, Turn, Asking, Goto, callVars, hostVars
<1>1. ASSUME NEW t \in Threads, WaitPage(t) \/ WaitPolls(t) PROVE SameTurn
  <2>1. UNCHANGED <<dialog, refused, want>>
    BY <1>1 DEF WaitPage, WaitPolls, WaitEnds, WaitDismisses, CloseLook, closePageOverlay, release
  <2>2. \E label \in {"closeLook", "hook", "release", "dismiss", "wait", "close", "leave",
                       "outcome", "finish"} : Goto(t, label)
    BY <1>1 DEF WaitPage, WaitPolls, WaitEnds, WaitDismisses, CloseLook, closePageOverlay, release,
                Closed
  <2> QED BY <2>1, <2>2
<1>2. ASSUME NEW p \in Pages, watchEnds(p) PROVE SameTurn
  BY <1>2 DEF watchEnds
<1>3. ASSUME NEW p \in Pages, NEW state \in {"submitted", "dismissed"},
             current(p, state) \/ servePost(p, state)
      PROVE  SameTurn
  BY <1>3 DEF current, servePost
<1>4. CASE Stop \/ shutdown \/ shutdownReturns \/ Unbind \/ UNCHANGED vars
  BY <1>4 DEF Stop, shutdown, shutdownReturns, Unbind, vars
<1>5. ASSUME NEW r \in Rows, Environment(r) PROVE SameTurn
  BY <1>5 DEF Environment, Answer, OpenOrchestrator, AgentChanges,
              RefusalEnds
<1>6. ASSUME NEW s \in Slots, UserCloses(s) PROVE SameTurn
  BY <1>6 DEF UserCloses
<1> HIDE DEF SameTurn
<1> QED BY <1>1, <1>2, <1>3, <1>4, <1>5, <1>6

LEMMA TurnStep ==
  ASSUME ConsentInv, PageInv, CountInv, StopInv, TurnInv, [Next]_vars
  PROVE  TurnInv'
<1>t. /\ pc \in [Threads -> Labels] /\ Calls \subseteq Threads
  BY DEF ConsentInv, ConsentTypes, Threads
<1>1. ASSUME SameTurn PROVE TurnInv'
  BY <1>1 DEF SameTurn, TurnInv
<1>2. ASSUME NEW c \in Calls, ConsentBegin(c) PROVE TurnInv'
  BY <1>t, <1>2 DEF ConsentBegin, TurnInv, Turn, Asking, Goto
<1>3. ASSUME NEW c \in Calls, refuseRow(c) PROVE TurnInv'
  BY <1>t, <1>3 DEF refuseRow, TurnInv, Turn, Asking, Goto
<1>4. ASSUME NEW c \in Calls, Undialog(c) PROVE TurnInv'
  BY <1>t, <1>4 DEF Undialog, TurnInv, Turn, Asking, Goto
<1>5. ASSUME NewHost PROVE TurnInv'
  <2>1. shut = "done" /\ UNCHANGED pc /\ dialog' = FALSE
    BY <1>5 DEF NewHost, callVars
  <2>2. \A c \in Calls : pc[c] = "idle"
    BY <1>t, <2>1, NothingBusy DEF StopInv
  <2> QED BY <2>1, <2>2 DEF TurnInv, Turn, Asking
<1>6. ASSUME NEW c \in Calls, Admit(c) \/ Ctl(c) \/ Exec(c) \/ ClientLeaves(c)
      PROVE  TurnInv'
  BY <1>1, <1>2, <1>3, <1>4, <1>6, CallSameTurn
<1> QED BY <1>1, <1>5, <1>6, RestSameTurn DEF Next, Environment
-----------------------------------------------------------------------------
(* The parts together.                                                     *)

ProxyInv ==
  /\ ConsentInv /\ SlotInv /\ PageInv /\ EndedInv /\ OutcomeTold /\ ServedInv
  /\ CountInv /\ StopInv /\ TurnInv

LEMMA ProxyInit == Init => ProxyInv
<1> SUFFICES ASSUME Init PROVE ProxyInv
  OBVIOUS
<1>1. \A t \in Threads : pc[t] = "idle"
  BY DEF Init
<1>2. Busy(Calls) = {} /\ Busy(Threads) = {} /\ ServedPages = {}
  BY <1>1 DEF Init, Busy, Threads, ServedPages, NoPage
<1>3. CountInv
  BY <1>2, FS_EmptySet DEF Init, CountInv
<1>4. ServedInv
  BY <1>2, FS_EmptySet, Zenon DEF Init, ServedInv, PagesAccounted, ServedPages
<1>5. PageTypes /\ OutcomeTold
  BY DEF Init, PageTypes, OutcomeTold, NoPage
<1>6. OpeningInv /\ HolderInv /\ EndedInv
  BY <1>1 DEF Init, OpeningInv, HolderInv, EndedInv, HoldsPage, Opening, Watching, Threads, NoPage
<1>7. SlotInv
  BY DEF Init, SlotInv, NoWant
<1>8. StopInv /\ TurnInv
  BY <1>1 DEF Init, StopInv, TurnInv, Turn, Asking, Threads
<1> QED BY <1>3, <1>4, <1>5, <1>6, <1>7, <1>8, ConsentInit DEF ProxyInv, PageInv

LEMMA ProxyStep == ProxyInv /\ [Next]_vars => ProxyInv'
<1> SUFFICES ASSUME ProxyInv, [Next]_vars PROVE ProxyInv'
  OBVIOUS
<1>0. /\ ConsentInv /\ SlotInv /\ PageInv /\ EndedInv /\ OutcomeTold /\ ServedInv /\ ConsentTypes
      /\ CountInv /\ StopInv /\ TurnInv /\ OpeningInv /\ HolderInv
  BY DEF ProxyInv, ConsentInv, PageInv
<1>1. ConsentInv' BY <1>0, ConsentStep
<1>2. SlotInv' BY <1>0, SlotStep
<1>3. PageTypes' /\ OutcomeTold' /\ ServedInv' /\ EndedStays BY <1>0, PagesStep
<1>4. OpeningInv' /\ HolderInv' /\ Reports BY <1>0, HolderStep
<1>7. EndedInv'
  <2> SUFFICES ASSUME NEW c \in Calls, pc'[c] \in Reported, HoldsPage(c)'
               PROVE  ~isOpen(mine[c])'
    BY DEF EndedInv
  <2>1. /\ HoldsPage(c) /\ mine'[c] = mine[c] /\ mine[c] \in Pages
        /\ pc[c] \in Reported \/ ~isOpen(mine[c])
    BY <1>0, <1>4 DEF Reports, HoldsPage, HolderInv
  <2>2. ~isOpen(mine[c])
    BY <1>0, <2>1 DEF EndedInv
  <2> QED BY <1>3, <2>1, <2>2 DEF EndedStays, isOpen
<1>5. CountInv' /\ StopInv' BY <1>0, CountStep
<1>6. TurnInv' BY <1>0, TurnStep
<1> QED BY <1>1, <1>2, <1>3, <1>4, <1>5, <1>6, <1>7 DEF ProxyInv, PageInv

LEMMA ProxyAlways == Spec => []ProxyInv
<1>1. Init => ProxyInv BY ProxyInit
<1>2. ProxyInv /\ [Next]_vars => ProxyInv' BY ProxyStep
<1> QED BY <1>1, <1>2, PTL DEF Spec

\* On every way out of a call and of a page's goroutine the host gets its slot
\* back, once, for any number of calls and pages and any limits.
THEOREM NoSlotIsLost == Spec => []SlotsAccounted
<1>1. ProxyInv => SlotsAccounted
  BY DEF ProxyInv, CountInv, SlotsAccounted, Busy
<1> QED BY <1>1, ProxyAlways, PTL

\* When shutdown has returned no call and no goroutine of the host runs, and
\* each of its pages has been released by the thread that held it.
THEOREM ShutdownLeavesNothing == Spec => []NothingAfterShutdown
<1>1. ProxyInv => NothingAfterShutdown
  <2> SUFFICES ASSUME ProxyInv, shut = "done"
      PROVE (\A t \in Threads : pc[t] = "idle") /\ (\A p \in Pages : ~page[p].served)
    BY DEF NothingAfterShutdown
  <2>1. \A t \in Threads : pc[t] = "idle"
    BY NothingBusy DEF ProxyInv, StopInv
  <2>2. \A p \in Pages : ~page[p].served
    BY <2>1 DEF ProxyInv, PageInv, HolderInv, HoldsPage, Opening, Watching, Threads
  <2> QED BY <2>1, <2>2
<1> QED BY <1>1, ProxyAlways, PTL

\* The count that the limit of pages is held against is that of the pages served.
THEOREM NoPageIsLost == Spec => []PagesAccounted
<1>1. ProxyInv => PagesAccounted
  BY DEF ProxyInv, ServedInv
<1> QED BY <1>1, ProxyAlways, PTL

\* A page ends once: no POST and no call that waits for the page is told another
\* outcome than the page's, and none is taken back. A call that drives the page
\* is left out: it is told of its own transition whether or not that one won.
THEOREM OneOutcome == Spec => []OutcomeTold
<1>1. ProxyInv => OutcomeTold
  BY DEF ProxyInv
<1> QED BY <1>1, ProxyAlways, PTL

\* No dialog opens about a row while the host remembers its refusal, though the
\* look at the refusal and the dialog are two steps and calls run side by side.
THEOREM RefusalIsKept == Spec => RefusalHolds
<1> DEFINE Opens(r) == ask'[r].state = "open" /\ ask[r].state # "open"
           A == \A r \in Rows : Opens(r) => r \notin refused
<1>1. ProxyInv /\ [Next]_vars => [A]_vars
  <2> SUFFICES ASSUME ProxyInv, Next, NEW r \in Rows, Opens(r) PROVE r \notin refused
    OBVIOUS
  <2>t. ask \in [Rows -> [state : {"none", "open", "once", "pair", "deny"},
                          by : Calls \cup {None}]]
    BY DEF ProxyInv, ConsentInv, ConsentTypes
  <2>1. ASSUME NEW c \in Calls, Admit(c) \/ Ctl(c) \/ Exec(c) \/ ClientLeaves(c)
        PROVE  AskOpen(c)
    <3>1. CASE Admit(c) \/ ReadBody(c) \/ Authorize(c) \/ Exec(c) \/ ClientLeaves(c)
               \/ driveShimPage(c) \/ RunPage(c) \/ leave(c)
               \/ DropGrant(c) \/ outcome(c)
      <4>1. UNCHANGED ask
        BY <3>1 DEF Admit, ReadBody, Authorize, Exec, ClientLeaves, driveShimPage, openInSlot,
                    DriveLook, Drive, RunPage, register, OpenOverlay, OpenedCanceled, bind,
                    track, CancelHook, leave, DropGrant, outcome, agtermVars
      <4> QED BY <4>1
    <3>2. CASE ConsentBegin(c) \/ AwaitEnds(c) \/ refuseRow(c) \/ afterAnswer(c) \/ AddGrant(c)
               \/ Undialog(c)
      <4>1. UNCHANGED ask
        BY <3>2 DEF ConsentBegin, AwaitEnds, refuseRow, afterAnswer, AddGrant, Undialog, agtermVars
      <4> QED BY <4>1
    <3>3. CASE AwaitAnswer(c)
      BY <2>t, <3>3 DEF AwaitAnswer, NoAsk
    <3>4. CASE Cancel(c)
      BY <2>t, <3>4 DEF Cancel, NoAsk
    <3> HIDE DEF Opens
    <3> QED BY <2>1, <3>1, <3>2, <3>3, <3>4 DEF Ctl, Consent
  <2>2. ASSUME NEW t \in Threads, WaitPage(t) \/ WaitPolls(t) PROVE FALSE
    BY <2>2 DEF WaitPage, WaitPolls, WaitEnds, WaitDismisses, CloseLook, closePageOverlay,
                release, agtermVars
  <2>3. ASSUME NEW p \in Pages, watchEnds(p) PROVE FALSE
    BY <2>3 DEF watchEnds, agtermVars
  <2>4. ASSUME NEW p \in Pages, NEW state \in {"submitted", "dismissed"},
               current(p, state) \/ servePost(p, state)
        PROVE  FALSE
    BY <2>4 DEF current, servePost, agtermVars
  <2>5. ~(Stop \/ shutdown \/ shutdownReturns \/ NewHost \/ Unbind)
    BY DEF Stop, shutdown, shutdownReturns, NewHost, Unbind, agtermVars
  <2>6. ASSUME NEW q \in Rows, Environment(q) PROVE FALSE
    BY <2>t, <2>6 DEF Environment, Answer, OpenOrchestrator, AgentChanges,
              RefusalEnds, NoAsk, agtermVars
  <2>7. ASSUME NEW s \in Slots, UserCloses(s) PROVE FALSE
    BY <2>7 DEF UserCloses
  <2>8. PICK c \in Calls : AskOpen(c)
    <3> HIDE DEF Opens
    <3> QED BY <2>1, <2>2, <2>3, <2>4, <2>5, <2>6, <2>7 DEF Next, Environment
  <2>9. pc[c] = "ask" /\ want[c].on = r
    BY <2>t, <2>8 DEF AskOpen
  <2> QED BY <2>9 DEF ProxyInv, TurnInv
<1>2. Spec => [][A]_vars
  BY <1>1, ProxyAlways, PTL DEF Spec
<1> QED BY <1>2 DEF RefusalHolds

\* What is left of TypeOK: the host, and the two limits.
HostTypes ==
  /\ gone \subseteq Calls /\ refused \subseteq Rows
  /\ closed \in BOOLEAN /\ stopped \in BOOLEAN
  /\ drained \in {"none", "made", "closed"} /\ shut \in {"no", "wait", "done"}
  /\ calls <= MaxCalls /\ perHost <= MaxPages

LEMMA HostTypesStep == ProxyInv /\ HostTypes /\ [Next]_vars => HostTypes'
<1> SUFFICES ASSUME ProxyInv, HostTypes, [Next]_vars PROVE HostTypes'
  OBVIOUS
<1> USE LimitAssumption
<1>t. /\ want \in [Calls -> Wants] /\ KindInv /\ calls \in Nat /\ perHost \in Nat
      /\ \A S : IsFiniteSet(S) => Cardinality(S) \in Nat
  <2>1. \A S : IsFiniteSet(S) => Cardinality(S) \in Nat
    BY FS_CardinalityType
  <2> QED BY <2>1 DEF ProxyInv, ConsentInv, ConsentTypes, CountInv, ServedInv,
                      PagesAccounted, ServedPages
<1> DEFINE Same == UNCHANGED <<refused, closed, stopped, drained, shut, calls>>
<1>l. perHost' <= MaxPages
  <2>1. ASSUME NEW c \in Calls, register(c) PROVE perHost' <= MaxPages
    BY <1>t, <2>1 DEF register, HostTypes
  <2>2. ASSUME NEW t \in Threads, release(t) PROVE perHost' <= MaxPages
    <3> DEFINE S == {p \in {Page(t)} : page[p].served}
    <3>1. IsFiniteSet(S)
      BY FS_Singleton, FS_Subset
    <3>2. perHost' = perHost - Cardinality(S)
      BY <2>2 DEF release, Release
    <3> HIDE DEF S
    <3> QED BY <1>t, <3>1, <3>2 DEF HostTypes
  <2>3. ASSUME NewHost PROVE perHost' <= MaxPages
    <3>1. {p \in {q \in Pages : page[q].served} : page[p].served} = ServedPages
      BY DEF ServedPages
    <3>2. perHost' = perHost - Cardinality(ServedPages)
      BY <2>3, <3>1 DEF NewHost, Release
    <3>3. IsFiniteSet(ServedPages)
      BY DEF ProxyInv, ServedInv
    <3> QED BY <1>t, <3>2, <3>3 DEF HostTypes
  <2>4. UNCHANGED perHost => perHost' <= MaxPages
    BY DEF HostTypes
  <2>5. ASSUME NEW c \in Calls, bind(c) \/ DriveLook(c) \/ Drive(c) \/ outcome(c)
        PROVE  UNCHANGED perHost
    BY <2>5 DEF bind, DriveLook, Drive, outcome
  <2>6. ASSUME NEW t \in Threads, WaitDismisses(t) PROVE UNCHANGED perHost
    BY <2>6 DEF WaitDismisses
  <2>7. ASSUME NEW p \in Pages, NEW state \in {"submitted", "dismissed"}, servePost(p, state)
        PROVE  UNCHANGED perHost
    BY <2>7 DEF servePost
  <2>8. CASE \E c \in Calls : register(c) \/ bind(c) \/ DriveLook(c) \/ Drive(c) \/ outcome(c)
    BY <2>1, <2>4, <2>5, <2>8
  <2>9. CASE \E t \in Threads : WaitDismisses(t) \/ release(t)
    BY <2>2, <2>4, <2>6, <2>9
  <2>10. CASE \E p \in Pages, state \in {"submitted", "dismissed"} : servePost(p, state)
    BY <2>4, <2>7, <2>10
  <2> QED BY <2>3, <2>4, <2>8, <2>9, <2>10, PageSteps
<1>1. ASSUME NEW c \in Calls, Admit(c) \/ Ctl(c) \/ Exec(c) \/ ClientLeaves(c)
      PROVE  HostTypes'
  <2>1. CASE \/ ReadBody(c) \/ Authorize(c) \/ Exec(c) \/ driveShimPage(c) \/ AskOpen(c)
             \/ AwaitAnswer(c) \/ AwaitEnds(c) \/ Cancel(c) \/ afterAnswer(c)
             \/ DropGrant(c) \/ AddGrant(c) \/ outcome(c)
    <3>1. Same /\ UNCHANGED gone
      BY <2>1 DEF ReadBody, Authorize, Exec, driveShimPage, openInSlot, DriveLook, Drive,
                  AskOpen, AwaitAnswer, AwaitEnds, Cancel, afterAnswer, DropGrant, AddGrant, outcome, hostVars, agtermVars
    <3> QED BY <1>l, <3>1 DEF HostTypes
  <2>2. CASE RunPage(c)
    <3>1. Same /\ UNCHANGED gone
      BY <2>2 DEF RunPage, register, OpenOverlay, OpenedCanceled, bind, track, CancelHook,
                  hostVars, agtermVars
    <3> QED BY <1>l, <3>1 DEF HostTypes
  <2>3. CASE ConsentBegin(c) \/ Undialog(c) \/ ClientLeaves(c)
    BY <1>l, <2>3 DEF ConsentBegin, Undialog, ClientLeaves, HostTypes, hostVars, agtermVars
  <2>4. CASE refuseRow(c)
    <3>1. want[c].on \in Rows
      BY <1>t, <2>4 DEF refuseRow, KindInv
    <3> QED BY <1>l, <2>4, <3>1 DEF refuseRow, HostTypes, agtermVars
  <2>5. CASE Admit(c) \/ leave(c)
    BY <1>t, <1>l, <2>5 DEF Admit, leave, Finish, HostTypes, agtermVars
  <2> QED BY <1>1, <2>1, <2>2, <2>3, <2>4, <2>5 DEF Ctl, Consent
<1>2. ASSUME NEW t \in Threads, WaitPage(t) \/ WaitPolls(t) PROVE HostTypes'
  <2>1. Same /\ UNCHANGED gone
    BY <1>2 DEF WaitPage, WaitPolls, WaitEnds, WaitDismisses, CloseLook, closePageOverlay,
                release, hostVars, agtermVars
  <2> QED BY <1>l, <2>1 DEF HostTypes
<1>3. ASSUME NEW p \in Pages, watchEnds(p) PROVE HostTypes'
  BY <1>l, <1>3 DEF watchEnds, Finish, HostTypes, agtermVars
<1>4. ASSUME NEW p \in Pages, NEW state \in {"submitted", "dismissed"},
             current(p, state) \/ servePost(p, state)
      PROVE  HostTypes'
  BY <1>l, <1>4 DEF current, servePost, HostTypes, callVars, hostVars, agtermVars
<1>5. CASE Stop \/ shutdown \/ shutdownReturns \/ Unbind \/ UNCHANGED vars
  BY <1>l, <1>5 DEF Stop, shutdown, shutdownReturns, Unbind, vars, HostTypes, callVars, hostVars,
                    agtermVars
<1>6. ASSUME NEW r \in Rows, Environment(r) PROVE HostTypes'
  <2>1. UNCHANGED <<gone, closed, stopped, drained, shut, calls>>
    BY <1>6 DEF Environment, Answer, OpenOrchestrator, AgentChanges,
              RefusalEnds, callVars, hostVars
  <2>2. refused' \subseteq Rows
    <3>1. refused \subseteq Rows
      BY DEF HostTypes
    <3>2. UNCHANGED refused \/ refused' = refused \ {r}
      BY <1>6 DEF Environment, Answer, OpenOrchestrator, AgentChanges, RefusalEnds, hostVars
    <3> QED BY <3>1, <3>2
  <2> QED BY <1>l, <2>1, <2>2 DEF HostTypes
<1>7. ASSUME NEW s \in Slots, UserCloses(s) PROVE HostTypes'
  BY <1>l, <1>7 DEF UserCloses, HostTypes, callVars, hostVars
<1>8. CASE NewHost
  <2>1. /\ UNCHANGED gone /\ calls' = 0 /\ closed' = FALSE
        /\ drained' = "none" /\ refused' = {} /\ stopped' = FALSE /\ shut' = "no"
    BY <1>8 DEF NewHost, callVars, agtermVars
  <2>2. 0 <= MaxCalls /\ gone \subseteq Calls
    BY DEF HostTypes
  <2> QED BY <1>l, <2>1, <2>2 DEF HostTypes
<1> QED BY <1>1, <1>2, <1>3, <1>4, <1>5, <1>6, <1>7, <1>8 DEF Next, Environment

\* Every variable holds a value of its kind, and the host never runs more calls,
\* nor serves more pages, than it may.
THEOREM LimitsHold == Spec => []TypeOK
<1>1. Init => HostTypes
  <2>1. 0 <= MaxCalls /\ 0 <= MaxPages
    BY LimitAssumption
  <2> QED BY <2>1 DEF Init, HostTypes
<1>2. ProxyInv /\ HostTypes => TypeOK
  <2> SUFFICES ASSUME ProxyInv, HostTypes PROVE TypeOK
    OBVIOUS
  <2>1. \A S : IsFiniteSet(S) => Cardinality(S) \in Nat
    BY FS_CardinalityType
  <2>2. calls \in 0..MaxCalls /\ running \in Nat /\ perHost \in 0..MaxPages
    BY <2>1, LimitAssumption DEF ProxyInv, HostTypes, CountInv, ServedInv, PagesAccounted,
                                 ServedPages
  <2> QED BY <2>2 DEF TypeOK, ProxyInv, HostTypes, ConsentInv, ConsentTypes, Wants, PageInv,
                      PageTypes, Tellings, TurnInv
<1> QED BY <1>1, <1>2, HostTypesStep, ProxyAlways, PTL DEF Spec
=============================================================================
