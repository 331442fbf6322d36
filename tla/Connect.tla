------------------------------- MODULE Connect ------------------------------
(***************************************************************************)
(* Connecting and disconnecting accounts of a network                      *)
(* (src/accounts/connect.ts, web Networks, ConnectModal, OAuthCallback and *)
(* DisconnectModal).  A handshake is one single-use state; its callback    *)
(* page may be opened again and again, and each opening is one transaction *)
(* that waits for the lock another one holds on the state's row while it   *)
(* talks to the network.  Networks without a redirect are connected from   *)
(* the modal, with the fields they ask for.                                *)
(***************************************************************************)
EXTENDS Naturals, FiniteSets

CONSTANTS
  Handshakes,   \* oauth_states rows the user may start, one account each at most
  Openings,     \* openings of callback pages
  Profiles,     \* the network's accounts the user may consent with
  Nil,          \* no row, no account
  MaxFaults     \* exchanges or transactions that fail in a behaviour (a bound)

ASSUME ConnectAssumption ==
  /\ Nil \notin Handshakes \cup Openings \cup Profiles
  /\ MaxFaults \in Nat

VARIABLES
  hs,       \* oauth_states: "none", "open", "consumed"; expired; the row's lock
  grants,   \* what the network gave for a handshake: profile, code used, declined
  page,     \* each opening: handshake, where it is, what it shows
  linked,   \* connected_accounts: per profile "none", "active", "disconnected", "unwell"
  links,    \* how many connections each handshake made (history)
  modal,    \* what is open on the Networks page
  faults
connectVars == <<hs, grants, page, linked, links, modal, faults>>

NoPage == [at |-> "closed"]
ConnectInit ==
  /\ hs = [h \in Handshakes |-> [row |-> "none", late |-> FALSE, lock |-> Nil]]
  /\ grants = [h \in Handshakes |-> [profile |-> Nil, used |-> FALSE, declined |-> FALSE]]
  /\ page = [o \in Openings |-> NoPage]
  /\ linked = [p \in Profiles |-> "none"]
  /\ links = [h \in Handshakes |-> 0]
  /\ modal = "closed"
  /\ faults = 0

(* "Connect a network", or "Reconnect", which has picked its network.       *)
OpenModal(what) ==
  /\ modal = "closed" /\ modal' = what
  /\ UNCHANGED <<hs, grants, page, linked, links, faults>>
CloseModal ==
  /\ modal # "closed" /\ modal' = "closed"
  /\ UNCHANGED <<hs, grants, page, linked, links, faults>>

InsertState(h) == hs[h].row = "none" /\ hs' = [hs EXCEPT ![h].row = "open"]

(* beginConnect: the browser leaves for the network, or fields are asked    *)
(* for.                                                                     *)
BeginConnect(h) ==
  /\ modal = "pick" /\ modal' = "closed"
  /\ InsertState(h)
  /\ UNCHANGED <<grants, page, linked, links, faults>>
AskForFields ==
  /\ modal = "pick" /\ modal' = "fields"
  /\ UNCHANGED <<hs, grants, page, linked, links, faults>>

(* At the network: consent with any of the user's accounts, or decline.     *)
Consent(h, p) ==
  /\ hs[h].row = "open" /\ grants[h].profile = Nil /\ ~grants[h].declined
  /\ grants' = [grants EXCEPT ![h].profile = p]
  /\ UNCHANGED <<hs, page, linked, links, modal, faults>>
Decline(h) ==
  /\ hs[h].row = "open" /\ grants[h].profile = Nil /\ ~grants[h].declined
  /\ grants' = [grants EXCEPT ![h].declined = TRUE]
  /\ UNCHANGED <<hs, page, linked, links, modal, faults>>

TenMinutes(h) ==
  /\ hs[h].row = "open" /\ ~hs[h].late
  /\ hs' = [hs EXCEPT ![h].late = TRUE]
  /\ UNCHANGED <<grants, page, linked, links, modal, faults>>

OpenPage(o, h) ==
  /\ page[o] = NoPage /\ (grants[h].profile # Nil \/ grants[h].declined)
  /\ page' = [page EXCEPT ![o] = [at |-> "sent", of |-> h, shows |-> "working"]]
  /\ UNCHANGED <<hs, grants, linked, links, modal, faults>>

Show(o, what) == page' = [page EXCEPT ![o] = [@ EXCEPT !.at = "shown", !.shows = what]]

(* "denied": the state is consumed if nobody did before.                    *)
Denied(o) ==
  /\ page[o].at = "sent" /\ grants[page[o].of].declined
  /\ hs[page[o].of].lock = Nil
  /\ hs' = [hs EXCEPT ![page[o].of].row = "consumed"]
  /\ Show(o, "denied")
  /\ UNCHANGED <<grants, linked, links, modal, faults>>

(* Mutant: the state is read, and nothing is locked.                       *)
ReadState(o) ==
  LET h == page[o].of IN
  /\ page[o].at = "sent" /\ ~grants[h].declined
  /\ IF hs[h].row = "open" /\ ~hs[h].late
     THEN page' = [page EXCEPT ![o].at = "exchange"]
     ELSE Show(o, "error")
  /\ UNCHANGED <<hs, grants, linked, links, modal, faults>>

(* The update that consumes the state also locks its row to the end of the  *)
(* transaction; one that waited for the lock finds the row consumed.        *)
ConsumeState(o) ==
  LET h == page[o].of IN
  /\ page[o].at = "sent" /\ ~grants[h].declined
  /\ hs[h].lock = Nil
  /\ IF hs[h].row = "open" /\ ~hs[h].late
     THEN /\ hs' = [hs EXCEPT ![h].lock = o]
          /\ page' = [page EXCEPT ![o].at = "exchange"]
     ELSE Show(o, "error") /\ UNCHANGED hs
  /\ UNCHANGED <<grants, linked, links, modal, faults>>

(* exchangeCallback: the network may refuse a code it has seen, or not.     *)
Exchange(o) ==
  LET h == page[o].of IN
  /\ page[o].at = "exchange"
  /\ grants' = [grants EXCEPT ![h].used = TRUE]
  /\ page' = [page EXCEPT ![o].at = "persist"]
  /\ UNCHANGED <<hs, linked, links, modal, faults>>

(* A refused code, a network that cannot be reached, a write that fails:    *)
(* everything is rolled back, the consumption of the state too.             *)
RollBack(o) ==
  LET h == page[o].of IN
  /\ \/ page[o].at = "exchange" /\ grants[h].used /\ UNCHANGED faults
     \/ page[o].at \in {"exchange", "persist"} /\ faults < MaxFaults /\ faults' = faults + 1
  /\ hs' = [hs EXCEPT ![h].lock = Nil]
  /\ Show(o, "error")
  /\ UNCHANGED <<grants, linked, links, modal>>

Reattach(p) == linked' = [linked EXCEPT ![p] = "active"]

(* persistConnectedAccount: inserted, or the row of this account reattached. *)
Persist(o) ==
  LET h == page[o].of
      p == grants[h].profile
  IN  /\ page[o].at = "persist"
      /\ Reattach(p)
      /\ links' = [links EXCEPT ![h] = @ + 1]
      /\ hs' = [hs EXCEPT ![h].row = "consumed", ![h].lock = Nil]
      /\ Show(o, IF linked[p] = "none" THEN "connected" ELSE "reconnected")
      /\ UNCHANGED <<grants, modal, faults>>

(* completeCredentialConnect: one transaction, all of it or an error in the *)
(* modal, which stays.                                                      *)
CompleteCredentialConnect(p) ==
  /\ modal = "fields"
  /\ \/ Reattach(p) /\ modal' = "closed" /\ UNCHANGED faults
     \/ faults < MaxFaults /\ faults' = faults + 1 /\ UNCHANGED <<linked, modal>>
  /\ UNCHANGED <<hs, grants, page, links>>

Detach(p) == linked[p] # "none" /\ linked' = [linked EXCEPT ![p] = "disconnected"]

(* disconnectAccount after the typed confirmation; an account that is       *)
(* disconnected already is not found.                                       *)
Unlink(p) ==
  /\ modal = "disconnect" /\ linked[p] # "disconnected"
  /\ Detach(p)
  /\ modal' = "closed"
  /\ UNCHANGED <<hs, grants, page, links, faults>>

(* An account whose token expired or was refused.                           *)
Sicken(p) ==
  /\ linked[p] = "active" /\ linked' = [linked EXCEPT ![p] = "unwell"]
  /\ UNCHANGED <<hs, grants, page, links, modal, faults>>

ConnectNext ==
  \/ \E what \in {"pick", "disconnect"} : OpenModal(what)
  \/ CloseModal \/ AskForFields
  \/ \E h \in Handshakes :
       \/ BeginConnect(h) \/ Decline(h) \/ TenMinutes(h)
       \/ \E p \in Profiles : Consent(h, p)
       \/ \E o \in Openings : OpenPage(o, h)
  \/ \E o \in Openings :
       page[o] # NoPage /\ (Denied(o) \/ ConsumeState(o) \/ Exchange(o) \/ RollBack(o) \/ Persist(o))
  \/ \E p \in Profiles : CompleteCredentialConnect(p) \/ Unlink(p) \/ Sicken(p)

ConnectSpec == ConnectInit /\ [][ConnectNext]_connectVars

-----------------------------------------------------------------------------
(* A handshake connects at most once, never after it was declined, and      *)
(* exactly when one of its pages says so: however often the page is opened, *)
(* reloaded or fails, no second page reports a success.                     *)
HandshakeOnce ==
  \A h \in Handshakes :
    /\ links[h] <= 1
    /\ grants[h].declined => links[h] = 0
    /\ links[h] = Cardinality({o \in Openings : page[o] # NoPage /\ page[o].of = h
                                /\ page[o].shows \in {"connected", "reconnected"}})
    /\ links[h] = 1 <=> hs[h].row = "consumed" /\ ~grants[h].declined
=============================================================================
