-------------------------------- MODULE Accounts --------------------------------
(***************************************************************************)
(* Accounts of one e-mail address: the magic links sent to it, the         *)
(* transactions that verify them, the sessions they open, the erasure of   *)
(* the account and the wallet connections of its owner.                    *)
(*                                                                         *)
(* Sources: apps/api/src/lib/auth.ts, session.ts, account.ts, wallets.ts   *)
(* and routes/auth.ts, me.ts, wallet.ts.  The database runs transactions   *)
(* at READ COMMITTED: each statement sees what was committed before it, a  *)
(* row updated by an open transaction is locked, users.email is unique.    *)
(***************************************************************************)
EXTENDS Integers, Sequences, FiniteSets

CONSTANTS
  Link,           \* magic links that may be sent
  Verification,   \* POST /auth/verify requests that may be in flight at once
  Connection,     \* POST /me/wallet requests that may be in flight at once
  MaxLinks,       \* MAX_LINKS_PER_EMAIL_PER_HOUR
  MaxErasures     \* bound: accounts of the address that are erased

VARIABLES
  links,      \* by link: "unsent", "sent", "consumed" or "expired"
  accounts,   \* the accounts of the address, the last one under its e-mail
  sessions,   \* the open sessions, by the account they are for
  opened,     \* sessions ever opened, by link
  verifying,  \* where each verification stands
  wallets,    \* the wallet connections of the owner, by status
  connecting  \* how many of them each connection request has superseded, or -1

accountVars == <<links, accounts, sessions, opened, verifying, wallets, connecting>>

NoVerification == [step |-> "none"]
NoAccount == 0
LastAccount == Len(accounts)
Current == IF LastAccount > 0 /\ ~accounts[LastAccount].deleted THEN LastAccount ELSE NoAccount

----------------------------------------------------------------------------
requestMagicLink(l) ==
  /\ links[l] = "unsent"
  /\ Cardinality({k \in Link : links[k] # "unsent"}) < MaxLinks
  /\ links' = [links EXCEPT ![l] = "sent"]
  /\ UNCHANGED <<accounts, sessions, opened, verifying, wallets, connecting>>

LinkExpires(l) ==
  /\ links[l] = "sent"
  /\ links' = [links EXCEPT ![l] = "expired"]
  /\ UNCHANGED <<accounts, sessions, opened, verifying, wallets, connecting>>

\* The token is read: unknown, consumed or expired ones are refused.
VerifyBegin(v, l) ==
  /\ verifying[v] = NoVerification
  /\ links[l] = "sent"
  /\ \E consent \in BOOLEAN :
       verifying' = [verifying EXCEPT ![v] = [step |-> "read", link |-> l, consent |-> consent]]
  /\ UNCHANGED <<links, accounts, sessions, opened, wallets, connecting>>

\* It is marked, which locks its row until the end of the transaction, and the
\* account is looked for.
VerifyLookup(v) ==
  LET me == verifying[v] IN
  /\ me.step = "read"
  /\ \A w \in Verification : verifying[w].step = "found" => verifying[w].link # me.link
  /\ verifying' = [verifying EXCEPT ![v] = [step |-> "found", link |-> me.link,
                                            consent |-> me.consent, account |-> Current]]
  /\ UNCHANGED <<links, accounts, sessions, opened, wallets, connecting>>

\* What a verification that throws leaves behind: nothing, it is rolled back.
\* Fault: the token is marked outside the transaction.
Rollback_marked(l) == "consumed"
Rollback(l) == links[l]

\* No consent for a new account, the address taken meanwhile, or a crash.
VerifyFails(v) ==
  LET me == verifying[v] IN
  /\ me.step = "found"
  /\ links' = [links EXCEPT ![me.link] = Rollback(me.link)]
  /\ verifying' = [verifying EXCEPT ![v] = NoVerification]
  /\ UNCHANGED <<accounts, sessions, opened, wallets, connecting>>

\* Commit: the account, with its consent, if there was none; and the session.
VerifyCommits(v) ==
  LET me == verifying[v] IN
  /\ me.step = "found"
  /\ \/ /\ me.account # NoAccount
        /\ UNCHANGED accounts
        /\ sessions' = Append(sessions, me.account)
     \/ /\ me.account = NoAccount /\ me.consent /\ Current = NoAccount
        /\ accounts' = Append(accounts, [consent |-> TRUE, deleted |-> FALSE])
        /\ sessions' = Append(sessions, Len(accounts'))
  /\ links' = [links EXCEPT ![me.link] = "consumed"]
  /\ opened' = [opened EXCEPT ![me.link] = @ + 1]
  /\ verifying' = [verifying EXCEPT ![v] = NoVerification]
  /\ UNCHANGED <<wallets, connecting>>

revokeSession ==
  /\ \E i \in DOMAIN sessions :
       sessions' = [j \in 1 .. Len(sessions) - 1 |-> sessions[IF j < i THEN j ELSE j + 1]]
  /\ UNCHANGED <<links, accounts, opened, verifying, wallets, connecting>>

\* DELETE /me: the address is freed, the sessions of the account are revoked.
\* Its wallet connections and links are left alone.
deleteAccount ==
  /\ Current # NoAccount
  /\ \E i \in DOMAIN sessions : sessions[i] = Current
  /\ Cardinality({i \in DOMAIN accounts : accounts[i].deleted}) < MaxErasures
  /\ accounts' = [accounts EXCEPT ![LastAccount].deleted = TRUE]
  /\ sessions' = SelectSeq(sessions, LAMBDA a : a # Current)
  /\ UNCHANGED <<links, opened, verifying, wallets, connecting>>

----------------------------------------------------------------------------
(* POST /me/wallet: in one transaction, supersede the connections there    *)
(* are and insert the new one.                                             *)

ConnectBegin(c) ==
  /\ connecting[c] = -1
  /\ \E i \in DOMAIN sessions : sessions[i] = Current
  /\ Len(wallets) < Cardinality(Connection)
  /\ connecting' = [connecting EXCEPT ![c] = Len(wallets)]
  /\ UNCHANGED <<links, accounts, sessions, opened, verifying, wallets>>

ConnectCommits(c) ==
  /\ connecting[c] >= 0
  /\ wallets' = Append([i \in DOMAIN wallets |-> IF i <= connecting[c] THEN "disconnected"
                                                 ELSE wallets[i]], "connected")
  /\ connecting' = [connecting EXCEPT ![c] = -1]
  /\ UNCHANGED <<links, accounts, sessions, opened, verifying>>

----------------------------------------------------------------------------
AccountsInit ==
  /\ links = [l \in Link |-> "unsent"]
  /\ accounts = <<>> /\ sessions = <<>>
  /\ opened = [l \in Link |-> 0]
  /\ verifying = [v \in Verification |-> NoVerification]
  /\ wallets = <<>>
  /\ connecting = [c \in Connection |-> -1]

AccountsNext ==
  \/ \E l \in Link : requestMagicLink(l) \/ LinkExpires(l)
  \/ \E v \in Verification :
       \/ \E l \in Link : VerifyBegin(v, l)
       \/ VerifyLookup(v) \/ VerifyFails(v) \/ VerifyCommits(v)
  \/ revokeSession \/ deleteAccount
  \/ \E c \in Connection : ConnectBegin(c) \/ ConnectCommits(c)

----------------------------------------------------------------------------
(* Properties.                                                             *)

\* Signing in is atomic (auth.ts): a consumed link opened a session, every
\* account has a recorded consent, and the address has one account at a time,
\* over concurrent verifications, crashes and erasures.  Nor do two connections
\* that supersede each other leave the owner without a wallet (wallet.ts).
AtomicSignIn ==
  /\ \A l \in Link : links[l] = "consumed" => opened[l] > 0
  /\ \A i \in DOMAIN accounts : accounts[i].consent
  /\ \A i, j \in DOMAIN accounts : ~accounts[i].deleted /\ ~accounts[j].deleted => i = j
  /\ wallets # <<>> => \E i \in DOMAIN wallets : wallets[i] = "connected"
=============================================================================
