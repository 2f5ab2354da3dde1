----------------------------- MODULE ServicesProofs -----------------------------
(***************************************************************************)
(* Proofs about the services around the shipment: the accounts of an       *)
(* address, the table of road distances, the calls to a wallet over a      *)
(* relay nobody trusts, the EUR rate, the board, the route of a carrier and  *)
(* the mails of a stay.  They share no state.                              *)
(***************************************************************************)
EXTENDS Trusted, Board, Itinerary, Mail, FiniteSetTheorems, FunctionTheorems,
  WellFoundedInduction, TLAPS

AccountsSpec == AccountsInit /\ [][AccountsNext]_accountVars
RoadsSpec == RoadsInit /\ [][RoadsNext]_roadVars
NwcSpec == NwcInit /\ [][NwcNext]_nwcVars
MailSpec == MailInit /\ [][MailNext]_mailVars

----------------------------------------------------------------------------
(* Accounts: what a verification may rely on at its commit.                *)

\* A link is marked with the session it opened, never before.
ConsumedOpened ==
  /\ opened \in [Link -> Nat]
  /\ links \in [Link -> {"unsent", "sent", "consumed", "expired"}]
  /\ \A l \in Link : links[l] = "consumed" => opened[l] > 0

\* An account of the address: its consent is on record.
Account == [consent : {TRUE}, deleted : BOOLEAN]

\* Only the last account of the address may be alive: a verification that found
\* none must look again before it adds one.
OnlyLastAlive ==
  /\ accounts \in Seq(Account)
  /\ \A i \in DOMAIN accounts : i < Len(accounts) => accounts[i].deleted

\* The newest connection is the one that counts, whatever it superseded.
NewestConnected ==
  /\ wallets \in Seq({"connected", "disconnected"})
  /\ wallets # <<>> => wallets[Len(wallets)] = "connected"

SignInInv == ConsumedOpened /\ OnlyLastAlive /\ NewestConnected

\* The invariant gives the property: only the last account can be alive, and the
\* newest connection is a connected one (auth.ts, wallet.ts).
LEMMA SignInIsEnough ==
  ASSUME SignInInv
  PROVE  AtomicSignIn
<1>1. \A l \in Link : links[l] = "consumed" => opened[l] > 0
  BY DEF SignInInv, ConsumedOpened
<1>2. \A i \in DOMAIN accounts : accounts[i].consent
  <2> TAKE i \in DOMAIN accounts
  <2>1. accounts[i] \in Account
    BY DEF SignInInv, OnlyLastAlive
  <2>2. accounts[i].consent = TRUE
    BY <2>1 DEF Account
  <2> QED  BY <2>2
<1>3. ASSUME NEW i \in DOMAIN accounts, NEW j \in DOMAIN accounts,
             ~accounts[i].deleted, ~accounts[j].deleted
      PROVE  i = j
  <2>1. i = Len(accounts) /\ j = Len(accounts)
    BY <1>3 DEF SignInInv, OnlyLastAlive
  <2> QED  BY <2>1
<1>4. wallets # <<>> => \E i \in DOMAIN wallets : wallets[i] = "connected"
  <2> SUFFICES ASSUME wallets # <<>>
               PROVE  \E i \in DOMAIN wallets : wallets[i] = "connected"
    OBVIOUS
  <2>1. Len(wallets) \in DOMAIN wallets /\ wallets[Len(wallets)] = "connected"
    BY DEF SignInInv, NewestConnected
  <2> QED  BY <2>1
<1> QED  BY <1>1, <1>2, <1>3, <1>4 DEF AtomicSignIn

\* Marking the link at the commit, with the session: a rollback leaves the link as
\* it was (auth.ts).
LEMMA MarkedWithSession ==
  ASSUME SignInInv, [AccountsNext]_accountVars
  PROVE  ConsumedOpened'
<1> USE DEF SignInInv, ConsumedOpened
<1>1. CASE UNCHANGED <<links, opened>>
  BY <1>1
<1>2. ASSUME NEW l \in Link, requestMagicLink(l) \/ LinkExpires(l)
      PROVE  ConsumedOpened'
  BY <1>2 DEF requestMagicLink, LinkExpires
<1>3. ASSUME NEW v \in Verification, VerifyFails(v)
      PROVE  ConsumedOpened'
  <2>1. UNCHANGED <<links, opened>>
    BY <1>3 DEF VerifyFails, Rollback
  <2> QED  BY <2>1
<1>4. ASSUME NEW v \in Verification, VerifyCommits(v)
      PROVE  ConsumedOpened'
  <2> DEFINE m == verifying[v].link
  <2>1. /\ links' = [links EXCEPT ![m] = "consumed"]
        /\ opened' = [opened EXCEPT ![m] = @ + 1]
    BY <1>4 DEF VerifyCommits
  <2> HIDE DEF m
  <2>2. opened' \in [Link -> Nat] /\ links' \in [Link -> {"unsent", "sent", "consumed", "expired"}]
    <3>1. opened' = [l \in Link |-> IF l = m THEN opened[l] + 1 ELSE opened[l]]
      BY <2>1
    <3>2. \A l \in Link : opened[l] \in Nat /\ opened[l] + 1 \in Nat
      OBVIOUS
    <3>3. opened' \in [Link -> Nat]
      BY <3>1, <3>2
    <3>4. links' \in [Link -> {"unsent", "sent", "consumed", "expired"}]
      BY <2>1
    <3> QED  BY <3>3, <3>4
  <2>3. ASSUME NEW l \in Link, links'[l] = "consumed"
        PROVE  opened'[l] > 0
    <3>1. CASE l = m
      <4>1. opened'[l] = opened[l] + 1 /\ opened[l] \in Nat
        BY <2>1, <3>1
      <4> QED  BY <4>1
    <3>2. CASE l # m
      BY <2>1, <2>3, <3>2
    <3> QED  BY <3>1, <3>2
  <2> QED  BY <2>2, <2>3
<1>5. [AccountsNext]_accountVars =>
        \/ UNCHANGED <<links, opened>>
        \/ \E l \in Link : requestMagicLink(l) \/ LinkExpires(l)
        \/ \E v \in Verification : VerifyFails(v) \/ VerifyCommits(v)
  BY DEF AccountsNext, accountVars, VerifyBegin, VerifyLookup, revokeSession,
         deleteAccount, ConnectBegin, ConnectCommits
<1> QED  BY <1>1, <1>2, <1>3, <1>4, <1>5

\* An account is added with its consent and only when none is alive: the address
\* is unique, and a verification that lost the race fails (auth.ts, account.ts).
LEMMA OneAliveKept ==
  ASSUME SignInInv, [AccountsNext]_accountVars
  PROVE  OnlyLastAlive'
<1> USE DEF SignInInv, OnlyLastAlive
<1>1. CASE UNCHANGED accounts
  BY <1>1
<1>2. ASSUME NEW v \in Verification, VerifyCommits(v)
      PROVE  OnlyLastAlive'
  <2>1. CASE UNCHANGED accounts
    BY <2>1
  <2>2. CASE accounts' = Append(accounts, [consent |-> TRUE, deleted |-> FALSE])
             /\ Current = NoAccount
    <3>1. \A i \in DOMAIN accounts : accounts[i].deleted
      <4> TAKE i \in DOMAIN accounts
      <4>1. CASE i < Len(accounts)
        BY <4>1
      <4>2. CASE i = Len(accounts)
        BY <4>2, <2>2 DEF Current, NoAccount, LastAccount
      <4> QED  BY <4>1, <4>2
    <3>2. \A i \in DOMAIN accounts' : i < Len(accounts') => accounts'[i] = accounts[i]
                                                           /\ i \in DOMAIN accounts
      BY <2>2
    <3>3. accounts' \in Seq(Account)
      <4>1. [consent |-> TRUE, deleted |-> FALSE] \in Account
        BY DEF Account
      <4> QED  BY <2>2, <4>1
    <3> QED  BY <3>1, <3>2, <3>3
  <2> QED  BY <1>2, <2>1, <2>2 DEF VerifyCommits
<1>3. CASE deleteAccount
  <2>1. LastAccount \in DOMAIN accounts /\ LastAccount = Len(accounts)
    BY <1>3 DEF deleteAccount, Current, LastAccount, NoAccount
  <2>2. accounts' = [accounts EXCEPT ![LastAccount].deleted = TRUE]
    BY <1>3 DEF deleteAccount
  <2> DEFINE gone == [accounts[LastAccount] EXCEPT !.deleted = TRUE]
  <2>3. accounts[LastAccount] \in Account
    BY <2>1
  <2>4. gone \in Account
    BY <2>3 DEF Account
  <2>5. accounts' = [accounts EXCEPT ![LastAccount] = gone]
    BY <2>2
  <2> HIDE DEF gone
  <2>6. accounts' \in Seq(Account) /\ Len(accounts') = Len(accounts)
    BY <2>1, <2>4, <2>5
  <2>7. \A i \in DOMAIN accounts' : i < Len(accounts') =>
          i \in DOMAIN accounts /\ i < Len(accounts) /\ accounts'[i] = accounts[i]
    BY <2>1, <2>5, <2>6
  <2> QED  BY <2>6, <2>7
<1>4. [AccountsNext]_accountVars =>
        UNCHANGED accounts \/ deleteAccount \/ \E v \in Verification : VerifyCommits(v)
  BY DEF AccountsNext, accountVars, requestMagicLink, LinkExpires, VerifyBegin, VerifyLookup,
         VerifyFails, revokeSession, ConnectBegin, ConnectCommits
<1> QED  BY <1>1, <1>2, <1>3, <1>4

\* A connection supersedes what it saw and is connected itself (wallets.ts).
LEMMA NewestKept ==
  ASSUME SignInInv, [AccountsNext]_accountVars
  PROVE  NewestConnected'
<1> USE DEF SignInInv, NewestConnected
<1>1. CASE UNCHANGED wallets
  BY <1>1
<1>2. ASSUME NEW c \in Connection, ConnectCommits(c)
      PROVE  NewestConnected'
  <2> DEFINE superseded == [i \in DOMAIN wallets |-> IF i <= connecting[c] THEN "disconnected"
                                                     ELSE wallets[i]]
  <2>1. wallets' = Append(superseded, "connected")
    BY <1>2 DEF ConnectCommits
  <2>2. superseded \in Seq({"connected", "disconnected"})
    OBVIOUS
  <2> HIDE DEF superseded
  <2> QED  BY <2>1, <2>2
<1>3. [AccountsNext]_accountVars =>
        UNCHANGED wallets \/ \E c \in Connection : ConnectCommits(c)
  BY DEF AccountsNext, accountVars, requestMagicLink, LinkExpires, VerifyBegin, VerifyLookup,
         VerifyFails, VerifyCommits, revokeSession, deleteAccount, ConnectBegin
<1> QED  BY <1>1, <1>2, <1>3

\* Signing in is atomic for any links, verifications, erasures and connections in
\* flight: a consumed link opened a session, every account recorded a consent, one
\* account at a time has the address, and a wallet that was connected leaves one
\* connected (auth.ts, account.ts, wallets.ts).
THEOREM SignInIsAtomic == AccountsSpec => []AtomicSignIn
<1>1. AccountsInit => SignInInv
  BY DEF AccountsInit, SignInInv, ConsumedOpened, OnlyLastAlive, NewestConnected
<1>2. SignInInv /\ [AccountsNext]_accountVars => SignInInv'
  BY MarkedWithSession, OneAliveKept, NewestKept DEF SignInInv
<1>3. SignInInv => AtomicSignIn
  BY SignInIsEnough
<1> QED  BY <1>1, <1>2, <1>3, PTL DEF AccountsSpec

----------------------------------------------------------------------------
(* Road distances: the table only grows, and whoever knows a value of a    *)
(* pair knows the one in the table.                                        *)

\* What a request under way has read agrees with the table, which never changes
\* a value it has: this is what lets it answer long after it read.
ReadAgrees ==
  \A r \in Resolver : asking[r] # NotAsking =>
    /\ "map" \in DOMAIN asking[r]
    /\ \A k \in DOMAIN asking[r].map :
         k \in Pairs /\ asking[r].map[k] = roadDistances[k]

HandedAgrees == \A a \in handed : a[1] \in Pairs /\ a[2] = roadDistances[a[1]]

RoadInv ==
  /\ DOMAIN asking = Resolver
  /\ ReadAgrees
  /\ HandedAgrees

\* What is in the table stays, with its value.
TableKept == \A k \in Pairs : k \in Pairs' /\ roadDistances'[k] = roadDistances[k]

\* A step of one resolver: it alone knows something new, that the table confirms.
Resolved(r) ==
  /\ r \in Resolver
  /\ \E rec : asking' = [asking EXCEPT ![r] = rec]
  /\ asking'[r] # NotAsking =>
       /\ "map" \in DOMAIN asking'[r]
       /\ \A k \in DOMAIN asking'[r].map :
            k \in Pairs' /\ asking'[r].map[k] = roadDistances'[k]

\* The first of two maps wins: a table inserted into keeps what it had (road-routing.ts).
LEMMA MergeKeeps ==
  ASSUME NEW m, NEW n
  PROVE  /\ DOMAIN Merge(m, n) = DOMAIN m \cup DOMAIN n
         /\ \A k \in DOMAIN m : Merge(m, n)[k] = m[k]
         /\ \A k \in DOMAIN n \ DOMAIN m : Merge(m, n)[k] = n[k]
BY DEF Merge

\* A resolver that learns what the table says, over a table that keeps its values,
\* leaves everyone in agreement with it.
LEMMA AgreementKept ==
  ASSUME RoadInv, TableKept, NEW r, Resolved(r), HandedAgrees'
  PROVE  RoadInv'
<1>1. PICK rec : asking' = [asking EXCEPT ![r] = rec]
  BY DEF Resolved
<1>2. DOMAIN asking' = Resolver
  BY <1>1 DEF RoadInv
<1>3. ReadAgrees'
  <2> SUFFICES ASSUME NEW q \in Resolver, asking'[q] # NotAsking
               PROVE  /\ "map" \in DOMAIN asking'[q]
                      /\ \A k \in DOMAIN asking'[q].map :
                           k \in Pairs' /\ asking'[q].map[k] = roadDistances'[k]
    BY DEF ReadAgrees, NotAsking
  <2>1. CASE q = r
    BY <2>1 DEF Resolved
  <2>2. CASE q # r
    <3>1. asking'[q] = asking[q]
      BY <1>1, <2>2 DEF RoadInv
    <3> QED  BY <3>1 DEF RoadInv, ReadAgrees, TableKept
  <2> QED  BY <2>1, <2>2
<1> QED  BY <1>2, <1>3 DEF RoadInv

\* What was handed out stays right while the table keeps its values.
LEMMA HandedKept ==
  ASSUME RoadInv, TableKept, handed' = handed
  PROVE  HandedAgrees'
BY DEF RoadInv, HandedAgrees, TableKept

\* A table that is the same keeps its values.
LEMMA SameTable ==
  ASSUME roadDistances' = roadDistances
  PROVE  TableKept
BY DEF TableKept, Pairs

\* A request begins with the rows there are (readPairs).
LEMMA BeginAgrees ==
  ASSUME RoadInv, NEW r \in Resolver, NEW use, NEW keys, Begin(r, use, keys)
  PROVE  RoadInv'
<1> DEFINE map == readPairs(keys)
<1>1. PICK step : asking' = [asking EXCEPT ![r] =
                    [step |-> step, use |-> use, keys |-> keys, map |-> map]]
  BY DEF Begin, Asking
<1>2. roadDistances' = roadDistances /\ handed' = handed
  BY DEF Begin
<1>3. \A k \in DOMAIN map : k \in Pairs /\ map[k] = roadDistances[k]
  BY DEF readPairs
<1>4. asking'[r] = [step |-> step, use |-> use, keys |-> keys, map |-> map]
  BY <1>1 DEF RoadInv
<1> HIDE DEF map
<1>5. "map" \in DOMAIN asking'[r] /\ asking'[r].map = map
  BY <1>4
<1>6. Resolved(r)
  BY <1>1, <1>2, <1>3, <1>5 DEF Resolved, Pairs
<1> QED  BY <1>2, <1>6, SameTable, HandedKept, AgreementKept

\* The router's answer is put by, what was read is left as it was.
LEMMA TableAgrees ==
  ASSUME RoadInv, NEW r \in Resolver, Table(r)
  PROVE  RoadInv'
<1>1. PICK values : asking' = [asking EXCEPT ![r] =
        [step |-> "fetched", use |-> asking[r].use, keys |-> asking[r].keys,
         map |-> asking[r].map, values |-> values]]
  BY DEF Table, Asking
<1>2. roadDistances' = roadDistances /\ handed' = handed
  BY DEF Table
<1>3. asking[r] # NotAsking
  BY DEF Table, NotAsking
<1>4. "map" \in DOMAIN asking'[r] /\ asking'[r].map = asking[r].map
  BY <1>1 DEF RoadInv
<1>5. Resolved(r)
  BY <1>1, <1>2, <1>3, <1>4 DEF Resolved, RoadInv, ReadAgrees, Pairs
<1> QED  BY <1>2, <1>5, SameTable, HandedKept, AgreementKept

\* A router that is down leaves the request with what it had read.
LEMMA FailureAgrees ==
  ASSUME RoadInv, NEW r \in Resolver, TableFails(r)
  PROVE  RoadInv'
<1>1. asking' = [asking EXCEPT ![r] = [asking[r] EXCEPT !.step = "resolved"]]
  BY DEF TableFails, Asking
<1>2. roadDistances' = roadDistances /\ handed' = handed
  BY DEF TableFails
<1>3. asking[r] # NotAsking
  BY DEF TableFails, NotAsking
<1>4. "map" \in DOMAIN asking'[r] /\ asking'[r].map = asking[r].map
  BY <1>1, <1>3 DEF RoadInv, ReadAgrees
<1>5. Resolved(r)
  BY <1>1, <1>2, <1>3, <1>4 DEF Resolved, RoadInv, ReadAgrees, Pairs
<1> QED  BY <1>2, <1>5, SameTable, HandedKept, AgreementKept

\* Inserting never overwrites: on conflict do nothing.
LEMMA InsertAgrees ==
  ASSUME RoadInv, NEW r \in Resolver, Insert(r)
  PROVE  RoadInv'
<1>1. asking' = [asking EXCEPT ![r] = [asking[r] EXCEPT !.step = "inserted"]]
  BY DEF Insert, Asking
<1>2. roadDistances' = Merge(roadDistances, asking[r].values) /\ handed' = handed
  BY DEF Insert, Inserted
<1>3. TableKept
  <2> DEFINE values == asking[r].values
  <2> HIDE DEF values
  <2>1. DOMAIN Merge(roadDistances, values) = DOMAIN roadDistances \cup DOMAIN values
    BY MergeKeeps
  <2>2. \A k \in DOMAIN roadDistances : Merge(roadDistances, values)[k] = roadDistances[k]
    BY MergeKeeps
  <2>3. roadDistances' = Merge(roadDistances, values)
    BY <1>2 DEF values
  <2> QED  BY <2>1, <2>2, <2>3 DEF TableKept, Pairs
<1>4. asking[r] # NotAsking
  BY DEF Insert, NotAsking
<1>5. "map" \in DOMAIN asking'[r] /\ asking'[r].map = asking[r].map
  BY <1>1, <1>4 DEF RoadInv, ReadAgrees
<1>6. Resolved(r)
  BY <1>1, <1>3, <1>4, <1>5 DEF Resolved, RoadInv, ReadAgrees, TableKept
<1> QED  BY <1>2, <1>3, <1>6, HandedKept, AgreementKept

\* Reading again brings in what others wrote first.
LEMMA RereadAgrees ==
  ASSUME RoadInv, NEW r \in Resolver, RereadPairs(r)
  PROVE  RoadInv'
<1> DEFINE again == Reread(asking[r])
<1>1. asking' = [asking EXCEPT ![r] = [asking[r] EXCEPT !.step = "resolved", !.map = again]]
  BY DEF RereadPairs, Asking
<1>2. roadDistances' = roadDistances /\ handed' = handed
  BY DEF RereadPairs
<1>3. asking[r] # NotAsking
  BY DEF RereadPairs, NotAsking
<1>4. \A k \in DOMAIN asking[r].map : k \in Pairs /\ asking[r].map[k] = roadDistances[k]
  BY <1>3 DEF RoadInv, ReadAgrees
<1>5. \A k \in DOMAIN again : k \in Pairs /\ again[k] = roadDistances[k]
  <2> DEFINE rows == readPairs(asking[r].keys)
  <2>1. \A k \in DOMAIN rows : k \in Pairs /\ rows[k] = roadDistances[k]
    BY DEF readPairs
  <2>2. again = Merge(asking[r].map, rows)
    BY DEF Reread
  <2> DEFINE read == asking[r].map
  <2> HIDE DEF again, rows, read
  <2>3. DOMAIN Merge(read, rows) = DOMAIN read \cup DOMAIN rows
    BY MergeKeeps
  <2>4. \A k \in DOMAIN read : Merge(read, rows)[k] = read[k]
    BY MergeKeeps
  <2>5. \A k \in DOMAIN rows \ DOMAIN read : Merge(read, rows)[k] = rows[k]
    BY MergeKeeps
  <2>6. again = Merge(read, rows) /\ \A k \in DOMAIN read : k \in Pairs /\ read[k] = roadDistances[k]
    BY <1>4, <2>2 DEF read
  <2> QED  BY <2>1, <2>3, <2>4, <2>5, <2>6
<1> HIDE DEF again
<1>6. "map" \in DOMAIN asking'[r] /\ asking'[r].map = again
  BY <1>1, <1>3 DEF RoadInv, ReadAgrees
<1>7. Resolved(r)
  BY <1>1, <1>2, <1>5, <1>6 DEF Resolved, Pairs
<1> QED  BY <1>2, <1>7, SameTable, HandedKept, AgreementKept

\* What is handed out is what was read.
LEMMA AnswerAgrees ==
  ASSUME RoadInv, NEW r \in Resolver, Answer(r)
  PROVE  RoadInv'
<1>1. asking' = [asking EXCEPT ![r] = NotAsking]
  BY DEF Answer, Asking
<1>2. roadDistances' = roadDistances
  BY DEF Answer
<1>3. asking[r] # NotAsking
  BY DEF Answer, NotAsking
<1>4. \A k \in DOMAIN asking[r].map : k \in Pairs /\ asking[r].map[k] = roadDistances[k]
  BY <1>3 DEF RoadInv, ReadAgrees
<1>5. ASSUME NEW a \in handed'
      PROVE  a[1] \in Pairs /\ a[2] = roadDistances[a[1]]
  <2>1. CASE a \in handed
    BY <2>1 DEF RoadInv, HandedAgrees
  <2>2. CASE a \in {<<k, asking[r].map[k]>> : k \in DOMAIN asking[r].map}
    <3>1. PICK k \in DOMAIN asking[r].map : a = <<k, asking[r].map[k]>>
      BY <2>2
    <3> QED  BY <1>4, <3>1
  <2> QED  BY <2>1, <2>2 DEF Answer
<1>6. HandedAgrees'
  BY <1>2, <1>5 DEF HandedAgrees, Pairs
<1>7. Resolved(r)
  <2>1. asking'[r] = NotAsking
    BY <1>1 DEF RoadInv
  <2> QED  BY <1>1, <2>1 DEF Resolved
<1> QED  BY <1>2, <1>6, <1>7, SameTable, AgreementKept

\* A restart forgets the requests and keeps the table.
LEMMA DeployAgrees ==
  ASSUME RoadInv, Deploy
  PROVE  RoadInv'
BY DEF RoadInv, Deploy, ReadAgrees, HandedAgrees, Pairs

\* Whoever is handed the metres of a pair, in any order of requests, inserts, map
\* updates, failures and deployments, gets the value everyone else got, for any
\* pairs, maps and number of requests at once (road-routing.ts, ADR-031).
THEOREM PairsNeverChange == RoadsSpec => []PairValueForever
<1>1. RoadsInit => RoadInv
  BY DEF RoadsInit, RoadInv, ReadAgrees, HandedAgrees
<1>2. ASSUME RoadInv, [RoadsNext]_roadVars
      PROVE  RoadInv'
  <2>1. CASE UNCHANGED <<roadDistances, asking, handed>>
    BY <1>2, <2>1 DEF RoadInv, ReadAgrees, HandedAgrees, Pairs
  <2>2. CASE Deploy
    BY <1>2, <2>2, DeployAgrees
  <2>3. ASSUME NEW r \in Resolver, NEW use \in Uses, NEW keys \in SUBSET Pair \ {{}},
               Begin(r, use, keys)
        PROVE  RoadInv'
    BY <1>2, <2>3, BeginAgrees
  <2>4. ASSUME NEW r \in Resolver,
               Table(r) \/ TableFails(r) \/ Insert(r) \/ RereadPairs(r) \/ Answer(r)
        PROVE  RoadInv'
    BY <1>2, <2>4, TableAgrees, FailureAgrees, InsertAgrees, RereadAgrees, AnswerAgrees
  <2>5. \/ UNCHANGED <<roadDistances, asking, handed>>
        \/ Deploy
        \/ \E r \in Resolver :
             \/ \E use \in Uses, keys \in SUBSET Pair \ {{}} : Begin(r, use, keys)
             \/ Table(r) \/ TableFails(r) \/ Insert(r) \/ RereadPairs(r) \/ Answer(r)
    BY <1>2 DEF RoadsNext, roadVars, CreateWithoutRouter, MapUpdates
  <2> QED  BY <2>1, <2>2, <2>3, <2>4, <2>5
<1>3. RoadInv => PairValueForever
  BY DEF RoadInv, HandedAgrees, PairValueForever
<1> QED  BY <1>1, <1>2, <1>3, PTL DEF RoadsSpec

----------------------------------------------------------------------------
(* Wallet calls: a reply in the hands of the relay goes on saying something *)
(* true of the request it answers, however late it is delivered.           *)

Words == {Unpaid, "accepted", "settled", Cancelled, "expired"}
Truths == {"settled", "held", "cancelled", "expired", "open"}
Kinds == Methods \cup {"get_info"}
Request == [method : Kinds, encryption : {"nip44_v2", "nip04"},
            status : {"published", "paying", "served"}]
Waits == [step : {"waiting"}, id : Nat, method : Kinds, since : SUBSET Truths]

NwcType ==
  /\ invoice \in Words /\ pastExpiry \in BOOLEAN
  /\ requests \in Seq(Request)
  /\ calls \in [Call -> Waits \cup {Idle}]
  /\ connection \in {"none", "nip44_v2", "nip04"}
  /\ answers = [found |-> answers.found, done |-> answers.done]

\* A call waits for the reply to a request of its own.
CallAsked ==
  \A c \in Call : calls[c] # Idle =>
    calls[c].id \in DOMAIN requests /\ requests[calls[c].id].method = calls[c].method

\* A reply names a request; one that reports something done tells what is so for
\* good; the wallet only replies to what it can decrypt.
ReplyIsTrue(reply) ==
  /\ reply.to \in DOMAIN requests
  /\ reply.method = requests[reply.to].method
  /\ requests[reply.to].encryption \in Spoken
  /\ reply.says \in (IF reply.method = "lookup_invoice" THEN Words ELSE {"ok", "error"})
  /\ reply.method = "settle_hold_invoice" /\ reply.says = "ok" => invoice = "settled"
  /\ reply.method = "cancel_hold_invoice" /\ reply.says = "ok" => invoice = Cancelled

RepliesAreTrue == \A reply \in replies : ReplyIsTrue(reply)

\* Only a payment is under way at a wallet, that could decrypt it.
OnlyPaymentsPend ==
  \A i \in DOMAIN requests : requests[i].status = "paying" =>
    requests[i].method = "pay_invoice" /\ requests[i].encryption \in Spoken

\* What a lookup found was so while the call that waits for it was in flight, at a
\* moment when the expiry may not have passed yet.
LookupWitnessed ==
  \A reply \in replies, c \in Call :
    calls[c] # Idle /\ calls[c].id = reply.to /\ reply.method = "lookup_invoice" =>
      \E past \in BOOLEAN : (past => pastExpiry) /\ TruthOf(reply.says, past) \in calls[c].since

SpokenConnection == connection = "none" \/ connection \in Spoken

NwcInv ==
  /\ NwcType /\ CallAsked /\ RepliesAreTrue /\ OnlyPaymentsPend
  /\ LookupWitnessed /\ SpokenConnection /\ AnswersAreTrue

\* What the client makes of the word of a wallet is what has happened to the
\* invoice; or that it has lapsed, for one still unpaid before its expiry.
LEMMA WordsAreRead ==
  ASSUME WordsAreKnown, NEW word \in Words, NEW past \in BOOLEAN, NEW now \in BOOLEAN,
         past => now
  PROVE  \/ mapInvoiceState(word, now) = TruthOf(word, past)
         \/ mapInvoiceState(word, now) = "expired" /\ now /\ TruthOf(word, past) = "open"
<1>1. CASE word = Unpaid
  BY <1>1 DEF WordsAreKnown, mapInvoiceState, TruthOf
<1>2. CASE word = Cancelled
  BY <1>2 DEF WordsAreKnown, mapInvoiceState, TruthOf
<1>3. CASE word \in {"accepted", "settled", "expired"}
  BY <1>3 DEF WordsAreKnown, mapInvoiceState, TruthOf
<1> QED  BY <1>1, <1>2, <1>3 DEF Words

\* Every word has a meaning.
LEMMA WordsMean ==
  ASSUME WordsAreKnown, NEW word \in Words, NEW past \in BOOLEAN
  PROVE  TruthOf(word, past) \in Truths
BY DEF WordsAreKnown, TruthOf, Truths, Words

\* The fields of a call that sees the states the invoice goes through.
LEMMA WitnessedCalls ==
  ASSUME NwcType, NEW now \in Truths, Witnessed(now)
  PROVE  /\ calls' \in [Call -> Waits \cup {Idle}]
         /\ \A c \in Call : calls'[c] # Idle =>
              /\ calls[c] # Idle
              /\ calls'[c].id = calls[c].id /\ calls'[c].method = calls[c].method
              /\ calls'[c].since = calls[c].since \cup {now}
<1>1. ASSUME NEW c \in Call, calls[c] # Idle
      PROVE  /\ calls'[c] \in Waits
             /\ calls'[c].id = calls[c].id /\ calls'[c].method = calls[c].method
             /\ calls'[c].since = calls[c].since \cup {now}
  <2>1. calls[c] \in Waits
    BY <1>1 DEF NwcType
  <2>2. calls'[c] = [calls[c] EXCEPT !.since = @ \cup {now}]
    BY <1>1 DEF Witnessed
  <2> QED  BY <2>1, <2>2 DEF Waits
<1>2. ASSUME NEW c \in Call, calls[c] = Idle
      PROVE  calls'[c] = Idle
  BY <1>2 DEF Witnessed
<1>3. calls' = [c \in Call |-> calls'[c]]
  BY DEF Witnessed
<1> QED  BY <1>1, <1>2, <1>3

\* What every step leaves of the requests, the invoice and time.
NothingUndone ==
  /\ \A i \in DOMAIN requests :
       /\ i \in DOMAIN requests'
       /\ requests'[i].method = requests[i].method
       /\ requests'[i].encryption = requests[i].encryption
  /\ invoice = "settled" => invoice' = "settled"
  /\ invoice = Cancelled => invoice' = Cancelled
  /\ pastExpiry => pastExpiry'

\* A true reply stays true.
LEMMA TruthLasts ==
  ASSUME NothingUndone, NEW reply, ReplyIsTrue(reply)
  PROVE  ReplyIsTrue(reply)'
BY DEF NothingUndone, ReplyIsTrue

\* So do the answers, while the connection stays.
LEMMA AnswersLast ==
  ASSUME NothingUndone, AnswersAreTrue, answers' = answers, connection' = connection
  PROVE  AnswersAreTrue'
BY DEF NothingUndone, AnswersAreTrue

\* Replies that were there stay true when requests and calls go on: a call still
\* waits for the request it waited for, or for a new one, and forgets nothing.
LEMMA LookupsLast ==
  ASSUME NwcInv, NothingUndone, replies' = replies,
         \A c \in Call : calls'[c] # Idle =>
           \/ /\ calls[c] # Idle /\ calls'[c].id = calls[c].id
              /\ calls[c].since \subseteq calls'[c].since
           \/ calls'[c].id \notin DOMAIN requests
  PROVE  RepliesAreTrue' /\ LookupWitnessed'
<1>1. RepliesAreTrue'
  BY TruthLasts DEF NwcInv, RepliesAreTrue
<1>2. LookupWitnessed'
  <2> SUFFICES ASSUME NEW reply \in replies, NEW c \in Call, calls'[c] # Idle,
                      calls'[c].id = reply.to, reply.method = "lookup_invoice"
               PROVE  \E past \in BOOLEAN : /\ past => pastExpiry'
                                            /\ TruthOf(reply.says, past) \in calls'[c].since
    BY DEF LookupWitnessed, Idle, TruthOf
  <2>1. reply.to \in DOMAIN requests
    BY DEF NwcInv, RepliesAreTrue, ReplyIsTrue
  <2>2. calls[c] # Idle /\ calls'[c].id = calls[c].id /\ calls[c].since \subseteq calls'[c].since
    BY <2>1
  <2>3. PICK past \in BOOLEAN : (past => pastExpiry) /\ TruthOf(reply.says, past) \in calls[c].since
    BY <2>2 DEF NwcInv, LookupWitnessed
  <2> QED  BY <2>2, <2>3 DEF NothingUndone
<1> QED  BY <1>1, <1>2

\* A request is signed and its reply waited for (nwc.ts).
LEMMA SignedIsTrue ==
  ASSUME NwcInv, WordsAreKnown, NEW c \in Call, NEW method \in Kinds,
         NEW encryption \in {"nip44_v2", "nip04"}, Signed(c, method, encryption)
  PROVE  NwcInv'
<1> DEFINE request == [method |-> method, encryption |-> encryption, status |-> "published"]
           wait == [step |-> "waiting", id |-> Len(requests'), method |-> method, since |-> {Truth}]
<1>1. /\ requests' = Append(requests, request)
      /\ calls' = [calls EXCEPT ![c] = wait]
      /\ UNCHANGED <<invoice, pastExpiry, replies, connection, answers>>
  BY DEF Signed
<1>2. request \in Request
  BY DEF Request
<1> HIDE DEF request
<1>3. requests \in Seq(Request) /\ requests' \in Seq(Request)
  BY <1>1, <1>2 DEF NwcInv, NwcType
<1>4. /\ Len(requests') = Len(requests) + 1
      /\ Len(requests') \notin DOMAIN requests /\ Len(requests') \in DOMAIN requests'
      /\ requests'[Len(requests')] = request
      /\ \A i \in DOMAIN requests' : i # Len(requests') => i \in DOMAIN requests
      /\ \A i \in DOMAIN requests : i \in DOMAIN requests' /\ requests'[i] = requests[i]
  BY <1>1, <1>3
<1>5. Truth \in Truths
  BY WordsMean DEF Truth, NwcInv, NwcType
<1>6. wait \in Waits
  BY <1>3, <1>5 DEF Waits
<1>7. wait.id = Len(requests') /\ wait.method = method
  OBVIOUS
<1> HIDE DEF wait
<1>8. calls' \in [Call -> Waits \cup {Idle}] /\ calls'[c] = wait
      /\ \A d \in Call : d # c => calls'[d] = calls[d]
  BY <1>1, <1>6 DEF NwcInv, NwcType
<1>9. NothingUndone
  BY <1>1, <1>4 DEF NothingUndone
<1>10. NwcType'
  BY <1>1, <1>3, <1>8 DEF NwcInv, NwcType
<1>11. CallAsked'
  <2>1. request.method = method
    BY DEF request
  <2>2. ASSUME NEW d \in Call, calls'[d] # Idle
        PROVE  calls'[d].id \in DOMAIN requests' /\ requests'[calls'[d].id].method = calls'[d].method
    <3>1. CASE d = c
      BY <2>1, <3>1, <1>4, <1>7, <1>8
    <3>2. CASE d # c
      BY <2>2, <3>2, <1>4, <1>8 DEF NwcInv, CallAsked
    <3> QED  BY <3>1, <3>2
  <2> QED  BY <2>2 DEF CallAsked, Idle
<1>12. RepliesAreTrue' /\ LookupWitnessed'
  <2>1. ASSUME NEW d \in Call, calls'[d] # Idle
        PROVE  \/ /\ calls[d] # Idle /\ calls'[d].id = calls[d].id
                  /\ calls[d].since \subseteq calls'[d].since
               \/ calls'[d].id \notin DOMAIN requests
    <3>1. CASE d = c
      BY <3>1, <1>4, <1>7, <1>8
    <3>2. CASE d # c
      BY <2>1, <3>2, <1>8
    <3> QED  BY <3>1, <3>2
  <2> QED  BY <1>1, <1>9, <2>1, LookupsLast
<1>13. OnlyPaymentsPend'
  <2>1. request.status = "published"
    BY DEF request
  <2>2. \A i \in DOMAIN requests' : requests'[i].status = "paying" =>
          i \in DOMAIN requests /\ requests'[i] = requests[i]
    BY <1>4, <2>1
  <2> QED  BY <2>2 DEF NwcInv, OnlyPaymentsPend
<1>14. SpokenConnection' /\ AnswersAreTrue'
  BY <1>1, <1>9, AnswersLast DEF NwcInv, SpokenConnection
<1> QED  BY <1>10, <1>11, <1>12, <1>13, <1>14 DEF NwcInv

\* A call that ends forgets what it waited for.
LEMMA EndedCalls ==
  ASSUME NwcInv, NEW c \in Call, calls' = [calls EXCEPT ![c] = Idle],
         UNCHANGED <<invoice, pastExpiry, requests, replies>>
  PROVE  /\ calls' \in [Call -> Waits \cup {Idle}]
         /\ CallAsked' /\ RepliesAreTrue' /\ LookupWitnessed' /\ OnlyPaymentsPend'
<1>1. calls' \in [Call -> Waits \cup {Idle}]
  BY DEF NwcInv, NwcType
<1>2. \A d \in Call : calls'[d] # Idle => calls[d] # Idle /\ calls'[d] = calls[d]
  BY DEF NwcInv, NwcType
<1>3. NothingUndone
  BY DEF NothingUndone
<1>4. CallAsked'
  BY <1>2 DEF NwcInv, CallAsked, Idle
<1>5. RepliesAreTrue' /\ LookupWitnessed'
  BY <1>2, <1>3, LookupsLast
<1>6. OnlyPaymentsPend'
  BY DEF NwcInv, OnlyPaymentsPend
<1> QED  BY <1>1, <1>4, <1>5, <1>6

\* The reply that is taken is the wallet's to this very request; what is made of it
\* is true, and of a probe it tells the encryption (roundTrip, probeNwcWallet).
LEMMA ReplyIsTaken ==
  ASSUME NwcInv, WordsAreKnown, NEW c \in Call, ReplyArrives(c)
  PROVE  NwcInv'
<1>1. PICK reply \in replies :
        /\ reply.to = calls[c].id
        /\ Ends(c, IF reply.method = "lookup_invoice" THEN mapInvoiceState(reply.says, pastExpiry)
                   ELSE reply.says)
        /\ connection' = IF calls[c].method = "get_info" /\ connection = "none"
                         THEN requests[reply.to].encryption ELSE connection
  BY DEF ReplyArrives, matchesFilter, verifyEvent, Forged
<1> DEFINE answer == IF reply.method = "lookup_invoice" THEN mapInvoiceState(reply.says, pastExpiry)
                     ELSE reply.says
<1>2. /\ calls[c] # Idle
      /\ UNCHANGED <<invoice, pastExpiry, requests, replies>>
      /\ calls' = [calls EXCEPT ![c] = Idle]
      /\ answers' = IF answer = "error" THEN answers
                    ELSE IF calls[c].method = "lookup_invoice"
                    THEN [answers EXCEPT !.found = [says |-> answer, since |-> calls[c].since]]
                    ELSE [answers EXCEPT !.done = @ \cup {calls[c].method}]
  BY <1>1 DEF ReplyArrives, Ends
<1> HIDE DEF answer
<1>3. ReplyIsTrue(reply) /\ calls[c].method = reply.method
  BY <1>1, <1>2 DEF NwcInv, RepliesAreTrue, ReplyIsTrue, CallAsked
<1>4. /\ calls' \in [Call -> Waits \cup {Idle}]
      /\ CallAsked' /\ RepliesAreTrue' /\ LookupWitnessed' /\ OnlyPaymentsPend'
  BY <1>2, EndedCalls
<1>5. /\ requests[reply.to].encryption \in {"nip44_v2", "nip04"}
      /\ requests[reply.to].encryption \in Spoken
  <2>1. requests[reply.to] \in Request
    BY <1>3 DEF NwcInv, NwcType, ReplyIsTrue
  <2> QED  BY <2>1, <1>3 DEF Request, ReplyIsTrue
<1>6. /\ connection' \in {"none", "nip44_v2", "nip04"} /\ SpokenConnection'
      /\ connection' = connection \/ connection' \in Spoken
      /\ calls[c].method = "get_info" => connection' \in Spoken
  BY <1>1, <1>5 DEF NwcInv, NwcType, SpokenConnection
<1>7. answers = [found |-> answers.found, done |-> answers.done]
  BY DEF NwcInv, NwcType
<1>8. /\ answers'.found = answers.found
         \/ /\ calls[c].method = "lookup_invoice"
            /\ answers'.found = [says |-> answer, since |-> calls[c].since]
      /\ answers'.done = answers.done
         \/ /\ calls[c].method # "lookup_invoice" /\ answer # "error"
            /\ answers'.done = answers.done \cup {calls[c].method}
      /\ answers' = [found |-> answers'.found, done |-> answers'.done]
  <2>1. CASE answer = "error"
    BY <2>1, <1>2, <1>7
  <2>2. CASE answer # "error" /\ calls[c].method = "lookup_invoice"
    <3>1. answers' = [answers EXCEPT !.found = [says |-> answer, since |-> calls[c].since]]
      BY <2>2, <1>2
    <3> QED  BY <2>2, <3>1, <1>7
  <2>3. CASE answer # "error" /\ calls[c].method # "lookup_invoice"
    <3>1. answers' = [answers EXCEPT !.done = @ \cup {calls[c].method}]
      BY <2>3, <1>2
    <3> QED  BY <2>3, <3>1, <1>7
  <2> QED  BY <2>1, <2>2, <2>3
<1>9. calls[c].method = "lookup_invoice" =>
        \/ answer \in calls[c].since
        \/ answer = "expired" /\ pastExpiry /\ "open" \in calls[c].since
  <2> SUFFICES ASSUME calls[c].method = "lookup_invoice"
               PROVE  \/ answer \in calls[c].since
                      \/ answer = "expired" /\ pastExpiry /\ "open" \in calls[c].since
    OBVIOUS
  <2>1. answer = mapInvoiceState(reply.says, pastExpiry) /\ reply.says \in Words
    BY <1>3 DEF answer, ReplyIsTrue
  <2>2. PICK past \in BOOLEAN : (past => pastExpiry)
                                /\ TruthOf(reply.says, past) \in calls[c].since
    BY <1>1, <1>2, <1>3 DEF NwcInv, LookupWitnessed
  <2>3. pastExpiry \in BOOLEAN
    BY DEF NwcInv, NwcType
  <2>4. \/ mapInvoiceState(reply.says, pastExpiry) = TruthOf(reply.says, past)
        \/ /\ mapInvoiceState(reply.says, pastExpiry) = "expired" /\ pastExpiry
           /\ TruthOf(reply.says, past) = "open"
    BY <2>1, <2>2, <2>3, WordsAreRead
  <2> QED  BY <2>1, <2>2, <2>4
<1>10. calls[c].method # "lookup_invoice" /\ answer # "error" =>
         /\ calls[c].method = "settle_hold_invoice" => invoice = "settled"
         /\ calls[c].method = "cancel_hold_invoice" => invoice = Cancelled
  BY <1>3 DEF answer, ReplyIsTrue
<1>11. AnswersAreTrue'
  <2>1. \/ answers'.found.says = "nothing" \/ answers'.found.says \in answers'.found.since
        \/ answers'.found.says = "expired" /\ pastExpiry' /\ "open" \in answers'.found.since
    BY <1>2, <1>8, <1>9 DEF NwcInv, AnswersAreTrue
  <2>2. "settle_hold_invoice" \in answers'.done => invoice' = "settled"
    BY <1>2, <1>8, <1>10 DEF NwcInv, AnswersAreTrue
  <2>3. "cancel_hold_invoice" \in answers'.done => invoice' = Cancelled
    BY <1>2, <1>8, <1>10 DEF NwcInv, AnswersAreTrue
  <2>4. "get_info" \in answers'.done => connection' \in Spoken
    BY <1>6, <1>8 DEF NwcInv, AnswersAreTrue
  <2> QED  BY <2>1, <2>2, <2>3, <2>4 DEF AnswersAreTrue
<1>12. NwcType'
  BY <1>2, <1>4, <1>6, <1>8 DEF NwcInv, NwcType
<1> QED  BY <1>4, <1>6, <1>11, <1>12 DEF NwcInv

\* A call that fails changes nothing, but for a probe that asks once more, under the
\* other scheme, with a request of its own (nwc.ts).
LEMMA FailureIsTrue ==
  ASSUME NwcInv, NEW c \in Call, CallFails(c)
  PROVE  NwcInv'
<1>1. CASE Ends(c, "error") /\ requests' = requests
  <2>1. /\ calls' = [calls EXCEPT ![c] = Idle] /\ answers' = answers
        /\ UNCHANGED <<invoice, pastExpiry, requests, replies, connection>>
    BY <1>1 DEF CallFails, Ends
  <2>2. /\ calls' \in [Call -> Waits \cup {Idle}]
        /\ CallAsked' /\ RepliesAreTrue' /\ LookupWitnessed' /\ OnlyPaymentsPend'
    BY <2>1, EndedCalls
  <2>3. NothingUndone
    BY <2>1 DEF NothingUndone
  <2>4. NwcType'
    BY <2>1, <2>2 DEF NwcInv, NwcType
  <2> QED  BY <2>1, <2>2, <2>3, <2>4, AnswersLast DEF NwcInv, SpokenConnection
<1>2. CASE calls[c].method = "get_info" /\ requests' # requests
  <2> DEFINE request == [method |-> "get_info", encryption |-> "nip04", status |-> "published"]
             wait == [calls[c] EXCEPT !.id = Len(requests')]
  <2>1. /\ requests' = Append(requests, request) /\ calls[c] # Idle
        /\ calls' = [calls EXCEPT ![c] = wait]
        /\ UNCHANGED <<invoice, pastExpiry, replies, connection, answers>>
    BY <1>2 DEF CallFails
  <2>2. request \in Request /\ request.method = "get_info" /\ request.status = "published"
    BY DEF Request, Kinds
  <2> HIDE DEF request
  <2>3. requests \in Seq(Request) /\ requests' \in Seq(Request)
    BY <2>1, <2>2 DEF NwcInv, NwcType
  <2>4. /\ Len(requests') \in Nat
        /\ Len(requests') \notin DOMAIN requests /\ Len(requests') \in DOMAIN requests'
        /\ requests'[Len(requests')] = request
        /\ \A i \in DOMAIN requests' : i # Len(requests') => i \in DOMAIN requests
        /\ \A i \in DOMAIN requests : i \in DOMAIN requests' /\ requests'[i] = requests[i]
    BY <2>1, <2>3
  <2>5. calls[c] \in Waits
    BY <2>1 DEF NwcInv, NwcType
  <2>6. wait \in Waits /\ wait.id = Len(requests') /\ wait.method = "get_info"
    BY <1>2, <2>4, <2>5 DEF Waits
  <2> HIDE DEF wait
  <2>7. calls' \in [Call -> Waits \cup {Idle}] /\ calls'[c] = wait
        /\ \A d \in Call : d # c => calls'[d] = calls[d]
    BY <2>1, <2>6 DEF NwcInv, NwcType
  <2>8. NothingUndone
    BY <2>1, <2>4 DEF NothingUndone
  <2>9. NwcType'
    BY <2>1, <2>3, <2>7 DEF NwcInv, NwcType
  <2>10. CallAsked'
    <3> SUFFICES ASSUME NEW d \in Call, calls'[d] # Idle
                 PROVE  /\ calls'[d].id \in DOMAIN requests'
                        /\ requests'[calls'[d].id].method = calls'[d].method
      BY DEF CallAsked, Idle
    <3>1. CASE d = c
      BY <3>1, <2>2, <2>4, <2>6, <2>7
    <3>2. CASE d # c
      BY <3>2, <2>4, <2>7 DEF NwcInv, CallAsked
    <3> QED  BY <3>1, <3>2
  <2>11. RepliesAreTrue' /\ LookupWitnessed'
    <3>1. ASSUME NEW d \in Call, calls'[d] # Idle
          PROVE  \/ /\ calls[d] # Idle /\ calls'[d].id = calls[d].id
                    /\ calls[d].since \subseteq calls'[d].since
                 \/ calls'[d].id \notin DOMAIN requests
      <4>1. CASE d = c
        BY <4>1, <2>4, <2>6, <2>7
      <4>2. CASE d # c
        BY <3>1, <4>2, <2>7
      <4> QED  BY <4>1, <4>2
    <3> QED  BY <2>1, <2>8, <3>1, LookupsLast
  <2>12. OnlyPaymentsPend'
    <3>1. \A i \in DOMAIN requests' : requests'[i].status = "paying" =>
            i \in DOMAIN requests /\ requests'[i] = requests[i]
      BY <2>2, <2>4
    <3> QED  BY <3>1 DEF NwcInv, OnlyPaymentsPend
  <2> QED  BY <2>1, <2>8, <2>9, <2>10, <2>11, <2>12, AnswersLast DEF NwcInv, SpokenConnection
<1> QED  BY <1>1, <1>2 DEF CallFails

\* The invoice moves on, and every call in flight sees where to; nothing is signed,
\* replied or answered.
LEMMA SeenIsTrue ==
  ASSUME NwcInv, NothingUndone, NEW now \in Truths, Witnessed(now),
         invoice' \in Words, pastExpiry' \in BOOLEAN,
         UNCHANGED <<requests, replies, connection, answers>>
  PROVE  NwcInv'
<1>1. /\ calls' \in [Call -> Waits \cup {Idle}]
      /\ \A c \in Call : calls'[c] # Idle =>
           /\ calls[c] # Idle
           /\ calls'[c].id = calls[c].id /\ calls'[c].method = calls[c].method
           /\ calls'[c].since = calls[c].since \cup {now}
  BY WitnessedCalls DEF NwcInv
<1>2. NwcType'
  BY <1>1 DEF NwcInv, NwcType
<1>3. CallAsked'
  BY <1>1 DEF NwcInv, CallAsked, Idle
<1>4. RepliesAreTrue' /\ LookupWitnessed'
  BY <1>1, LookupsLast
<1>5. OnlyPaymentsPend' /\ SpokenConnection' /\ AnswersAreTrue'
  BY AnswersLast DEF NwcInv, OnlyPaymentsPend, SpokenConnection
<1> QED  BY <1>2, <1>3, <1>4, <1>5 DEF NwcInv

\* Time passes and holds die: an invoice that is over stays as it ended.
LEMMA TimeIsTrue ==
  ASSUME NwcInv, WordsAreKnown, ExpiryPasses \/ WalletExpires \/ HoldDies
  PROVE  NwcInv'
<1>1. Cancelled # "settled" /\ Unpaid # "settled" /\ Unpaid # Cancelled /\ Cancelled # "accepted"
  BY DEF WordsAreKnown
<1>2. CASE ExpiryPasses
  <2>1. TruthOf(invoice, TRUE) \in Truths
    BY WordsMean DEF NwcInv, NwcType
  <2>2. NothingUndone /\ invoice' \in Words /\ pastExpiry' \in BOOLEAN
    BY <1>2 DEF ExpiryPasses, NothingUndone, NwcInv, NwcType
  <2> QED  BY <1>2, <2>1, <2>2, SeenIsTrue DEF ExpiryPasses
<1>3. CASE WalletExpires
  <2>1. NothingUndone /\ invoice' \in Words /\ pastExpiry' \in BOOLEAN
    BY <1>1, <1>3 DEF WalletExpires, NothingUndone, NwcInv, NwcType, Words
  <2>2. "expired" \in Truths
    BY DEF Truths
  <2> QED  BY <1>3, <2>1, <2>2, SeenIsTrue DEF WalletExpires
<1>4. CASE HoldDies
  <2>1. NothingUndone /\ invoice' \in Words /\ pastExpiry' \in BOOLEAN
    BY <1>1, <1>4 DEF HoldDies, NothingUndone, NwcInv, NwcType, Words
  <2>2. "cancelled" \in Truths
    BY DEF Truths
  <2> QED  BY <1>4, <2>1, <2>2, SeenIsTrue DEF HoldDies
<1> QED  BY <1>2, <1>3, <1>4

\* The status of a request changes: it is the same request, and only a payment waits.
LEMMA StatusOnly ==
  ASSUME NwcInv, NEW i \in DOMAIN requests, NEW status \in {"paying", "served"},
         Served(i, status),
         status = "paying" => requests[i].method = "pay_invoice" /\ requests[i].encryption \in Spoken
  PROVE  /\ requests' \in Seq(Request) /\ DOMAIN requests' = DOMAIN requests
         /\ \A j \in DOMAIN requests :
              /\ requests'[j].method = requests[j].method
              /\ requests'[j].encryption = requests[j].encryption
         /\ OnlyPaymentsPend'
<1> DEFINE request == [requests[i] EXCEPT !.status = status]
<1>1. requests \in Seq(Request) /\ requests[i] \in Request
  BY DEF NwcInv, NwcType
<1>2. /\ request \in Request
      /\ request.method = requests[i].method
      /\ request.encryption = requests[i].encryption
      /\ request.status = status
  BY <1>1 DEF Request
<1>3. requests' = [requests EXCEPT ![i] = request]
  BY DEF Served
<1> HIDE DEF request
<1>4. requests' \in Seq(Request) /\ DOMAIN requests' = DOMAIN requests
  BY <1>1, <1>2, <1>3
<1>5. requests'[i] = request /\ \A j \in DOMAIN requests : j # i => requests'[j] = requests[j]
  BY <1>1, <1>3
<1>6. OnlyPaymentsPend'
  <2> SUFFICES ASSUME NEW j \in DOMAIN requests, requests'[j].status = "paying"
               PROVE  requests'[j].method = "pay_invoice" /\ requests'[j].encryption \in Spoken
    BY <1>4 DEF OnlyPaymentsPend
  <2>1. CASE j = i
    BY <1>2, <1>5, <2>1
  <2>2. CASE j # i
    BY <1>5, <2>2 DEF NwcInv, OnlyPaymentsPend
  <2> QED  BY <2>1, <2>2
<1> QED  BY <1>2, <1>4, <1>5, <1>6

\* A request at the wallet is served: the calls in flight see what becomes of the
\* invoice, what the reply says is so, and a payment that is taken waits.
LEMMA WalletIsTrue ==
  ASSUME NwcInv, NothingUndone,
         requests' \in Seq(Request), DOMAIN requests' = DOMAIN requests, OnlyPaymentsPend',
         invoice' \in Words, UNCHANGED <<pastExpiry, connection, answers>>,
         NEW now \in Truths, Witnessed(now) \/ calls' = calls,
         \A reply \in replies' : reply \notin replies =>
           /\ ReplyIsTrue(reply)'
           /\ reply.method = "lookup_invoice" =>
                /\ Witnessed(now)
                /\ \E past \in BOOLEAN : (past => pastExpiry) /\ TruthOf(reply.says, past) = now
  PROVE  NwcInv'
<1>1. /\ calls' \in [Call -> Waits \cup {Idle}]
      /\ \A c \in Call : calls'[c] # Idle =>
           /\ calls[c] # Idle
           /\ calls'[c].id = calls[c].id /\ calls'[c].method = calls[c].method
           /\ calls[c].since \subseteq calls'[c].since
           /\ Witnessed(now) => now \in calls'[c].since
  <2>1. CASE Witnessed(now)
    BY <2>1, WitnessedCalls DEF NwcInv
  <2>2. CASE ~Witnessed(now)
    BY <2>2 DEF NwcInv, NwcType
  <2> QED  BY <2>1, <2>2
<1>2. NwcType'
  BY <1>1 DEF NwcInv, NwcType
<1>3. CallAsked'
  BY <1>1 DEF NwcInv, CallAsked, Idle, NothingUndone
<1>4. RepliesAreTrue'
  <2>1. \A r \in replies : ReplyIsTrue(r)'
    BY TruthLasts DEF NwcInv, RepliesAreTrue
  <2> QED  BY <2>1 DEF RepliesAreTrue
<1>5. LookupWitnessed'
  <2> SUFFICES ASSUME NEW r \in replies', NEW c \in Call, calls'[c] # Idle,
                      calls'[c].id = r.to, r.method = "lookup_invoice"
               PROVE  \E past \in BOOLEAN : /\ past => pastExpiry'
                                            /\ TruthOf(r.says, past) \in calls'[c].since
    BY DEF LookupWitnessed, Idle, TruthOf
  <2>1. CASE r \in replies
    <3>1. PICK past \in BOOLEAN : (past => pastExpiry) /\ TruthOf(r.says, past) \in calls[c].since
      BY <1>1, <2>1 DEF NwcInv, LookupWitnessed
    <3> QED  BY <1>1, <3>1
  <2>2. CASE r \notin replies
    <3>1. PICK past \in BOOLEAN : (past => pastExpiry) /\ TruthOf(r.says, past) = now
      BY <2>2
    <3> QED  BY <1>1, <2>2, <3>1
  <2> QED  BY <2>1, <2>2
<1>6. SpokenConnection' /\ AnswersAreTrue'
  BY AnswersLast DEF NwcInv, SpokenConnection
<1> QED  BY <1>2, <1>3, <1>4, <1>5, <1>6 DEF NwcInv

\* WalletServes: what it pays, settles and cancels it could; what is over it leaves.
LEMMA ServingIsTrue ==
  ASSUME NwcInv, WordsAreKnown, NEW i \in DOMAIN requests, WalletServes(i)
  PROVE  NwcInv'
<1> DEFINE m == requests[i].method
           says == CASE m = "lookup_invoice" -> invoice
                     [] m = "get_info" \/ invoice' # invoice -> "ok"
                     [] OTHER -> "error"
<1> PICK reply : reply = [to |-> i, method |-> m, says |-> says, signed |-> TRUE]
  OBVIOUS
<1> PICK now : now = TruthOf(invoice', pastExpiry)
  OBVIOUS
<1>1. m \in Kinds /\ invoice \in Words /\ pastExpiry \in BOOLEAN
  <2>1. requests[i] \in Request
    BY DEF NwcInv, NwcType
  <2> QED  BY <2>1 DEF Request, NwcInv, NwcType
<1>2. /\ requests[i].encryption \in Spoken
      /\ invoice' = CASE m = "pay_invoice" /\ Truth = "open" -> "accepted"
                      [] m = "settle_hold_invoice" /\ invoice = "accepted" -> "settled"
                      [] m = "cancel_hold_invoice" /\ invoice \in {Unpaid, "accepted"} -> Cancelled
                      [] OTHER -> invoice
      /\ UNCHANGED <<pastExpiry, connection, answers>>
  BY DEF WalletServes
<1>3. Witnessed(now)
  BY <1>2 DEF WalletServes
<1>4. \/ m = "pay_invoice" /\ Served(i, "paying") /\ replies' = replies
      \/ Served(i, "served") /\ replies' = replies \cup {reply}
  BY <1>2 DEF WalletServes, Reply
<1>5. Truth = "open" => invoice = Unpaid
  BY <1>1 DEF Truth, TruthOf, WordsAreKnown, Words
<1>6. /\ invoice' \in Words
      /\ invoice = "settled" => invoice' = "settled"
      /\ invoice = Cancelled => invoice' = Cancelled
      /\ m = "lookup_invoice" \/ m = "get_info" => invoice' = invoice
      /\ m = "settle_hold_invoice" /\ invoice' # invoice => invoice' = "settled"
      /\ m = "cancel_hold_invoice" /\ invoice' # invoice => invoice' = Cancelled
  <2>1. Cancelled # "settled" /\ Unpaid # "settled" /\ Unpaid # Cancelled /\ Cancelled # "accepted"
    BY DEF WordsAreKnown
  <2>2. CASE m = "pay_invoice" /\ Truth = "open"
    BY <1>2, <1>5, <2>1, <2>2 DEF Words
  <2>3. CASE m = "settle_hold_invoice" /\ invoice = "accepted"
    BY <1>2, <2>1, <2>3 DEF Words
  <2>4. CASE m = "cancel_hold_invoice" /\ invoice \in {Unpaid, "accepted"}
    BY <1>2, <2>1, <2>4 DEF Words
  <2>5. CASE /\ ~(m = "pay_invoice" /\ Truth = "open")
             /\ ~(m = "settle_hold_invoice" /\ invoice = "accepted")
             /\ ~(m = "cancel_hold_invoice" /\ invoice \in {Unpaid, "accepted"})
    <3>1. invoice' = invoice
      BY <1>2, <2>5
    <3> QED  BY <1>1, <3>1
  <2> QED  BY <2>2, <2>3, <2>4, <2>5
<1>7. now \in Truths
  BY <1>1, <1>6, WordsMean
<1>8. /\ says \in (IF m = "lookup_invoice" THEN Words ELSE {"ok", "error"})
      /\ m = "settle_hold_invoice" /\ says = "ok" => invoice' = "settled"
      /\ m = "cancel_hold_invoice" /\ says = "ok" => invoice' = Cancelled
      /\ m = "lookup_invoice" => TruthOf(says, pastExpiry) = now
  <2>1. CASE m = "lookup_invoice"
    BY <1>1, <1>6, <2>1
  <2>2. CASE m # "lookup_invoice" /\ (m = "get_info" \/ invoice' # invoice)
    <3>1. says = "ok"
      BY <2>2
    <3> QED  BY <1>6, <2>2, <3>1
  <2>3. CASE m # "lookup_invoice" /\ ~(m = "get_info" \/ invoice' # invoice)
    <3>1. says = "error"
      BY <2>3
    <3> QED  BY <2>3, <3>1
  <2> QED  BY <2>1, <2>2, <2>3
<1>9. reply.to = i /\ reply.method = m /\ reply.says = says
  OBVIOUS
<1> HIDE DEF says
<1>10. /\ requests' \in Seq(Request) /\ DOMAIN requests' = DOMAIN requests
       /\ NothingUndone /\ OnlyPaymentsPend'
  <2>1. PICK status \in {"paying", "served"} :
          Served(i, status) /\ (status = "paying" => m = "pay_invoice")
    BY <1>4
  <2>2. /\ requests' \in Seq(Request) /\ DOMAIN requests' = DOMAIN requests
        /\ \A j \in DOMAIN requests :
             /\ requests'[j].method = requests[j].method
             /\ requests'[j].encryption = requests[j].encryption
        /\ OnlyPaymentsPend'
    BY <1>2, <2>1, StatusOnly
  <2> QED  BY <1>2, <1>6, <2>2 DEF NothingUndone
<1>11. ReplyIsTrue(reply)'
  BY <1>2, <1>8, <1>9, <1>10 DEF ReplyIsTrue, NothingUndone
<1>12. reply.method = "lookup_invoice" =>
         \E past \in BOOLEAN : (past => pastExpiry) /\ TruthOf(reply.says, past) = now
  BY <1>1, <1>8, <1>9
<1>13. \A r \in replies' : r \notin replies => r = reply
  BY <1>4
<1> QED  BY <1>2, <1>3, <1>6, <1>7, <1>10, <1>11, <1>12, <1>13, WalletIsTrue

\* PaymentEnds: the wallet of the payer answers when the hold is over.
LEMMA PaymentIsTrue ==
  ASSUME NwcInv, NEW i \in DOMAIN requests, PaymentEnds(i), WordsAreKnown
  PROVE  NwcInv'
<1> PICK reply : reply = [to |-> i, method |-> requests[i].method,
                          says |-> IF invoice = "settled" THEN "ok" ELSE "error", signed |-> TRUE]
  OBVIOUS
<1>1. /\ Served(i, "served") /\ replies' = replies \cup {reply}
      /\ UNCHANGED <<invoice, pastExpiry, calls, connection, answers>>
  BY DEF PaymentEnds, Reply
<1>2. requests[i].method = "pay_invoice"
  BY DEF PaymentEnds, NwcInv, OnlyPaymentsPend
<1>3. /\ requests' \in Seq(Request) /\ DOMAIN requests' = DOMAIN requests
      /\ \A j \in DOMAIN requests :
           /\ requests'[j].method = requests[j].method
           /\ requests'[j].encryption = requests[j].encryption
      /\ OnlyPaymentsPend'
  BY <1>1, <1>2, StatusOnly
<1>4. NothingUndone
  BY <1>1, <1>3 DEF NothingUndone
<1>5. reply.to = i /\ reply.method = "pay_invoice" /\ reply.says \in {"ok", "error"}
  BY <1>2
<1>6. requests[i].encryption \in Spoken
  BY DEF PaymentEnds, NwcInv, OnlyPaymentsPend
<1>7. ReplyIsTrue(reply)'
  BY <1>2, <1>3, <1>5, <1>6 DEF ReplyIsTrue
<1>8. reply.method # "lookup_invoice" /\ "open" \in Truths /\ invoice' \in Words
  BY <1>1, <1>5 DEF Truths, NwcInv, NwcType
<1>9. \A r \in replies' : r \notin replies => r = reply
  BY <1>1
<1> QED  BY <1>1, <1>3, <1>4, <1>7, <1>8, <1>9, WalletIsTrue

\* Over a relay that loses, repeats, delays and forges, whatever the number of calls
\* in flight and whatever words the wallet uses: what a lookup returns was so while
\* the call was in flight, or the invoice had lapsed unpaid; a settlement or a
\* cancellation reported done is done for good; and a probe that is answered leaves
\* a scheme the wallet speaks (packages/escrow/src/adapters/nwc.ts, ADR-019).
THEOREM AnswersStayTrue ==
  ASSUME WordsAreKnown
  PROVE  NwcSpec => []AnswersAreTrue
<1>1. NwcInit => NwcInv
  <2> SUFFICES ASSUME NwcInit PROVE NwcInv
    OBVIOUS
  <2>1. NwcType
    <3>1. calls \in [Call -> Waits \cup {Idle}] /\ requests \in Seq(Request)
      BY DEF NwcInit
    <3>2. answers = [found |-> answers.found, done |-> answers.done]
      BY DEF NwcInit
    <3>3. invoice \in Words /\ pastExpiry \in BOOLEAN /\ connection \in {"none", "nip44_v2", "nip04"}
      BY DEF NwcInit, Words
    <3> QED  BY <3>1, <3>2, <3>3 DEF NwcType
  <2>2. CallAsked /\ RepliesAreTrue /\ OnlyPaymentsPend /\ LookupWitnessed /\ SpokenConnection
    BY DEF NwcInit, CallAsked, RepliesAreTrue, OnlyPaymentsPend, LookupWitnessed, SpokenConnection
  <2>3. AnswersAreTrue
    BY DEF NwcInit, AnswersAreTrue
  <2> QED  BY <2>1, <2>2, <2>3 DEF NwcInv
<1>2. ASSUME NwcInv, [NwcNext]_nwcVars
      PROVE  NwcInv'
  <2>1. ASSUME NEW c \in Call, probe(c)
        PROVE  NwcInv'
    <3>1. "get_info" \in Kinds
      BY DEF Kinds
    <3> QED  BY <1>2, <2>1, <3>1, SignedIsTrue DEF probe
  <2>2. ASSUME NEW c \in Call, NEW m \in Methods, call(c, m)
        PROVE  NwcInv'
    <3>1. m \in Kinds /\ connection \in {"nip44_v2", "nip04"} /\ Signed(c, m, connection)
      BY <1>2, <2>2 DEF call, Kinds, NwcInv, NwcType
    <3> QED  BY <1>2, <3>1, SignedIsTrue
  <2>3. ASSUME NEW c \in Call, ReplyArrives(c) \/ CallFails(c)
        PROVE  NwcInv'
    BY <1>2, <2>3, ReplyIsTaken, FailureIsTrue
  <2>4. ASSUME NEW i \in DOMAIN requests, WalletServes(i) \/ PaymentEnds(i)
        PROVE  NwcInv'
    BY <1>2, <2>4, ServingIsTrue, PaymentIsTrue
  <2>5. CASE ExpiryPasses \/ WalletExpires \/ HoldDies
    BY <1>2, <2>5, TimeIsTrue
  <2>6. CASE UNCHANGED nwcVars
    BY <1>2, <2>6 DEF nwcVars, NwcInv, NwcType, CallAsked, RepliesAreTrue, ReplyIsTrue,
       OnlyPaymentsPend, LookupWitnessed, SpokenConnection, AnswersAreTrue
  <2> QED  BY <1>2, <2>1, <2>2, <2>3, <2>4, <2>5, <2>6 DEF NwcNext
<1>3. NwcInv => AnswersAreTrue
  BY DEF NwcInv
<1> QED  BY <1>1, <1>2, <1>3, PTL DEF NwcSpec
----------------------------------------------------------------------------
(* The EUR rate: what a round of fetches makes of its quotes.              *)

\* A finite set has a member of the greatest quote: the quotes above one another
\* are ever smaller subsets.
LEMMA GreatestExists ==
  ASSUME NEW S, IsFiniteSet(S), S # {}, NEW v, \A s \in S : v[s] \in Nat
  PROVE  \E s \in S : \A t \in S : v[t] <= v[s]
<1> DEFINE Above(s) == {t \in S : v[t] > v[s]}
           T == {Above(s) : s \in S}
<1>1. IsWellFoundedOn(StrictSubsetOrdering(S), SUBSET S)
  BY FS_FiniteSubsetsOfFinite, FS_StrictSubsetOrderingWellFounded
<1>2. T \subseteq SUBSET S /\ T # {}
  OBVIOUS
<1> HIDE DEF T
<1>3. PICK X \in T : \A Y \in T : <<Y, X>> \notin StrictSubsetOrdering(S)
  BY <1>1, <1>2, WFMin
<1>4. PICK s \in S : X = Above(s)
  BY <1>3 DEF T
<1>5. ASSUME NEW t \in S, v[t] > v[s] PROVE FALSE
  <2>1. Above(t) \subseteq Above(s) /\ t \in Above(s) /\ t \notin Above(t)
    BY <1>5
  <2>2. Above(t) \in T /\ Above(t) \in SUBSET S /\ X \in SUBSET S
    BY <1>3, <1>2 DEF T
  <2>3. <<Above(t), X>> \in StrictSubsetOrdering(S)
    BY <2>1, <2>2, <1>4 DEF StrictSubsetOrdering
  <2> QED  BY <2>2, <2>3, <1>3
<1>6. \A t \in S : v[t] <= v[s]
  BY <1>5
<1> QED  BY <1>6

\* And one of the least: the greatest distance from the greatest.
LEMMA LeastExists ==
  ASSUME NEW S, IsFiniteSet(S), S # {}, NEW v, \A s \in S : v[s] \in Nat
  PROVE  \E s \in S : \A t \in S : v[s] <= v[t]
<1>1. PICK top \in S : \A t \in S : v[t] <= v[top]
  BY GreatestExists
<1> DEFINE w == [s \in S |-> v[top] - v[s]]
<1>2. \A s \in S : w[s] = v[top] - v[s] /\ w[s] \in Nat
  BY <1>1
<1> HIDE DEF w
<1>3. PICK s \in S : \A t \in S : w[t] <= w[s]
  BY <1>2, GreatestExists
<1>4. \A t \in S : v[s] <= v[t]
  BY <1>1, <1>2, <1>3
<1> QED  BY <1>4

\* The quotes of a round that may be used: the tickers that are right are within
\* the market.
FlightTyped(f) ==
  /\ f.at \in Nat
  /\ f.quotes \in [Source -> Plausible \cup {Waiting, NoQuote}]
  /\ \A s \in Source \ {Wrong} : f.quotes[s] \in Market \cup {Waiting, NoQuote}

Answered(f) == \A s \in Source : f.quotes[s] # Waiting

AtMost(f, q) == {s \in Quotes(f) : f.quotes[s] <= q}
Below(f, q) == {s \in Quotes(f) : f.quotes[s] < q}
Middle(f) == (Cardinality(Quotes(f)) - 1) \div 2

LEMMA QuotesAreCounted ==
  ASSUME QuorumIsConfigured, MarketIsARange, NEW f, FlightTyped(f), Answered(f)
  PROVE  /\ IsFiniteSet(Quotes(f)) /\ Cardinality(Quotes(f)) \in Nat
         /\ \A s \in Quotes(f) : f.quotes[s] \in Plausible /\ f.quotes[s] \in Nat
         /\ \A q : /\ IsFiniteSet(AtMost(f, q)) /\ Cardinality(AtMost(f, q)) \in Nat
                   /\ IsFiniteSet(Below(f, q)) /\ Cardinality(Below(f, q)) \in Nat
<1>1. IsFiniteSet(Quotes(f)) /\ Cardinality(Quotes(f)) \in Nat
  <2>1. Quotes(f) \in SUBSET Source
    BY DEF Quotes
  <2> QED  BY <2>1, FS_Subset, FS_CardinalityType DEF QuorumIsConfigured
<1>2. \A s \in Quotes(f) : f.quotes[s] \in Plausible /\ f.quotes[s] \in Nat
  BY DEF Quotes, FlightTyped, Answered, MarketIsARange
<1>3. ASSUME NEW q
      PROVE  /\ IsFiniteSet(AtMost(f, q)) /\ Cardinality(AtMost(f, q)) \in Nat
             /\ IsFiniteSet(Below(f, q)) /\ Cardinality(Below(f, q)) \in Nat
  <2>1. AtMost(f, q) \in SUBSET Quotes(f) /\ Below(f, q) \in SUBSET Quotes(f)
    BY DEF AtMost, Below
  <2> QED  BY <1>1, <2>1, FS_Subset, FS_CardinalityType
<1> QED  BY <1>1, <1>2, <1>3

\* With a quote at all there is one at the middle rank, so Median names it.
LEMMA MedianAtRank ==
  ASSUME QuorumIsConfigured, MarketIsARange, NEW f, FlightTyped(f), Answered(f),
         Quotes(f) # {}
  PROVE  /\ Median(f) \in {f.quotes[s] : s \in Quotes(f)}
         /\ Cardinality(Below(f, Median(f))) <= Middle(f)
         /\ Cardinality(AtMost(f, Median(f))) > Middle(f)
<1> DEFINE Q == Quotes(f)
           V == {f.quotes[s] : s \in Q}
           T == {s \in Q : Cardinality(AtMost(f, f.quotes[s])) > Middle(f)}
<1>1. /\ IsFiniteSet(Q) /\ Cardinality(Q) \in Nat /\ V \subseteq Nat
      /\ \A s \in Q : f.quotes[s] \in Nat
      /\ \A q : Cardinality(AtMost(f, q)) \in Nat /\ Cardinality(Below(f, q)) \in Nat
      /\ \A q : IsFiniteSet(Below(f, q))
  BY QuotesAreCounted
<1>2. Cardinality(Q) > 0
  BY <1>1, FS_EmptySet
<1>3. Middle(f) \in Nat /\ Middle(f) < Cardinality(Q)
  BY <1>1, <1>2 DEF Middle
<1>4. PICK top \in Q : \A t \in Q : f.quotes[t] <= f.quotes[top]
  BY <1>1, GreatestExists
<1>5. AtMost(f, f.quotes[top]) = Q
  BY <1>4 DEF AtMost
<1>6. T # {} /\ IsFiniteSet(T) /\ \A s \in T : f.quotes[s] \in Nat
  <2>1. T \in SUBSET Q /\ top \in T
    BY <1>3, <1>4, <1>5
  <2> QED  BY <1>1, <2>1, FS_Subset
<1> HIDE DEF T
<1>7. PICK r \in T : \A t \in T : f.quotes[r] <= f.quotes[t]
  BY <1>6, LeastExists
<1> DEFINE q == f.quotes[r]
<1>8. Cardinality(Below(f, q)) <= Middle(f)
  <2>1. CASE Below(f, q) = {}
    BY <2>1, <1>3, FS_EmptySet
  <2>2. CASE Below(f, q) # {}
    <3>1. PICK s \in Below(f, q) : \A t \in Below(f, q) : f.quotes[t] <= f.quotes[s]
      <4>1. \A t \in Below(f, q) : f.quotes[t] \in Nat
        BY <1>1 DEF Below
      <4> QED  BY <1>1, <2>2, <4>1, GreatestExists
    <3>2. s \in Q /\ f.quotes[s] \in V /\ f.quotes[s] < q
      BY <3>1 DEF Below
    <3>3. AtMost(f, f.quotes[s]) = Below(f, q)
      <4>1. q \in Nat
        BY <1>6, <1>7
      <4>2. \A t \in Q : f.quotes[t] <= f.quotes[s] => f.quotes[t] < q
        BY <1>1, <3>2, <4>1
      <4>3. AtMost(f, f.quotes[s]) \subseteq Below(f, q)
        BY <4>2 DEF AtMost, Below
      <4>4. Below(f, q) \subseteq AtMost(f, f.quotes[s])
        BY <3>1 DEF AtMost, Below
      <4> QED  BY <4>3, <4>4
    <3>4. s \notin T
      BY <3>2, <1>6, <1>7, <1>1
    <3>5. ~(Cardinality(AtMost(f, f.quotes[s])) > Middle(f))
      BY <3>2, <3>4 DEF T
    <3> QED  BY <3>3, <3>5, <1>1, <1>3
  <2> QED  BY <2>1, <2>2
<1>9. q \in V /\ Cardinality(AtMost(f, q)) > Middle(f)
  BY <1>7 DEF T
<1> HIDE DEF q
<1>10. Median(f) = CHOOSE p \in V : /\ Cardinality(Below(f, p)) <= Middle(f)
                                    /\ Cardinality(AtMost(f, p)) > Middle(f)
  BY DEF Median, Below, AtMost, Middle
<1> HIDE DEF V
<1>11. /\ Median(f) \in V
       /\ Cardinality(Below(f, Median(f))) <= Middle(f)
       /\ Cardinality(AtMost(f, Median(f))) > Middle(f)
  BY <1>8, <1>9, <1>10
<1> QED  BY <1>11 DEF V

\* Two sources cannot both be the wrong one.
LEMMA TwoNotWrong ==
  ASSUME NEW S, IsFiniteSet(S), Cardinality(S) >= 2
  PROVE  \E s \in S : s # Wrong
<1>1. CASE S = {}
  <2>1. Cardinality(S) = 0
    BY <1>1, FS_EmptySet
  <2> QED  BY <2>1
<1>2. CASE S = {Wrong}
  <2>1. Cardinality(S) = 1
    BY <1>2, FS_Singleton
  <2> QED  BY <2>1
<1> QED  BY <1>1, <1>2

\* Once three tickers answered, a right one quotes at most the median and a right
\* one at least, so that the median is within the market whatever the wrong one
\* quotes (eur-rate.ts:253-257).
LEMMA MedianIsRobust ==
  ASSUME QuorumIsConfigured, MarketIsARange, NEW f, FlightTyped(f), Answered(f),
         Cardinality(Quotes(f)) >= 3
  PROVE  Median(f) \in Market
<1> DEFINE Q == Quotes(f)
           q == Median(f)
           NotBelow == Q \ Below(f, q)
<1>1. /\ IsFiniteSet(Q) /\ Cardinality(Q) \in Nat
      /\ \A s \in Q : f.quotes[s] \in Plausible /\ f.quotes[s] \in Nat
      /\ IsFiniteSet(AtMost(f, q)) /\ Cardinality(AtMost(f, q)) \in Nat
      /\ IsFiniteSet(Below(f, q)) /\ Cardinality(Below(f, q)) \in Nat
  BY QuotesAreCounted
<1>2. Q # {}
  BY <1>1, FS_EmptySet
<1>3. q \in {f.quotes[s] : s \in Q} /\ Cardinality(Below(f, q)) <= Middle(f)
      /\ Cardinality(AtMost(f, q)) > Middle(f)
  BY <1>2, MedianAtRank
<1>4. q \in Plausible /\ q \in Nat
  BY <1>1, <1>3
<1> HIDE DEF q
<1>5. Middle(f) >= 1 /\ Middle(f) \in Nat /\ Cardinality(Q) - Middle(f) >= 2
  BY <1>1 DEF Middle
<1>6. PICK low \in AtMost(f, q) : low # Wrong
  <2>1. Cardinality(AtMost(f, q)) >= 2
    BY <1>1, <1>3, <1>5
  <2> QED  BY <1>1, <2>1, TwoNotWrong
<1>7. PICK high \in NotBelow : high # Wrong
  <2>1. Q \cap Below(f, q) = Below(f, q)
    BY DEF Below
  <2>2. IsFiniteSet(NotBelow) /\ Cardinality(NotBelow) = Cardinality(Q) - Cardinality(Below(f, q))
    BY <1>1, <2>1, FS_Difference
  <2>3. Cardinality(NotBelow) >= 2
    BY <1>1, <1>3, <1>5, <2>2
  <2> QED  BY <2>2, <2>3, TwoNotWrong
<1>8. low \in Q /\ f.quotes[low] <= q
  BY <1>6 DEF AtMost
<1>9. high \in Q /\ q <= f.quotes[high]
  BY <1>1, <1>4, <1>7 DEF Below
<1>10. ASSUME NEW s \in Q, s # Wrong PROVE f.quotes[s] \in Plausible \cap Market
  BY <1>1, <1>10 DEF Quotes, FlightTyped, Answered
<1>11. f.quotes[low] \in Plausible \cap Market /\ f.quotes[high] \in Plausible \cap Market
  BY <1>6, <1>7, <1>8, <1>9, <1>10
<1>12. q \in Market
  BY <1>4, <1>8, <1>9, <1>11 DEF MarketIsARange
<1> QED  BY <1>12 DEF q

----------------------------------------------------------------------------
(* The EUR rate: what is kept, and what is frozen.                         *)

RatesSpec == RatesInit /\ [][RatesNext]_rateVars

\* A snapshot has the backing and the value that a freeze may rely on.
Corroborated(snap) ==
  /\ snap.at \in Nat
  /\ Cardinality(snap.backing) >= MinSources
  /\ Cardinality(snap.backing) >= 3 => snap.rate \in Market

\* A round under way began in this tick or the one before, and its quotes are
\* those that parse: a round is never older than a rate that may be frozen.
RoundIsRecent ==
  /\ tick \in Nat
  /\ inFlight # NoFlight => FlightTyped(inFlight) /\ tick - inFlight.at \in 0 .. 1

\* The cache holds only the outcome of a round that reached the quorum.
CacheIsCorroborated == cached # NoRate => Corroborated(cached)

RateInv == RoundIsRecent /\ CacheIsCorroborated /\ FrozenRateTrusted

\* A round that reaches the quorum gives a rate with the backing and the value, and
\* dated by its start; one that does not gives none (eur-rate.ts:247-266).
LEMMA RoundIsCorroborated ==
  ASSUME QuorumIsConfigured, MarketIsARange, NEW f, FlightTyped(f), Answered(f),
         Refreshed(f) # NoRate
  PROVE  Corroborated(Refreshed(f)) /\ Refreshed(f).at = f.at
<1>1. Cardinality(Quotes(f)) \in Nat /\ MinSources \in Nat
  BY QuotesAreCounted DEF QuorumIsConfigured
<1>2. /\ Cardinality(Quotes(f)) >= MinSources
      /\ Refreshed(f) = [rate |-> Median(f), at |-> f.at, backing |-> Quotes(f)]
  BY <1>1 DEF Refreshed
<1>3. f.at \in Nat
  BY DEF FlightTyped
<1>4. Cardinality(Quotes(f)) >= 3 => Median(f) \in Market
  BY MedianIsRobust
<1> QED  BY <1>2, <1>3, <1>4 DEF Corroborated

LEMMA SnapshotIsTrusted ==
  ASSUME QuorumIsConfigured, MarketIsARange, AgesAreOrdered, RateInv,
         NEW c \in Caller, NEW use \in {"freeze", "suggest"}, snapshot(c, use)
  PROVE  RateInv'
<1> USE DEF RateInv
<1>1. UNCHANGED <<tick, cached>>
  BY DEF snapshot
<1>2. CacheIsCorroborated'
  BY <1>1 DEF CacheIsCorroborated, Corroborated
<1>3. CASE cached # NoRate /\ tick - cached.at < Ttl
  <2>1. UNCHANGED inFlight /\ Freeze(use, cached)
    BY <1>3 DEF snapshot
  <2>2. RoundIsRecent'
    BY <1>1, <2>1 DEF RoundIsRecent, FlightTyped
  <2>3. Corroborated(cached)
    BY <1>3 DEF CacheIsCorroborated
  <2>4. tick - cached.at <= MaxAge
    BY <1>3, <2>3 DEF RoundIsRecent, Corroborated, AgesAreOrdered
  <2>5. \A g \in frozen' : g \in frozen \/ g = [snap |-> cached, age |-> tick - cached.at]
    BY <2>1 DEF Freeze
  <2>6. ASSUME NEW g \in frozen'
        PROVE  /\ g.age <= MaxAge /\ Cardinality(g.snap.backing) >= MinSources
               /\ Cardinality(g.snap.backing) >= 3 => g.snap.rate \in Market
    <3>1. CASE g \in frozen
      BY <3>1 DEF FrozenRateTrusted
    <3>2. CASE g = [snap |-> cached, age |-> tick - cached.at]
      BY <2>3, <2>4, <3>2 DEF Corroborated
    <3> QED  BY <2>5, <3>1, <3>2
  <2>7. FrozenRateTrusted'
    BY <2>6 DEF FrozenRateTrusted
  <2> QED  BY <1>2, <2>2, <2>7
<1>4. CASE ~(cached # NoRate /\ tick - cached.at < Ttl)
  <2> DEFINE round == [at |-> tick, quotes |-> [s \in Source |-> Waiting]]
  <2>1. UNCHANGED frozen /\ inFlight' = IF inFlight # NoFlight THEN inFlight ELSE round
    BY <1>4 DEF snapshot
  <2>2. FrozenRateTrusted'
    BY <2>1 DEF FrozenRateTrusted
  <2>3. FlightTyped(round) /\ tick - round.at \in 0 .. 1
    BY DEF FlightTyped, RoundIsRecent
  <2> HIDE DEF round
  <2>4. RoundIsRecent'
    <3>1. CASE inFlight # NoFlight
      BY <1>1, <2>1, <3>1 DEF RoundIsRecent, FlightTyped
    <3>2. CASE inFlight = NoFlight
      <4>1. inFlight' = round
        BY <2>1, <3>2
      <4> QED  BY <1>1, <2>3, <4>1 DEF RoundIsRecent, FlightTyped
    <3> QED  BY <3>1, <3>2
  <2> QED  BY <1>2, <2>2, <2>4
<1> QED  BY <1>3, <1>4

LEMMA QuoteIsTyped ==
  ASSUME MarketIsARange, RateInv, NEW s \in Source, QuoteArrives(s)
  PROVE  RateInv'
<1> USE DEF RateInv
<1>1. PICK raw \in (IF s = Wrong THEN Quotable ELSE Market) \cup {NoQuote} :
        inFlight' = [inFlight EXCEPT !.quotes[s] = Parsed(raw)]
  BY DEF QuoteArrives
<1>2. UNCHANGED <<tick, cached, frozen>> /\ inFlight # NoFlight
  BY DEF QuoteArrives
<1>3. Parsed(raw) \in Plausible \cup {NoQuote}
  BY DEF Parsed
<1>4. s # Wrong => Parsed(raw) \in Market \cup {NoQuote}
  BY <1>1 DEF Parsed
<1>5. FlightTyped(inFlight) /\ tick - inFlight.at \in 0 .. 1 /\ tick \in Nat
  BY <1>2 DEF RoundIsRecent
<1>6. /\ inFlight'.at = inFlight.at
      /\ inFlight'.quotes = [inFlight.quotes EXCEPT ![s] = Parsed(raw)]
  BY <1>1
<1>7. FlightTyped(inFlight)'
  <2>1. inFlight'.quotes \in [Source -> Plausible \cup {Waiting, NoQuote}]
    BY <1>3, <1>5, <1>6 DEF FlightTyped
  <2>2. ASSUME NEW t \in Source \ {Wrong}
        PROVE  inFlight'.quotes[t] \in Market \cup {Waiting, NoQuote}
    <3>1. CASE t = s
      BY <1>4, <1>5, <1>6, <3>1 DEF FlightTyped
    <3>2. CASE t # s
      BY <1>5, <1>6, <3>2 DEF FlightTyped
    <3> QED  BY <3>1, <3>2
  <2> QED  BY <1>5, <1>6, <2>1, <2>2 DEF FlightTyped
<1>8. RoundIsRecent'
  BY <1>2, <1>5, <1>6, <1>7 DEF RoundIsRecent
<1>9. CacheIsCorroborated' /\ FrozenRateTrusted'
  BY <1>2 DEF CacheIsCorroborated, Corroborated, FrozenRateTrusted
<1> QED  BY <1>8, <1>9

LEMMA RoundIsTrusted ==
  ASSUME QuorumIsConfigured, MarketIsARange, AgesAreOrdered, RateInv, RoundEnds
  PROVE  RateInv'
<1> USE DEF RateInv
<1> DEFINE fresh == Refreshed(inFlight)
           held == IF fresh # NoRate THEN fresh ELSE cached
<1>1. /\ FlightTyped(inFlight) /\ Answered(inFlight)
      /\ tick \in Nat /\ tick - inFlight.at \in 0 .. 1
  BY DEF RoundEnds, RoundIsRecent, Answered
<1>2. fresh # NoRate => Corroborated(fresh) /\ fresh.at = inFlight.at
  BY <1>1, RoundIsCorroborated
<1>3. held # NoRate => Corroborated(held)
  BY <1>2 DEF CacheIsCorroborated
<1>4. fresh # NoRate => held = fresh /\ tick - held.at <= MaxAge
  BY <1>1, <1>2 DEF AgesAreOrdered
<1>5. cached' = held /\ inFlight' = NoFlight /\ tick' = tick
  BY DEF RoundEnds
<1>6. \A g \in frozen' :
        \/ g \in frozen
        \/ /\ held # NoRate
           /\ g = [snap |-> held, age |-> tick - held.at]
           /\ fresh # NoRate \/ ~TooStale("freeze", tick - held.at)
  BY DEF RoundEnds
<1> HIDE DEF held, fresh
<1>7. ASSUME NEW g \in frozen'
      PROVE  /\ g.age <= MaxAge /\ Cardinality(g.snap.backing) >= MinSources
             /\ Cardinality(g.snap.backing) >= 3 => g.snap.rate \in Market
  <2>1. CASE g \in frozen
    BY <2>1 DEF FrozenRateTrusted
  <2>2. CASE /\ held # NoRate
             /\ g = [snap |-> held, age |-> tick - held.at]
             /\ fresh # NoRate \/ ~TooStale("freeze", tick - held.at)
    <3>1. tick - held.at <= MaxAge
      BY <1>1, <1>3, <1>4, <2>2 DEF TooStale, Corroborated, AgesAreOrdered
    <3> QED  BY <1>3, <2>2, <3>1 DEF Corroborated
  <2> QED  BY <1>6, <2>1, <2>2
<1>8. FrozenRateTrusted'
  BY <1>7 DEF FrozenRateTrusted
<1>9. CacheIsCorroborated'
  BY <1>3, <1>5 DEF CacheIsCorroborated, Corroborated
<1>10. RoundIsRecent'
  BY <1>1, <1>5 DEF RoundIsRecent
<1> QED  BY <1>8, <1>9, <1>10

\* However many callers share a round, whatever the wrong ticker says and whenever
\* the process restarts, for any set of tickers and any quorum: a rate frozen for
\* life is recent, corroborated and, once three tickers answered, a price of the
\* market (eur-rate.ts, ADR-025).
THEOREM FrozenIsTrusted ==
  ASSUME QuorumIsConfigured, MarketIsARange, AgesAreOrdered
  PROVE  RatesSpec => []FrozenRateTrusted
<1>1. RatesInit => RateInv
  BY DEF RatesInit, RateInv, RoundIsRecent, CacheIsCorroborated, FrozenRateTrusted
<1>2. ASSUME RateInv, [RatesNext]_rateVars
      PROVE  RateInv'
  <2>1. CASE Tick
    <3>1. UNCHANGED <<cached, inFlight, frozen>> /\ tick' = tick + 1
      BY <2>1 DEF Tick
    <3>2. inFlight # NoFlight => inFlight.at = tick
      BY <2>1 DEF Tick
    <3>3. RoundIsRecent'
      BY <1>2, <3>1, <3>2 DEF RateInv, RoundIsRecent, FlightTyped
    <3>4. CacheIsCorroborated' /\ FrozenRateTrusted'
      BY <1>2, <3>1 DEF RateInv, CacheIsCorroborated, Corroborated, FrozenRateTrusted
    <3> QED  BY <3>3, <3>4 DEF RateInv
  <2>2. CASE Restart
    BY <1>2, <2>2 DEF Restart, RateInv, RoundIsRecent, CacheIsCorroborated, FrozenRateTrusted
  <2>3. CASE UNCHANGED rateVars
    BY <1>2, <2>3 DEF rateVars, RateInv, RoundIsRecent, FlightTyped, CacheIsCorroborated,
       Corroborated, FrozenRateTrusted
  <2> QED  BY <1>2, <2>1, <2>2, <2>3, SnapshotIsTrusted, QuoteIsTyped, RoundIsTrusted
     DEF RatesNext
<1>3. RateInv => FrozenRateTrusted
  BY DEF RateInv
<1> QED  BY <1>1, <1>2, <1>3, PTL DEF RatesSpec

\* Both halves of FrozenForLife, for the two services side by side, whatever their
\* interleaving: a rate and a distance are what they were when the shipment was
\* created (eur-rate.ts, road-routing.ts).
THEOREM FrozenStays ==
  ASSUME QuorumIsConfigured, MarketIsARange, AgesAreOrdered
  PROVE  RatesSpec /\ RoadsSpec => []FrozenForLife
<1>1. RatesSpec => []FrozenRateTrusted
  BY FrozenIsTrusted
<1>2. RoadsSpec => []PairValueForever
  BY PairsNeverChange
<1> QED  BY <1>1, <1>2, PTL DEF FrozenForLife

----------------------------------------------------------------------------
(* Board: two paths to one price.                                          *)

\* Rounding a difference, or the difference of what is rounded: a metre apart at
\* most, and the same in whole metres.
LEMMA RoundingsAgree ==
  ASSUME NEW f \in Nat \ {0}, NEW r \in Nat, NEW x \in Nat
  PROVE  /\ RoundedMetres(f, r) \in Nat
         /\ RoundedMetres(f, r - x) \in Int
         /\ RoundedMetres(f, r - x) - (RoundedMetres(f, r) - RoundedMetres(f, x)) \in -1 .. 1
         /\ f = 1 => RoundedMetres(f, r) = r /\ RoundedMetres(f, r - x) = r - x
<1> DEFINE a == RoundedMetres(f, r)
           b == RoundedMetres(f, x)
           c == RoundedMetres(f, r - x)
           e == c - (a - b)
<1>1. \A y \in Int : /\ RoundedMetres(f, y) \in Int
                     /\ 2 * f * RoundedMetres(f, y) <= 2 * y + f
                     /\ 2 * y + f < 2 * f * RoundedMetres(f, y) + 2 * f
  <2> TAKE y \in Int
  <2> DEFINE n == 2 * y + f
             k == 2 * f
  <2>1. n \in Int /\ k \in Nat /\ k > 0
    OBVIOUS
  <2> HIDE DEF n, k
  <2>2. n \div k \in Int /\ k * (n \div k) <= n /\ n < k * (n \div k) + k
    BY <2>1
  <2> QED  BY <2>2 DEF RoundedMetres, n, k
<1>2. /\ a \in Int /\ 2 * f * a <= 2 * r + f /\ 2 * r + f < 2 * f * a + 2 * f
      /\ b \in Int /\ 2 * f * b <= 2 * x + f /\ 2 * x + f < 2 * f * b + 2 * f
      /\ c \in Int /\ 2 * f * c <= 2 * (r - x) + f /\ 2 * (r - x) + f < 2 * f * c + 2 * f
  BY <1>1
<1> HIDE DEF a, b, c
<1>3. e \in Int /\ f * e = f * c - f * a + f * b
  BY <1>2
<1>4. 2 * (f * e) < 3 * f /\ 2 * (f * e) > -(3 * f)
  BY <1>2, <1>3
<1> HIDE DEF e
<1>5. e <= 1
  <2>1. CASE e >= 2
    <3>1. f * e >= f * 2
      BY <1>3, <2>1
    <3> QED  BY <1>3, <1>4, <3>1
  <2> QED  BY <1>3, <2>1
<1>6. e >= -1
  <2>1. CASE e <= -2
    <3>1. f * (-e) >= f * 2 /\ f * (-e) = -(f * e)
      BY <1>3, <2>1
    <3> QED  BY <1>3, <1>4, <3>1
  <2> QED  BY <1>3, <2>1
<1>7. a \in Nat
  <2>1. CASE a <= -1
    <3>1. f * (-a) >= f /\ f * (-a) = -(f * a)
      BY <1>2, <2>1
    <3> QED  BY <1>2, <3>1
  <2> QED  BY <1>2, <2>1
<1>8. f = 1 => a = r /\ c = r - x
  BY <1>2
<1>9. c - (a - b) \in -1 .. 1
  BY <1>3, <1>5, <1>6 DEF e
<1> QED  BY <1>2, <1>7, <1>8, <1>9 DEF a, b, c

\* A metre or more is at least one metre less to go.
LEMMA RoundedShorter ==
  ASSUME NEW f \in Nat \ {0}, NEW r \in Nat, NEW x \in Nat, x >= f
  PROVE  /\ RoundedMetres(f, r - x) <= RoundedMetres(f, r) - 1
         /\ RoundedMetres(f, x) >= 1
<1> DEFINE k == 2 * f
           n == 2 * r + f
           m == 2 * (r - x) + f
           l == 2 * x + f
<1>1. k \in Nat /\ k > 0 /\ n \in Int /\ m \in Int /\ l \in Int /\ m + k <= n /\ l >= k
  OBVIOUS
<1> HIDE DEF k, n, m, l
<1>2. /\ n \div k \in Int /\ k * (n \div k) <= n /\ n < k * (n \div k) + k
      /\ m \div k \in Int /\ k * (m \div k) <= m /\ m < k * (m \div k) + k
      /\ l \div k \in Int /\ k * (l \div k) <= l /\ l < k * (l \div k) + k
  BY <1>1
<1>3. m \div k <= (n \div k) - 1
  <2>1. CASE m \div k >= n \div k
    <3>1. k * (m \div k) >= k * (n \div k)
      BY <1>1, <1>2, <2>1
    <3> QED  BY <1>1, <1>2, <3>1
  <2> QED  BY <1>2, <2>1
<1>4. l \div k >= 1
  <2>1. CASE l \div k <= 0
    <3>1. k * (l \div k) <= 0
      BY <1>1, <1>2, <2>1
    <3> QED  BY <1>1, <1>2, <3>1
  <2> QED  BY <1>2, <2>1
<1> QED  BY <1>3, <1>4 DEF RoundedMetres, k, n, m, l

\* No boosts, no loop: the pool is the offer's share of the way left.
LEMMA PoolOfOffer ==
  ASSUME NEW offer, NEW total, NEW r
  PROVE  remainingPool(offer, total, r, <<>>) = (offer * r) \div total
<1> DEFINE start == (offer * r) \div total
           step == [sum \in Nat |-> [b \in Boost |-> sum + PoolShare(b.amount, r, b.from)]]
           Runs(acc) == acc = [i \in 0 .. Len(<<>>) |->
                                 IF i = 0 THEN start ELSE step[acc[i - 1]][<<>>[i]]]
           run == CHOOSE acc : Runs(acc)
<1> HIDE DEF start, step
<1>1. Runs([i \in 0 .. Len(<<>>) |-> start])
  <2>1. \A i \in 0 .. Len(<<>>) : i = 0
    OBVIOUS
  <2> QED  BY <2>1
<1>2. Runs(run)
  BY <1>1
<1>3. Loop(step, start, <<>>) = run[Len(<<>>)]
  BY DEF Loop
<1>4. Loop(step, start, <<>>) = start
  <2> HIDE DEF run
  <2> QED  BY <1>2, <1>3
<1> QED  BY <1>4 DEF remainingPool, start, step

\* What is below a satoshi is dropped.
LEMMA SatFloorIsClose ==
  ASSUME NEW a \in Nat
  PROVE  floorToSat(a) \in Nat /\ floorToSat(a) <= a /\ a <= floorToSat(a) + 999
BY DEF floorToSat, SatMsat

LEMMA SatFloorIsMonotone ==
  ASSUME NEW a \in Nat, NEW b \in Nat, a <= b
  PROVE  floorToSat(a) <= floorToSat(b)
<1>1. /\ floorToSat(a) = 1000 * (a \div 1000) /\ floorToSat(b) = 1000 * (b \div 1000)
      /\ a \div 1000 <= b \div 1000
  BY DEF floorToSat, SatMsat
<1> QED  BY <1>1

HubFee(gross, bp) == floorToSat((gross * bp) \div BpDenominator)

LEMMA FeeIsAmount ==
  ASSUME NEW g \in Nat, NEW bp \in Nat
  PROVE  HubFee(g, bp) \in Nat
<1>1. (g * bp) \div BpDenominator \in Nat
  BY DEF BpDenominator
<1> QED  BY <1>1, SatFloorIsClose DEF HubFee

\* What one price has above another costs it a share of that, and a satoshi of
\* rounding at most.
LEMMA FeeGrows ==
  ASSUME NEW g \in Nat, NEW h \in Nat, g <= h, NEW bp \in Nat, bp <= 3000
  PROVE  /\ HubFee(g, bp) \in Nat /\ HubFee(h, bp) \in Nat
         /\ HubFee(g, bp) <= HubFee(h, bp)
         /\ 10 * HubFee(g, bp) <= 3 * g
         /\ 10 * (HubFee(h, bp) - HubFee(g, bp)) <= 3 * (h - g) + 10000
<1> DEFINE u == g * bp
           v == h * bp
           p == u \div BpDenominator
           q == v \div BpDenominator
<1>1. u \in Nat /\ v \in Nat /\ u <= v /\ u <= 3000 * g /\ v - u <= 3000 * (h - g)
  <2>1. u \in Nat /\ v \in Nat
    OBVIOUS
  <2>2. v - u = (h - g) * bp
    OBVIOUS
  <2>3. (h - g) * bp <= 3000 * (h - g) /\ (h - g) * bp >= 0
    <3> DEFINE z == h - g
    <3>1. z \in Nat
      OBVIOUS
    <3> HIDE DEF z
    <3>2. z * bp <= 3000 * z /\ z * bp >= 0
      BY <3>1
    <3> QED  BY <3>2 DEF z
  <2>4. u <= 3000 * g
    OBVIOUS
  <2> QED  BY <2>1, <2>2, <2>3, <2>4
<1> HIDE DEF u, v
<1>2. /\ p \in Nat /\ q \in Nat /\ p <= q
      /\ 10000 * p <= u /\ 10000 * q <= v /\ u <= 10000 * p + 9999
  BY <1>1 DEF BpDenominator
<1> HIDE DEF p, q
<1>3. /\ floorToSat(p) \in Nat /\ floorToSat(p) <= p /\ p <= floorToSat(p) + 999
      /\ floorToSat(q) \in Nat /\ floorToSat(q) <= q
      /\ floorToSat(p) <= floorToSat(q)
  BY <1>2, SatFloorIsClose, SatFloorIsMonotone
<1>4. 10 * floorToSat(p) <= 3 * g
  BY <1>1, <1>2, <1>3
<1>5. 10 * (floorToSat(q) - floorToSat(p)) <= 3 * (h - g) + 10000
  BY <1>1, <1>2, <1>3
<1> QED  BY <1>3, <1>4, <1>5 DEF HubFee, p, q, u, v

\* A leg's gross is within its pool and its net within its gross: fees of at most
\* 30% each leave the carrier something (economics.ts, priceLeg).
LEMMA NetWithinPool ==
  ASSUME NEW pool \in Nat, NEW r \in Nat, NEW p \in 1 .. r,
         NEW dep \in Nat, dep <= 3000, NEW arr \in Nat, arr <= 3000, NEW quota \in Nat
  PROVE  LET price == priceLeg(pool, r, p, dep, arr, quota) IN
         /\ price.net \in Nat /\ price.net <= pool
         /\ price.carrierBonus \in Nat /\ price.carrierBonus <= quota
         /\ p # r => price.carrierBonus = 0
<1> DEFINE share == (pool * p) \div r
           gross == floorToSat(share)
<1>1. share \in Nat /\ share <= pool
  <2> DEFINE n == pool * p
  <2>1. n \in Nat /\ n <= pool * r /\ r \in Nat /\ r > 0
    OBVIOUS
  <2> HIDE DEF n
  <2>2. n \div r \in Nat /\ r * (n \div r) <= n
    BY <2>1
  <2>3. r * (n \div r) <= r * pool
    BY <2>1, <2>2
  <2>4. n \div r <= pool
    <3>1. CASE n \div r >= pool + 1
      <4>1. r * (n \div r) >= r * pool + r
        BY <2>1, <2>2, <3>1
      <4> QED  BY <2>1, <2>2, <2>3, <4>1
    <3> QED  BY <2>2, <3>1
  <2> QED  BY <2>2, <2>4 DEF n
<1> HIDE DEF share
<1>2. gross \in Nat /\ gross <= share
  BY <1>1, SatFloorIsClose
<1>3. /\ HubFee(gross, dep) \in Nat /\ 10 * HubFee(gross, dep) <= 3 * gross
      /\ HubFee(gross, arr) \in Nat /\ 10 * HubFee(gross, arr) <= 3 * gross
  <2> HIDE DEF gross
  <2>1. gross \in Nat /\ gross <= gross
    BY <1>2
  <2>2. HubFee(gross, dep) \in Nat /\ 10 * HubFee(gross, dep) <= 3 * gross
    BY <2>1, FeeGrows
  <2>3. HubFee(gross, arr) \in Nat /\ 10 * HubFee(gross, arr) <= 3 * gross
    BY <2>1, FeeGrows
  <2> QED  BY <2>2, <2>3
<1>4. floorToSat(quota) \in Nat /\ floorToSat(quota) <= quota
  BY SatFloorIsClose
<1>5. /\ priceLeg(pool, r, p, dep, arr, quota).net = gross - HubFee(gross, dep) - HubFee(gross, arr)
      /\ priceLeg(pool, r, p, dep, arr, quota).carrierBonus
           = IF p = r THEN floorToSat(quota) ELSE 0
  BY DEF priceLeg, share, HubFee
<1> HIDE DEF gross
<1> QED  BY <1>1, <1>2, <1>3, <1>4, <1>5

\* A metre more is worth at most the pool's worth of a metre and the roundings.
LEMMA AMetreMore ==
  ASSUME NEW pool \in Nat, NEW r \in Nat, NEW p \in Nat, p >= 1, p + 1 <= r,
         NEW dep \in Nat, dep <= 3000, NEW arr \in Nat, arr <= 3000, NEW quota \in Nat
  PROVE  LET net(q) == priceLeg(pool, r, q, dep, arr, quota).net
             gap == (pool \div r) + 3000
         IN net(p + 1) <= net(p) + gap /\ net(p) <= net(p + 1) + gap
<1> DEFINE n == pool * p
           w == pool \div r
           share(q) == (pool * q) \div r
           gross(q) == floorToSat(share(q))
<1>1. /\ r \in Nat /\ r > 0 /\ n \in Nat
      /\ pool * (p + 1) = n + pool
  OBVIOUS
<1>2. /\ share(p) \in Nat /\ share(p + 1) \in Nat
      /\ share(p) <= share(p + 1) /\ share(p + 1) <= share(p) + w + 1
      /\ w \in Nat
  <2> HIDE DEF n
  <2>1. /\ n \div r \in Nat /\ r * (n \div r) <= n /\ n < r * (n \div r) + r
        /\ (n + pool) \div r \in Nat /\ r * ((n + pool) \div r) <= n + pool
        /\ n + pool < r * ((n + pool) \div r) + r
        /\ w \in Nat /\ r * w <= pool /\ pool < r * w + r
    BY <1>1
  <2>2. (n + pool) \div r >= n \div r
    <3>1. CASE (n + pool) \div r + 1 <= n \div r
      <4>1. r * ((n + pool) \div r) + r <= r * (n \div r)
        BY <1>1, <2>1, <3>1
      <4> QED  BY <1>1, <2>1, <4>1
    <3> QED  BY <2>1, <3>1
  <2>3. (n + pool) \div r <= n \div r + w + 1
    <3>1. CASE (n + pool) \div r >= n \div r + w + 2
      <4>1. r * ((n + pool) \div r) >= r * (n \div r) + r * w + 2 * r
        BY <1>1, <2>1, <3>1
      <4> QED  BY <1>1, <2>1, <4>1
    <3> QED  BY <2>1, <3>1
  <2>4. share(p) = n \div r /\ share(p + 1) = (n + pool) \div r
    BY <1>1 DEF n
  <2> QED  BY <2>1, <2>2, <2>3, <2>4
<1> HIDE DEF share, w, n
<1>3. /\ gross(p) \in Nat /\ gross(p + 1) \in Nat
      /\ gross(p) <= gross(p + 1) /\ gross(p + 1) <= gross(p) + w + 1000
  BY <1>2, SatFloorIsClose, SatFloorIsMonotone
<1>4. PICK g \in Nat, h \in Nat : g = gross(p) /\ h = gross(p + 1)
  BY <1>3
<1>5. g <= h /\ h <= g + w + 1000
  BY <1>3, <1>4
<1>6. \A bp \in Nat : bp <= 3000 =>
        /\ HubFee(g, bp) \in Nat /\ HubFee(h, bp) \in Nat
        /\ HubFee(g, bp) <= HubFee(h, bp)
        /\ 10 * (HubFee(h, bp) - HubFee(g, bp)) <= 3 * (h - g) + 10000
  <2> TAKE bp \in Nat
  <2> HAVE bp <= 3000
  <2>1. HubFee(g, bp) \in Nat
    BY FeeIsAmount
  <2>2. HubFee(h, bp) \in Nat
    BY FeeIsAmount
  <2>3. HubFee(g, bp) <= HubFee(h, bp)
    BY <1>5, FeeGrows
  <2>4. 10 * (HubFee(h, bp) - HubFee(g, bp)) <= 3 * (h - g) + 10000
    BY <1>5, FeeGrows
  <2> QED  BY <2>1, <2>2, <2>3, <2>4
<1> DEFINE grown == h - g
           x == HubFee(h, dep) - HubFee(g, dep)
           y == HubFee(h, arr) - HubFee(g, arr)
<1>7. /\ HubFee(g, dep) \in Nat /\ HubFee(h, dep) \in Nat
      /\ HubFee(g, arr) \in Nat /\ HubFee(h, arr) \in Nat
      /\ grown \in Nat /\ grown <= w + 1000
      /\ x \in Nat /\ 10 * x <= 3 * grown + 10000
      /\ y \in Nat /\ 10 * y <= 3 * grown + 10000
  BY <1>2, <1>5, <1>6
<1>8. /\ priceLeg(pool, r, p, dep, arr, quota).net = g - HubFee(g, dep) - HubFee(g, arr)
      /\ priceLeg(pool, r, p + 1, dep, arr, quota).net = h - HubFee(h, dep) - HubFee(h, arr)
  BY <1>4 DEF priceLeg, share, HubFee
<1> HIDE DEF grown, x, y
<1>9. grown - x - y <= w + 3000 /\ x + y - grown <= w + 3000
  BY <1>2, <1>7
<1> QED  BY <1>2, <1>7, <1>8, <1>9 DEF w, grown, x, y

----------------------------------------------------------------------------
HubRow == [active : BOOLEAN, erased : BOOLEAN, wallet : BOOLEAN, auto : BOOLEAN, fee : Fees]
LegRow == [status : {"requested", "pending_funding"}, to : Hub, mailed : BOOLEAN,
           net : Nat, shown : Nat \cup {NotShown}]

\* The way left is within the segment that was priced.
WayWithinSegment ==
  /\ parcel.metric \in Metric /\ parcel.at \in Hub /\ parcel.dest \in Hub
  /\ parcel.total \in Nat /\ kmToMeters(Remaining) <= parcel.total

BoardInv ==
  /\ WayWithinSegment
  /\ hub \in [Hub -> HubRow]
  /\ leg = NoLeg \/ leg \in LegRow
  /\ AdvertisedIsKept

\* The two paths measure the progress of a leg a metre apart at most, in whole
\* metres not at all, and agree on whether it ends at the destination.
LEMMA ProgressAgrees ==
  ASSUME BoardConfigured, HubsApart, WayWithinSegment, NEW h \in Hub
  PROVE  LET r == kmToMeters(Remaining) IN
         /\ r \in Nat /\ AskedProgress(h) \in Int /\ BoardProgress(h) \in Int
         /\ AskedProgress(h) - BoardProgress(h) \in -1 .. 1
         /\ Fine[parcel.metric] = 1 => AskedProgress(h) = BoardProgress(h)
         /\ AskedProgress(h) = r <=> BoardProgress(h) = r
<1> DEFINE f == Fine[parcel.metric]
           R == Distance[parcel.metric][<<parcel.at, parcel.dest>>]
           x == Distance[parcel.metric][<<h, parcel.dest>>]
<1>1. f \in Nat \ {0} /\ R \in Nat /\ x \in Nat /\ (x = 0 \/ x >= f)
  BY DEF BoardConfigured, HubsApart, WayWithinSegment
<1>2. /\ kmToMeters(Remaining) = RoundedMetres(f, R)
      /\ AskedProgress(h) = RoundedMetres(f, IF h = parcel.dest THEN R ELSE R - x)
      /\ BoardProgress(h) = RoundedMetres(f, R)
                              - (IF h = parcel.dest THEN 0 ELSE RoundedMetres(f, x))
  BY DEF kmToMeters, Remaining, AskedProgress, BoardProgress, distance
<1> HIDE DEF f, R, x
<1>3. CASE h = parcel.dest
  <2>1. RoundedMetres(f, R) \in Nat
    BY <1>1, RoundingsAgree
  <2> QED  BY <1>2, <1>3, <2>1 DEF f
<1>4. CASE h # parcel.dest /\ x = 0
  <2>1. RoundedMetres(f, R) \in Nat /\ RoundedMetres(f, R - x) = RoundedMetres(f, R)
    BY <1>1, <1>4, RoundingsAgree
  <2>2. RoundedMetres(f, x) = 0
    BY <1>1, <1>4 DEF RoundedMetres
  <2> QED  BY <1>2, <1>4, <2>1, <2>2 DEF f
<1>5. CASE h # parcel.dest /\ x >= f
  <2>1. PICK a, b, c : /\ a = RoundedMetres(f, R) /\ b = RoundedMetres(f, x)
                       /\ c = RoundedMetres(f, R - x)
    OBVIOUS
  <2>2. /\ a \in Nat /\ c \in Int /\ c - (a - b) \in -1 .. 1
        /\ f = 1 => a = R /\ c = R - x
    BY <1>1, <2>1, RoundingsAgree
  <2>3. c <= a - 1 /\ b >= 1
    BY <1>1, <1>5, <2>1, RoundedShorter
  <2>4. b \in Nat /\ (f = 1 => b = x)
    BY <1>1, <2>1, RoundingsAgree
  <2>5. /\ kmToMeters(Remaining) = a /\ AskedProgress(h) = c /\ BoardProgress(h) = a - b
    BY <1>2, <1>5, <2>1
  <2>6. f = 1 => c = a - b
    BY <1>1, <2>2, <2>4
  <2> QED  BY <2>2, <2>3, <2>4, <2>5, <2>6 DEF f
<1> QED  BY <1>1, <1>3, <1>4, <1>5

\* Of a hub on the card the board measured a progress that may be priced.
LEMMA OnCard ==
  ASSUME NEW h \in Hub, Option(h) \in Card
  PROVE  BoardProgress(h) \in 1 .. kmToMeters(Remaining)
<1>1. Option(h) \in ShownOptions
  BY DEF Card
<1>2. Option(h) \in {Option(k) : k \in Candidates}
  BY <1>1 DEF ShownOptions
<1>3. PICK k \in Candidates : Option(h) = Option(k)
  BY <1>2
<1>4. Option(h).hubId = h /\ Option(k).hubId = k
  BY DEF Option
<1>5. h \in Candidates
  BY <1>3, <1>4
<1> QED  BY <1>5 DEF Candidates, ProgressAllowed

\* What the pool of the way left and the quota are.
LEMMA PoolIsAmount ==
  ASSUME BoardConfigured, WayWithinSegment, kmToMeters(Remaining) \in Nat \ {0}
  PROVE  remainingWorkPool(kmToMeters(Remaining)) \in Nat /\ carrierBonus \in Nat
<1>1. PICK work \in Nat, quota \in Nat :
        work = splitCommitment(Offer).work /\ quota = splitCommitment(Offer).carrier
  <2>1. Offer \in Nat
    BY DEF BoardConfigured
  <2>2. splitCommitment(Offer).work \in Nat
    BY <2>1 DEF splitCommitment, BpDenominator
  <2>3. splitCommitment(Offer).carrier \in Nat
    BY <2>1 DEF splitCommitment, BpDenominator
  <2> QED  BY <2>2, <2>3
<1>2. PICK r \in Nat \ {0} : r = kmToMeters(Remaining)
  OBVIOUS
<1>3. PICK total \in Nat : total = parcel.total /\ total >= r
  BY <1>2 DEF WayWithinSegment
<1>4. remainingWorkPool(r) = (work * r) \div total
  BY <1>1, <1>3, PoolOfOffer DEF remainingWorkPool
<1>5. work * r \in Nat /\ total > 0
  BY <1>3
<1>6. (work * r) \div total \in Nat
  <2> DEFINE n == work * r
  <2>1. n \in Nat
    BY <1>5
  <2> HIDE DEF n
  <2>2. n \div total \in Nat
    BY <1>5, <2>1
  <2> QED  BY <2>2 DEF n
<1> QED  BY <1>1, <1>2, <1>4, <1>6 DEF carrierBonus

\* What is frozen is within the shelf's ceiling, and within a rounding of what the
\* card shows.
LEMMA FrozenIsAdvertised ==
  ASSUME BoardConfigured, HubsApart, WayWithinSegment, hub \in [Hub -> HubRow], NEW h \in Hub,
         ProgressAllowed(parcel.total, kmToMeters(Remaining), AskedProgress(h)),
         NEW pays, pays = FrozenPrice(h).net + FrozenPrice(h).carrierBonus
  PROVE  /\ pays \in Nat
         /\ pays <= ShelfCeiling(kmToMeters(Remaining))
         /\ Option(h) \in Card =>
              ShownNet(h) \in Nat /\ pays - ShownNet(h) \in -RoundingGap .. RoundingGap
<1>1. PICK r, p, q, pool, quota, dep, arr :
        /\ r = kmToMeters(Remaining) /\ p = AskedProgress(h) /\ q = BoardProgress(h)
        /\ pool = remainingWorkPool(kmToMeters(Remaining)) /\ quota = carrierBonus
        /\ dep = hub[parcel.at].fee /\ arr = hub[h].fee
  OBVIOUS
<1>2. /\ r \in Nat /\ p \in Int /\ q \in Int /\ p - q \in -1 .. 1
      /\ Fine[parcel.metric] = 1 => p = q
      /\ p = r <=> q = r
  BY <1>1, ProgressAgrees
<1>3. p \in 1 .. r
  BY <1>1 DEF ProgressAllowed
<1>4. r \in Nat \ {0}
  BY <1>2, <1>3
<1>5. pool \in Nat /\ quota \in Nat
  BY <1>1, <1>4, PoolIsAmount
<1>6. dep \in Nat /\ dep <= 3000 /\ arr \in Nat /\ arr <= 3000
  <2>1. hub[parcel.at].fee \in Fees /\ hub[h].fee \in Fees
    BY DEF WayWithinSegment, HubRow
  <2>2. \A fee \in Fees : fee \in Nat /\ fee <= 3000
    BY DEF BoardConfigured
  <2> QED  BY <1>1, <2>1, <2>2
<1>7. FrozenPrice(h) = priceLeg(pool, r, p, dep, arr, quota)
  BY <1>1 DEF FrozenPrice
<1>8. ShownNet(h) = priceLeg(pool, r, q, dep, arr, quota).net
                      + priceLeg(pool, r, q, dep, arr, quota).carrierBonus
  BY <1>1 DEF ShownNet
<1>9. PICK net, bonus : /\ net = priceLeg(pool, r, p, dep, arr, quota).net
                        /\ bonus = priceLeg(pool, r, p, dep, arr, quota).carrierBonus
  OBVIOUS
<1>10. net \in Nat /\ net <= pool /\ bonus \in Nat /\ bonus <= quota
  BY <1>3, <1>4, <1>5, <1>6, <1>9, NetWithinPool
<1>11. pays = net + bonus
  BY <1>7, <1>9
<1>12. ShelfCeiling(kmToMeters(Remaining)) = pool + quota
  <2>1. r <= parcel.total /\ parcel.total \in Nat
    BY <1>1, <1>4 DEF WayWithinSegment
  <2>2. (IF r < parcel.total THEN r ELSE parcel.total) = r
    BY <1>4, <2>1
  <2> QED  BY <1>1, <2>2 DEF ShelfCeiling
<1>13. ASSUME Option(h) \in Card
       PROVE  ShownNet(h) \in Nat /\ pays - ShownNet(h) \in -RoundingGap .. RoundingGap
  <2>1. q \in 1 .. r
    BY <1>1, <1>13, OnCard
  <2>2. PICK shown, share : /\ shown = priceLeg(pool, r, q, dep, arr, quota).net
                            /\ share = priceLeg(pool, r, q, dep, arr, quota).carrierBonus
    OBVIOUS
  <2>3. shown \in Nat /\ share \in Nat
    BY <1>4, <1>5, <1>6, <2>1, <2>2, NetWithinPool
  <2>4. share = bonus
    BY <1>2, <1>9, <2>2 DEF priceLeg
  <2>5. PICK w \in Nat : w = pool \div r
    BY <1>4, <1>5
  <2>6. RoundingGap = IF Fine[parcel.metric] = 1 THEN 0 ELSE w + 3000
    BY <1>1, <2>5 DEF RoundingGap, WorthOfAMetre, SatMsat
  <2>7. CASE p = q
    <3>1. net = shown
      BY <1>9, <2>2, <2>7
    <3> QED  BY <1>8, <1>10, <1>11, <2>2, <2>3, <2>4, <2>5, <2>6, <3>1
  <2>8. CASE p # q
    <3>1. Fine[parcel.metric] # 1 /\ (p = q + 1 \/ q = p + 1)
      BY <1>2, <2>8
    <3>2. net - shown \in -(w + 3000) .. w + 3000
      <4>1. CASE p = q + 1
        <5>1. r \in Nat /\ q \in Nat /\ q >= 1 /\ q + 1 <= r
          BY <1>3, <1>4, <2>1, <4>1
        <5>2. priceLeg(pool, r, q + 1, dep, arr, quota).net
                <= priceLeg(pool, r, q, dep, arr, quota).net + ((pool \div r) + 3000)
          BY <1>5, <1>6, <5>1, AMetreMore
        <5>3. priceLeg(pool, r, q, dep, arr, quota).net
                <= priceLeg(pool, r, q + 1, dep, arr, quota).net + ((pool \div r) + 3000)
          BY <1>5, <1>6, <5>1, AMetreMore
        <5>4. net <= shown + (w + 3000) /\ shown <= net + (w + 3000)
          BY <1>9, <2>2, <2>5, <5>2, <5>3, <4>1
        <5> QED  BY <1>10, <2>3, <2>5, <5>4
      <4>2. CASE q = p + 1
        <5>1. r \in Nat /\ p \in Nat /\ p >= 1 /\ p + 1 <= r
          BY <1>3, <1>4, <2>1, <4>2
        <5>2. priceLeg(pool, r, p + 1, dep, arr, quota).net
                <= priceLeg(pool, r, p, dep, arr, quota).net + ((pool \div r) + 3000)
          BY <1>5, <1>6, <5>1, AMetreMore
        <5>3. priceLeg(pool, r, p, dep, arr, quota).net
                <= priceLeg(pool, r, p + 1, dep, arr, quota).net + ((pool \div r) + 3000)
          BY <1>5, <1>6, <5>1, AMetreMore
        <5>4. net <= shown + (w + 3000) /\ shown <= net + (w + 3000)
          BY <1>9, <2>2, <2>5, <5>2, <5>3, <4>2
        <5> QED  BY <1>10, <2>3, <2>5, <5>4
      <4> QED  BY <3>1, <4>1, <4>2
    <3> QED  BY <1>8, <1>10, <1>11, <2>2, <2>3, <2>4, <2>5, <2>6, <3>1, <3>2
  <2> QED  BY <2>7, <2>8
<1> QED  BY <1>5, <1>10, <1>11, <1>12, <1>13

\* The parcel stays where it is, and so does everything that is computed from it.
LEMMA ParcelStays ==
  ASSUME parcel' = parcel
  PROVE  /\ WayWithinSegment' = WayWithinSegment
         /\ kmToMeters(Remaining)' = kmToMeters(Remaining)
         /\ RoundingGap' = RoundingGap
         /\ ShelfCeiling(kmToMeters(Remaining))' = ShelfCeiling(kmToMeters(Remaining))
<1>1. kmToMeters(Remaining)' = kmToMeters(Remaining)
  BY DEF kmToMeters, Remaining, distance
<1>2. /\ remainingWorkPool(kmToMeters(Remaining))' = remainingWorkPool(kmToMeters(Remaining))
      /\ ShelfCeiling(kmToMeters(Remaining))' = ShelfCeiling(kmToMeters(Remaining))
  BY <1>1 DEF remainingWorkPool, ShelfCeiling
<1> QED  BY <1>1, <1>2 DEF WayWithinSegment, RoundingGap, WorthOfAMetre, ShelfCeiling

\* Of the leg, AdvertisedIsKept speaks of what was frozen and shown when it was
\* asked for.
LEMMA LegStays ==
  ASSUME BoardInv, parcel' = parcel,
         leg' = leg \/ leg' = NoLeg \/ (leg # NoLeg /\ leg' \in LegRow /\ leg'.net = leg.net
                                          /\ leg'.shown = leg.shown)
  PROVE  WayWithinSegment' /\ (leg' = NoLeg \/ leg' \in LegRow) /\ AdvertisedIsKept'
<1>1. WayWithinSegment' /\ (leg' = NoLeg \/ leg' \in LegRow)
  BY ParcelStays DEF BoardInv
<1>2. leg' # NoLeg => leg # NoLeg /\ leg'.net = leg.net /\ leg'.shown = leg.shown
  OBVIOUS
<1>3. AdvertisedIsKept'
  BY <1>2, ParcelStays DEF BoardInv, AdvertisedIsKept, ShownIsFrozen, ShelfIsCeiling
<1> QED  BY <1>1, <1>3

LEMMA LegRequested ==
  ASSUME BoardConfigured, HubsApart, BoardInv, NEW h \in Hub, leg_request(h)
  PROVE  BoardInv'
<1>1. /\ parcel' = parcel /\ hub' = hub
      /\ ProgressAllowed(parcel.total, kmToMeters(Remaining), AskedProgress(h))
  BY DEF leg_request, ApiAccepts
<1>2. PICK pays, shown :
        /\ pays = FrozenPrice(h).net + FrozenPrice(h).carrierBonus
        /\ shown = IF Option(h) \in Card THEN ShownNet(h) ELSE NotShown
  OBVIOUS
<1>3. leg' = [status |-> "requested", to |-> h, mailed |-> ~hub[h].auto,
              net |-> pays, shown |-> shown]
  BY <1>2 DEF leg_request
<1>4. /\ pays \in Nat
      /\ pays <= ShelfCeiling(kmToMeters(Remaining))
      /\ Option(h) \in Card =>
           ShownNet(h) \in Nat /\ pays - ShownNet(h) \in -RoundingGap .. RoundingGap
  BY <1>1, <1>2, FrozenIsAdvertised DEF BoardInv
<1>5. shown \in Nat \cup {NotShown}
      /\ (shown # NotShown => pays - shown \in -RoundingGap .. RoundingGap)
  BY <1>2, <1>4
<1>6. leg' \in LegRow
  BY <1>3, <1>4, <1>5 DEF LegRow, BoardInv, HubRow
<1>7. leg'.net = pays /\ leg'.shown = shown
  BY <1>3
<1>8. AdvertisedIsKept'
  BY <1>1, <1>4, <1>5, <1>7, ParcelStays DEF AdvertisedIsKept, ShownIsFrozen, ShelfIsCeiling
<1>9. WayWithinSegment' /\ hub' \in [Hub -> HubRow]
  BY <1>1, ParcelStays DEF BoardInv
<1> QED  BY <1>6, <1>8, <1>9 DEF BoardInv

LEMMA BoardStarts ==
  ASSUME BoardConfigured, BoardInit
  PROVE  BoardInv
<1>1. PICK kind \in ParcelKind, m \in Metric, from \in Hub, at \in Hub, dest \in Hub,
           fees \in [Hub -> Fees] :
        /\ at # dest /\ from # dest
        /\ Owner[dest] # "sender"
        /\ RoundedMetres(Fine[m], Distance[m][<<at, dest>>])
             <= RoundedMetres(Fine[m], Distance[m][<<from, dest>>])
        /\ parcel = [kind |-> kind, metric |-> m, at |-> at, dest |-> dest,
                     total |-> RoundedMetres(Fine[m], Distance[m][<<from, dest>>])]
        /\ hub = [h \in Hub |-> [active |-> h \in {at, dest}, erased |-> FALSE,
                                 wallet |-> h \in {at, dest}, auto |-> AutoAccept[h], fee |-> fees[h]]]
  BY Zenon DEF BoardInit
<1>2. leg = NoLeg
  BY DEF BoardInit
<1>3. Fine[m] \in Nat \ {0} /\ Distance[m][<<from, dest>>] \in Nat
  BY DEF BoardConfigured
<1>4. RoundedMetres(Fine[m], Distance[m][<<from, dest>>]) \in Nat
  BY <1>3, RoundingsAgree
<1>5. WayWithinSegment
  BY <1>1, <1>4 DEF WayWithinSegment, kmToMeters, Remaining, distance
<1>6. hub \in [Hub -> HubRow]
  <2>1. ASSUME NEW h \in Hub
        PROVE  [active |-> h \in {at, dest}, erased |-> FALSE, wallet |-> h \in {at, dest},
                auto |-> AutoAccept[h], fee |-> fees[h]] \in HubRow
    <3>1. AutoAccept[h] \in BOOLEAN
      BY DEF BoardConfigured
    <3>2. fees[h] \in Fees
      OBVIOUS
    <3>3. (h \in {at, dest}) \in BOOLEAN
      OBVIOUS
    <3> QED  BY <3>1, <3>2, <3>3, Zenon DEF HubRow
  <2> QED  BY <1>1, <2>1, Zenon
<1>7. AdvertisedIsKept
  BY <1>2 DEF AdvertisedIsKept, ShownIsFrozen, ShelfIsCeiling
<1> QED  BY <1>2, <1>5, <1>6, <1>7 DEF BoardInv

LEMMA BoardKept ==
  ASSUME BoardConfigured, HubsApart, BoardInv, [BoardNext]_boardVars
  PROVE  BoardInv'
<1>1. ASSUME NEW h \in Hub, leg_request(h) PROVE BoardInv'
  BY <1>1, LegRequested
<1>2. ASSUME NEW h \in Hub, HubOpens(h) PROVE BoardInv'
  <2>1. hub' \in [Hub -> HubRow]
    <3>0. AutoAccept[h] \in BOOLEAN
      BY DEF BoardConfigured
    <3>1. PICK fee \in Fees :
            hub' = [hub EXCEPT ![h] = [active |-> TRUE, erased |-> FALSE, wallet |-> FALSE,
                                       auto |-> AutoAccept[h], fee |-> fee]]
      BY <1>2 DEF HubOpens
    <3>2. [active |-> TRUE, erased |-> FALSE, wallet |-> FALSE, auto |-> AutoAccept[h], fee |-> fee]
            \in HubRow
      BY <3>0 DEF HubRow
    <3> QED  BY <3>1, <3>2 DEF BoardInv
  <2>2. parcel' = parcel /\ leg' = leg
    BY <1>2 DEF HubOpens
  <2> QED  BY <2>1, <2>2, LegStays DEF BoardInv
<1>3. ASSUME NEW h \in Hub, WalletToggles(h) \/ HubErased(h) PROVE BoardInv'
  <2>1. hub' \in [Hub -> HubRow]
    <3>1. hub \in [Hub -> HubRow] /\ hub[h] \in HubRow
      BY DEF BoardInv
    <3>2. [hub[h] EXCEPT !.wallet = ~@] \in HubRow
      BY <3>1 DEF HubRow
    <3>3. [hub[h] EXCEPT !.active = FALSE, !.erased = TRUE] \in HubRow
      BY <3>1 DEF HubRow
    <3>4. CASE WalletToggles(h)
      <4>1. hub' = [hub EXCEPT ![h] = [hub[h] EXCEPT !.wallet = ~@]]
        BY <3>4 DEF WalletToggles
      <4> QED  BY <3>1, <3>2, <4>1
    <3>5. CASE HubErased(h)
      <4>1. hub' = [hub EXCEPT ![h] = [hub[h] EXCEPT !.active = FALSE, !.erased = TRUE]]
        BY <3>1, <3>5 DEF HubErased
      <4> QED  BY <3>1, <3>3, <4>1
    <3> QED  BY <1>3, <3>4, <3>5
  <2>2. parcel' = parcel /\ leg' = leg
    BY <1>3 DEF WalletToggles, HubErased
  <2> QED  BY <2>1, <2>2, LegStays DEF BoardInv
<1>4. ASSUME NEW h \in Hub, RouterChanges(h) PROVE BoardInv'
  <2>1. parcel' = parcel /\ leg' = leg /\ hub' = hub
    BY <1>4 DEF RouterChanges
  <2> QED  BY <2>1, LegStays DEF BoardInv
<1>5. CASE deposit_accept
  <2>1. leg.status = "requested" /\ leg' = [leg EXCEPT !.status = "pending_funding"]
        /\ parcel' = parcel /\ hub' = hub
    BY <1>5 DEF deposit_accept
  <2>2. leg \in LegRow
    BY <2>1 DEF BoardInv, NoLeg
  <2>3. leg' \in LegRow /\ leg'.net = leg.net /\ leg'.shown = leg.shown /\ leg # NoLeg
    BY <2>1, <2>2 DEF LegRow, NoLeg
  <2> QED  BY <2>1, <2>3, LegStays DEF BoardInv
<1>6. CASE LegDissolves
  <2>1. leg' = NoLeg /\ parcel' = parcel /\ hub' = hub
    BY <1>6 DEF LegDissolves
  <2> QED  BY <2>1, LegStays DEF BoardInv
<1>7. CASE UNCHANGED boardVars
  <2>1. leg' = leg /\ parcel' = parcel /\ hub' = hub
    BY <1>7 DEF boardVars
  <2> QED  BY <2>1, LegStays DEF BoardInv
<1> QED  BY <1>1, <1>2, <1>3, <1>4, <1>5, <1>6, <1>7 DEF BoardNext

\* What the board and the shelf advertise is what a request gets: the card's net,
\* to the msat on the road metric, and never more than the ceiling of the shelf
\* (matching.ts, hubs.ts).
THEOREM AdvertisedStays ==
  ASSUME BoardConfigured, HubsApart
  PROVE  BoardSpec => []AdvertisedIsKept
<1>1. BoardInit => BoardInv
  BY BoardStarts
<1>2. BoardInv /\ [BoardNext]_boardVars => BoardInv'
  BY BoardKept
<1>3. BoardInv => AdvertisedIsKept
  BY DEF BoardInv
<1> QED  BY <1>1, <1>2, <1>3, PTL DEF BoardSpec

----------------------------------------------------------------------------
(* The route of a carrier.  The stops are sorted, so a pickup comes before *)
(* its drop and some order is feasible; the search keeps, for every set of *)
(* stops and every last one of them, the shortest feasible way.            *)

\* A stop of the route.
Waypoint == [hub : Stop, kind : {"pickup", "drop"}, parcel : Parcel]

\* A table that never repeats a place among as many has them all.
LEMMA OneToOneIsOnto ==
  ASSUME NEW n \in Nat, NEW f \in [1 .. n -> 1 .. n],
         \A i, j \in 1 .. n : f[i] = f[j] => i = j
  PROVE  \A k \in 1 .. n : \E i \in 1 .. n : f[i] = k
<1> SUFFICES ASSUME NEW k \in 1 .. n, \A i \in 1 .. n : f[i] # k PROVE FALSE
  OBVIOUS
<1> DEFINE places == 1 .. n
           others == places \ {k}
<1>1. IsFiniteSet(places) /\ Cardinality(places) = n
  BY FS_Interval
<1>2. IsFiniteSet(others) /\ Cardinality(others) = n - 1
  BY <1>1, FS_RemoveElement
<1>3. f \in [places -> others] /\ \A i, j \in places : f[i] = f[j] => i = j
  OBVIOUS
<1>4. Cardinality(others) < Cardinality(places)
  BY <1>1, <1>2
<1> HIDE DEF places, others
<1>5. f \in Injection(places, others)
  BY <1>3, Fun_IsInj
<1>6. Cardinality(places) <= Cardinality(others)
  BY <1>2, <1>5, FS_Injection
<1> QED  BY <1>1, <1>2, <1>6

----------------------------------------------------------------------------
(* The sort.                                                               *)

\* The comparison is irreflexive and transitive, with ties only between equals.
LEMMA CanonicalIsOrder ==
  ASSUME ItineraryConfigured, NEW a \in Waypoint, NEW b \in Waypoint, NEW c \in Waypoint
  PROVE  /\ ~canonicalCompare(a, a)
         /\ canonicalCompare(a, b) => ~canonicalCompare(b, a)
         /\ canonicalCompare(a, b) /\ canonicalCompare(b, c) => canonicalCompare(a, c)
         /\ ~canonicalCompare(a, b) /\ ~canonicalCompare(b, c) => ~canonicalCompare(a, c)
<1>1. /\ a.parcel \in Nat /\ b.parcel \in Nat /\ c.parcel \in Nat
      /\ StopOrder[a.hub] \in Nat /\ StopOrder[b.hub] \in Nat /\ StopOrder[c.hub] \in Nat
      /\ a.kind \in {"pickup", "drop"} /\ b.kind \in {"pickup", "drop"}
      /\ c.kind \in {"pickup", "drop"}
  BY DEF ItineraryConfigured, Waypoint
<1> QED  BY <1>1 DEF canonicalCompare

\* So the stable order of the stops is strict and total.
LEMMA BeforeIsOrder ==
  ASSUME ItineraryConfigured, NEW stops \in Seq(Waypoint),
         NEW i \in DOMAIN stops, NEW j \in DOMAIN stops, NEW k \in DOMAIN stops
  PROVE  /\ ~Before(stops, i, i)
         /\ i # j => Before(stops, i, j) \/ Before(stops, j, i)
         /\ Before(stops, i, j) => ~Before(stops, j, i)
         /\ Before(stops, i, j) /\ Before(stops, j, k) => Before(stops, i, k)
<1>1. stops[i] \in Waypoint /\ stops[j] \in Waypoint /\ stops[k] \in Waypoint
      /\ i \in Int /\ j \in Int /\ k \in Int
  OBVIOUS
<1>2. ~canonicalCompare(stops[i], stops[i])
  BY <1>1, CanonicalIsOrder
<1>3. canonicalCompare(stops[i], stops[j]) => ~canonicalCompare(stops[j], stops[i])
  BY <1>1, CanonicalIsOrder
<1>4. ~Before(stops, i, i)
  BY <1>1, <1>2 DEF Before
<1>5. i # j => Before(stops, i, j) \/ Before(stops, j, i)
  BY <1>1, <1>3 DEF Before
<1>6. Before(stops, i, j) => ~Before(stops, j, i)
  BY <1>1, <1>3 DEF Before
<1>7. Before(stops, i, j) /\ Before(stops, j, k) => Before(stops, i, k)
  <2>1. canonicalCompare(stops[j], stops[k]) => ~canonicalCompare(stops[k], stops[j])
    BY <1>1, CanonicalIsOrder
  <2>2. \A a, b, c \in {i, j, k} :
          /\ canonicalCompare(stops[a], stops[b]) /\ canonicalCompare(stops[b], stops[c])
               => canonicalCompare(stops[a], stops[c])
          /\ ~canonicalCompare(stops[a], stops[b]) /\ ~canonicalCompare(stops[b], stops[c])
               => ~canonicalCompare(stops[a], stops[c])
    <3> TAKE a, b, c \in {i, j, k}
    <3>1. stops[a] \in Waypoint /\ stops[b] \in Waypoint /\ stops[c] \in Waypoint
      OBVIOUS
    <3> QED  BY <3>1, CanonicalIsOrder
  <2>3. /\ canonicalCompare(stops[i], stops[j]) /\ canonicalCompare(stops[j], stops[k])
             => canonicalCompare(stops[i], stops[k])
        /\ canonicalCompare(stops[k], stops[i]) /\ canonicalCompare(stops[i], stops[j])
             => canonicalCompare(stops[k], stops[j])
        /\ canonicalCompare(stops[j], stops[k]) /\ canonicalCompare(stops[k], stops[i])
             => canonicalCompare(stops[j], stops[i])
        /\ ~canonicalCompare(stops[k], stops[j]) /\ ~canonicalCompare(stops[j], stops[i])
             => ~canonicalCompare(stops[k], stops[i])
        /\ ~canonicalCompare(stops[i], stops[k]) /\ ~canonicalCompare(stops[k], stops[j])
             => ~canonicalCompare(stops[i], stops[j])
        /\ ~canonicalCompare(stops[j], stops[i]) /\ ~canonicalCompare(stops[i], stops[k])
             => ~canonicalCompare(stops[j], stops[k])
    BY <2>2
  <2> HIDE <2>2
  <2> DEFINE ij == canonicalCompare(stops[i], stops[j])
             ji == canonicalCompare(stops[j], stops[i])
             jk == canonicalCompare(stops[j], stops[k])
             kj == canonicalCompare(stops[k], stops[j])
             ik == canonicalCompare(stops[i], stops[k])
             ki == canonicalCompare(stops[k], stops[i])
  <2>4. (ij \/ (i < j /\ ~ji)) /\ (jk \/ (j < k /\ ~kj)) => (ik \/ (i < k /\ ~ki))
    <3>1. (ij => ~ji) /\ (jk => ~kj)
      BY <1>3, <2>1
    <3>2. i < j /\ j < k => i < k
      BY <1>1
    <3>3. (ij /\ jk => ik) /\ (ki /\ ij => kj) /\ (jk /\ ki => ji)
          /\ (~kj /\ ~ji => ~ki) /\ (~ik /\ ~kj => ~ij) /\ (~ji /\ ~ik => ~jk)
      BY <2>3
    <3> HIDE DEF ij, ji, jk, kj, ik, ki
    <3> QED  BY <3>1, <3>2, <3>3
  <2> QED  BY <2>4 DEF Before
<1> QED  BY <1>4, <1>5, <1>6, <1>7

\* The rank of a stop is its place in the order: every place is one stop's.
LEMMA RanksAreThePlaces ==
  ASSUME ItineraryConfigured, NEW stops \in Seq(Waypoint)
  PROVE  /\ \A i \in DOMAIN stops : Rank(stops, i) \in DOMAIN stops
         /\ \A i, j \in DOMAIN stops : Before(stops, i, j) => Rank(stops, i) < Rank(stops, j)
         /\ \A i, j \in DOMAIN stops : Rank(stops, i) = Rank(stops, j) => i = j
         /\ \A k \in DOMAIN stops : \E i \in DOMAIN stops : Rank(stops, i) = k
<1> DEFINE n == Len(stops)
           Upto(i) == {j \in DOMAIN stops : j = i \/ Before(stops, j, i)}
<1>1. n \in Nat /\ DOMAIN stops = 1 .. n
  OBVIOUS
<1>2. IsFiniteSet(1 .. n) /\ Cardinality(1 .. n) = n
  BY <1>1, FS_Interval
<1> HIDE DEF n
<1>3. \A i \in DOMAIN stops : Upto(i) \in SUBSET (1 .. n) /\ i \in Upto(i)
  BY <1>1
<1>4. \A i \in DOMAIN stops : Rank(stops, i) = Cardinality(Upto(i))
  BY DEF Rank
<1>5. \A i \in DOMAIN stops :
        IsFiniteSet(Upto(i)) /\ Cardinality(Upto(i)) \in Nat /\ Cardinality(Upto(i)) <= n
  BY <1>2, <1>3, FS_Subset, FS_CardinalityType
<1>6. \A i, j \in DOMAIN stops :
        Before(stops, i, j) => Upto(i) \subseteq Upto(j) /\ j \notin Upto(i)
  <2> TAKE i, j \in DOMAIN stops
  <2> HAVE Before(stops, i, j)
  <2>1. \A k \in DOMAIN stops : Before(stops, k, i) => Before(stops, k, j)
    BY BeforeIsOrder
  <2>2. ~Before(stops, j, i) /\ j # i
    BY BeforeIsOrder
  <2> QED  BY <2>1, <2>2
<1> HIDE DEF Upto
<1>7. \A i \in DOMAIN stops : Rank(stops, i) \in DOMAIN stops
  <2> TAKE i \in DOMAIN stops
  <2>1. Cardinality(Upto(i)) # 0
    BY <1>3, <1>5, FS_EmptySet
  <2> QED  BY <2>1, <1>1, <1>4, <1>5
<1>8. \A i, j \in DOMAIN stops : Before(stops, i, j) => Rank(stops, i) < Rank(stops, j)
  <2> TAKE i, j \in DOMAIN stops
  <2> HAVE Before(stops, i, j)
  <2>1. Upto(i) \in SUBSET Upto(j) /\ Upto(i) # Upto(j)
    BY <1>3, <1>6
  <2>2. Cardinality(Upto(i)) <= Cardinality(Upto(j)) /\ Cardinality(Upto(i)) # Cardinality(Upto(j))
    BY <2>1, <1>5, FS_Subset
  <2> QED  BY <2>2, <1>4, <1>5
<1>9. \A i, j \in DOMAIN stops : Rank(stops, i) = Rank(stops, j) => i = j
  <2> TAKE i, j \in DOMAIN stops
  <2>1. Rank(stops, i) \in Nat /\ Rank(stops, j) \in Nat
    BY <1>4, <1>5
  <2>2. i # j => Before(stops, i, j) \/ Before(stops, j, i)
    BY BeforeIsOrder
  <2>3. Before(stops, i, j) => Rank(stops, i) < Rank(stops, j)
    BY <1>8
  <2>4. Before(stops, j, i) => Rank(stops, j) < Rank(stops, i)
    BY <1>8
  <2> QED  BY <2>1, <2>2, <2>3, <2>4
<1>10. \A k \in DOMAIN stops : \E i \in DOMAIN stops : Rank(stops, i) = k
  <2> DEFINE rank == [i \in 1 .. n |-> Rank(stops, i)]
  <2>1. rank \in [1 .. n -> 1 .. n] /\ \A i, j \in 1 .. n : rank[i] = rank[j] => i = j
    BY <1>1, <1>7, <1>9
  <2>2. \A i \in 1 .. n : rank[i] = Rank(stops, i)
    OBVIOUS
  <2> HIDE DEF rank
  <2>3. \A k \in 1 .. n : \E i \in 1 .. n : rank[i] = k
    BY <2>1, <1>1, OneToOneIsOnto
  <2> QED  BY <2>2, <2>3, <1>1
<1> QED  BY <1>7, <1>8, <1>9, <1>10

\* The sorted stops are the stops, each at its rank.
LEMMA SortedByRank ==
  ASSUME ItineraryConfigured, NEW stops \in Seq(Waypoint)
  PROVE  /\ Sorted(stops) \in Seq(Waypoint)
         /\ DOMAIN Sorted(stops) = DOMAIN stops
         /\ \A i \in DOMAIN stops : Sorted(stops)[Rank(stops, i)] = stops[i]
<1> DEFINE at(k) == CHOOSE i \in DOMAIN stops : Rank(stops, i) = k
<1>1. \A k \in DOMAIN stops : at(k) \in DOMAIN stops /\ Rank(stops, at(k)) = k
  BY RanksAreThePlaces
<1>2. \A i \in DOMAIN stops : Rank(stops, i) \in DOMAIN stops
  BY RanksAreThePlaces
<1>3. \A i \in DOMAIN stops : at(Rank(stops, i)) = i
  <2> TAKE i \in DOMAIN stops
  <2>1. Rank(stops, at(Rank(stops, i))) = Rank(stops, i) /\ at(Rank(stops, i)) \in DOMAIN stops
    BY <1>1, <1>2
  <2> HIDE DEF at
  <2> QED  BY <2>1, RanksAreThePlaces
<1>4. Sorted(stops) = [k \in DOMAIN stops |-> stops[at(k)]]
  BY DEF Sorted
<1> HIDE DEF at
<1>5. Sorted(stops) \in Seq(Waypoint) /\ DOMAIN Sorted(stops) = DOMAIN stops
  <2>1. Len(stops) \in Nat /\ DOMAIN stops = 1 .. Len(stops)
    OBVIOUS
  <2>2. \A k \in DOMAIN stops : stops[at(k)] \in Waypoint
    BY <1>1
  <2>3. [k \in 1 .. Len(stops) |-> stops[at(k)]] \in Seq(Waypoint)
    BY <2>1, <2>2
  <2> QED  BY <1>4, <2>1, <2>3
<1> QED  BY <1>2, <1>3, <1>4, <1>5

\* Sorted, the pickup of a parcel comes before its drop.
LEMMA SortedPicksUpFirst ==
  ASSUME ItineraryConfigured, NEW stops \in Seq(Waypoint),
         NEW i \in DOMAIN Sorted(stops), NEW j \in mustPrecede(Sorted(stops), i)
  PROVE  j < i
<1> DEFINE ordered == Sorted(stops)
<1>1. /\ ordered[i].kind = "drop" /\ j \in DOMAIN ordered /\ ordered[j].kind = "pickup"
      /\ ordered[j].parcel = ordered[i].parcel
  BY DEF mustPrecede
<1>2. DOMAIN ordered = DOMAIN stops
  BY SortedByRank
<1>3. PICK a \in DOMAIN stops : Rank(stops, a) = i
  BY <1>2, RanksAreThePlaces
<1>4. PICK b \in DOMAIN stops : Rank(stops, b) = j
  BY <1>1, <1>2, RanksAreThePlaces
<1>5. ordered[i] = stops[a] /\ ordered[j] = stops[b]
  BY <1>3, <1>4, SortedByRank
<1>6. canonicalCompare(stops[b], stops[a])
  BY <1>1, <1>5 DEF canonicalCompare
<1>7. Rank(stops, b) < Rank(stops, a)
  BY <1>6, RanksAreThePlaces DEF Before
<1> QED  BY <1>3, <1>4, <1>7
----------------------------------------------------------------------------
(* The search.                                                             *)

\* A set with 0 and the successor of each of its naturals has them all.
LEMMA NaturalsInductive ==
  ASSUME NEW T, 0 \in T, \A n \in Nat : n \in T => n + 1 \in T
  PROVE  \A n \in Nat : n \in T
<1> SUFFICES ASSUME NEW n \in Nat, n \notin T PROVE FALSE
  OBVIOUS
<1> DEFINE S == {m \in 0 .. n : m \notin T}
           v == [m \in 0 .. n |-> m]
<1>1. IsFiniteSet(S)
  <2>1. IsFiniteSet(0 .. n) /\ S \in SUBSET (0 .. n)
    BY FS_Interval
  <2> HIDE DEF S
  <2> QED  BY <2>1, FS_Subset
<1>2. n \in S /\ \A m \in S : v[m] = m /\ v[m] \in Nat
  OBVIOUS
<1>3. \A m \in S : m \in Nat /\ m <= n /\ m \notin T
  OBVIOUS
<1>4. \A m \in Nat : m <= n /\ m \notin T => m \in S
  OBVIOUS
<1> HIDE DEF S, v
<1>5. PICK least \in S : \A m \in S : v[least] <= v[m]
  BY <1>1, <1>2, LeastExists
<1>6. least \in Nat /\ least # 0 /\ least - 1 \in Nat /\ least - 1 <= n
  BY <1>3, <1>5
<1>7. least - 1 \notin S
  BY <1>2, <1>3, <1>5, <1>6
<1>8. (least - 1) + 1 \in T
  BY <1>4, <1>6, <1>7
<1> QED  BY <1>3, <1>5, <1>6, <1>8

\* The table of the search is defined: a row depends on those of smaller sets only.
LEMMA TableOfWays ==
  ASSUME NEW ordered, IsFiniteSet(DOMAIN ordered)
  PROVE  \A S \in SUBSET DOMAIN ordered :
           dp(ordered)[S] = [last \in DOMAIN ordered |->
                               Extended(ordered, S, last, dp(ordered)[S \ {last}])]
<1> DEFINE D == SUBSET DOMAIN ordered
           Row(S, f) == [last \in DOMAIN ordered |-> Extended(ordered, S, last, f[S \ {last}])]
           RowsOf(f) == [S \in D |-> Row(S, f)]
           T == {n \in Nat : \E f : \A S \in D : Cardinality(S) < n => f[S] = Row(S, f)}
<1>1. \A S \in D : IsFiniteSet(S) /\ Cardinality(S) \in Nat
                     /\ Cardinality(S) <= Cardinality(DOMAIN ordered)
  BY FS_Subset, FS_CardinalityType
<1>2. \A f, g : \A S \in D :
        (\A last \in S : f[S \ {last}] = g[S \ {last}]) => Row(S, f) = Row(S, g)
  <2>1. \A S, last, row : last \notin S => Extended(ordered, S, last, row) = Unreached
    BY DEF Extended
  <2> TAKE f, g
  <2> TAKE S \in D
  <2> HAVE \A last \in S : f[S \ {last}] = g[S \ {last}]
  <2>3. \A last \in DOMAIN ordered :
          Extended(ordered, S, last, f[S \ {last}]) = Extended(ordered, S, last, g[S \ {last}])
    BY <2>1
  <2> QED  BY <2>3
<1>3. \A S \in D : \A last \in S :
        S \ {last} \in D /\ Cardinality(S \ {last}) = Cardinality(S) - 1
  BY <1>1, FS_RemoveElement
<1>4. 0 \in T
  BY <1>1
<1>5. \A n \in Nat : n \in T => n + 1 \in T
  <2> TAKE n \in Nat
  <2> HAVE n \in T
  <2>1. PICK f : \A S \in D : Cardinality(S) < n => f[S] = Row(S, f)
    OBVIOUS
  <2> DEFINE g == RowsOf(f)
  <2>2. \A S \in D : g[S] = Row(S, f)
    OBVIOUS
  <2> HIDE DEF g, Row, D
  <2>3. ASSUME NEW S \in D, Cardinality(S) < n + 1 PROVE g[S] = Row(S, g)
    <3>1. \A last \in S : f[S \ {last}] = g[S \ {last}]
      <4> TAKE last \in S
      <4>1. S \ {last} \in D /\ Cardinality(S \ {last}) < n
        BY <1>1, <1>3, <2>3
      <4> QED  BY <4>1, <2>1, <2>2
    <3> QED  BY <3>1, <1>2, <2>2
  <2> QED  BY <2>3
<1> HIDE DEF T
<1>6. Cardinality(DOMAIN ordered) + 1 \in T
  BY <1>1, <1>4, <1>5, NaturalsInductive
<1>7. PICK f : \A S \in D : Cardinality(S) < Cardinality(DOMAIN ordered) + 1 => f[S] = Row(S, f)
  BY <1>6 DEF T
<1>8. \A S \in D : f[S] = Row(S, f)
  <2>1. \A S \in D : Cardinality(S) < Cardinality(DOMAIN ordered) + 1
    BY <1>1
  <2> HIDE DEF Row, D
  <2> QED  BY <1>7, <2>1
<1> DEFINE g == RowsOf(f)
           best == CHOOSE h : h = RowsOf(h)
<1>9. \A S \in D : g[S] = f[S]
  BY <1>8
<1>10. g = RowsOf(g)
  <2>1. \A S \in D : Row(S, f) = Row(S, g)
    <3> TAKE S \in D
    <3>1. \A last \in S : f[S \ {last}] = g[S \ {last}]
      BY <1>9
    <3> HIDE DEF g, Row
    <3> QED  BY <3>1, <1>2
  <2> HIDE DEF Row
  <2> QED  BY <2>1
<1>11. best = RowsOf(best)
  <2> HIDE DEF g, RowsOf
  <2> QED  BY <1>10
<1>12. dp(ordered) = best
  BY DEF dp
<1>13. \A S \in D : best[S] = Row(S, best)
  <2> HIDE DEF best, Row
  <2> QED  BY <1>11
<1> HIDE DEF best
<1> QED  BY <1>12, <1>13

\* The way to a stop of a route is the way to the one before and the hop between.
LEMMA TravelledByHops ==
  ASSUME NEW route, NEW n \in Nat, DOMAIN route = 1 .. n, Len(route) = n
  PROVE  \E upTo : /\ upTo[0] = 0
                   /\ \A k \in 1 .. n : upTo[k] = upTo[k - 1] + Hop(route, k)
                   /\ Travelled(route) = upTo[n]
<1> DEFINE Entry(f, k) == IF k = 0 THEN 0 ELSE f[k - 1] + Hop(route, k)
           Unfolded(f) == [k \in 0 .. n |-> Entry(f, k)]
           T == {m \in Nat : \E f : \A k \in 0 .. n : k < m => f[k] = Entry(f, k)}
<1>1. 0 \in T
  OBVIOUS
<1>2. \A m \in Nat : m \in T => m + 1 \in T
  <2> TAKE m \in Nat
  <2> HAVE m \in T
  <2>1. PICK f : \A k \in 0 .. n : k < m => f[k] = Entry(f, k)
    OBVIOUS
  <2> DEFINE g == Unfolded(f)
  <2>2. \A k \in 0 .. n : g[k] = Entry(f, k)
    OBVIOUS
  <2> HIDE DEF g
  <2>3. \A k \in 0 .. n : k < m + 1 => g[k] = Entry(g, k)
    <3> TAKE k \in 0 .. n
    <3> HAVE k < m + 1
    <3>1. CASE k = 0
      BY <3>1, <2>2
    <3>2. CASE k # 0
      <4>1. k - 1 \in 0 .. n /\ k - 1 < m
        BY <3>2
      <4>2. f[k - 1] = g[k - 1]
        BY <4>1, <2>1, <2>2
      <4> QED  BY <3>2, <4>2, <2>2
    <3> QED  BY <3>1, <3>2
  <2> QED  BY <2>3
<1> HIDE DEF T
<1>3. n + 1 \in T
  BY <1>1, <1>2, NaturalsInductive
<1>4. PICK f : \A k \in 0 .. n : k < n + 1 => f[k] = Entry(f, k)
  BY <1>3 DEF T
<1>5. \A k \in 0 .. n : f[k] = Entry(f, k)
  BY <1>4
<1> DEFINE g == Unfolded(f)
           upTo == CHOOSE h : h = Unfolded(h)
<1>6. g = Unfolded(g)
  <2>1. \A k \in 0 .. n : g[k] = f[k]
    BY <1>5
  <2>2. \A k \in 0 .. n : Entry(f, k) = Entry(g, k)
    <3> TAKE k \in 0 .. n
    <3>1. k # 0 => f[k - 1] = g[k - 1]
      BY <2>1
    <3> HIDE DEF g
    <3> QED  BY <3>1
  <2> HIDE DEF Entry
  <2> QED  BY <2>2
<1>7. upTo = Unfolded(upTo)
  <2> HIDE DEF g, Unfolded
  <2> QED  BY <1>6
<1>8. Travelled(route) = upTo[n]
  BY DEF Travelled
<1>9. \A k \in 0 .. n : upTo[k] = Entry(upTo, k)
  <2> HIDE DEF upTo, Entry
  <2> QED  BY <1>7
<1> HIDE DEF upTo
<1>10. upTo[0] = 0 /\ \A k \in 1 .. n : upTo[k] = upTo[k - 1] + Hop(route, k)
  BY <1>9
<1> QED  BY <1>8, <1>10

\* One stop more costs its hop.
LEMMA TravelledOneMore ==
  ASSUME ItineraryConfigured, NEW route \in Seq(Waypoint), NEW n \in Nat, n = Len(route), n > 0
  PROVE  LET front == [k \in 1 .. n - 1 |-> route[k]]
         IN  /\ Travelled(front) \in Nat
             /\ Travelled(route) = Travelled(front) + Hop(route, n)
             /\ n = 1 => Travelled(front) = 0
<1> DEFINE front == [k \in 1 .. n - 1 |-> route[k]]
<1>1. DOMAIN route = 1 .. n /\ \A k \in 1 .. n : route[k] \in Waypoint
  OBVIOUS
<1>2. front \in Seq(Waypoint) /\ DOMAIN front = 1 .. n - 1 /\ Len(front) = n - 1 /\ n - 1 \in Nat
  <2>1. n - 1 \in Nat /\ \A k \in 1 .. n - 1 : route[k] \in Waypoint
    BY <1>1
  <2> QED  BY <2>1
<1>3. \A k \in 1 .. n : Hop(route, k) \in Nat
  <2> TAKE k \in 1 .. n
  <2>1. \A i \in 1 .. n : route[i].hub \in Place
    BY <1>1 DEF Waypoint, Place
  <2>2. (IF k = 1 THEN "O" ELSE route[k - 1].hub) \in Place
    BY <2>1 DEF Place
  <2> QED  BY <2>1, <2>2 DEF Hop, ItineraryConfigured
<1>4. \A k \in 1 .. n - 1 : Hop(front, k) = Hop(route, k)
  <2> TAKE k \in 1 .. n - 1
  <2>1. front[k] = route[k] /\ (k # 1 => front[k - 1] = route[k - 1])
    OBVIOUS
  <2> HIDE DEF front
  <2> QED  BY <2>1 DEF Hop
<1>5. PICK u : /\ u[0] = 0 /\ \A k \in 1 .. n : u[k] = u[k - 1] + Hop(route, k)
               /\ Travelled(route) = u[n]
  BY <1>1, TravelledByHops
<1>6. PICK w : /\ w[0] = 0 /\ \A k \in 1 .. n - 1 : w[k] = w[k - 1] + Hop(front, k)
               /\ Travelled(front) = w[n - 1]
  <2> HIDE DEF front
  <2>1. ASSUME NEW m \in Nat, m = n - 1
        PROVE  \E w : /\ w[0] = 0 /\ \A k \in 1 .. m : w[k] = w[k - 1] + Hop(front, k)
                      /\ Travelled(front) = w[m]
    BY <1>2, <2>1, TravelledByHops
  <2> QED  BY <1>2, <2>1
<1> HIDE DEF front
<1> DEFINE T == {k \in Nat : k <= n - 1 => u[k] = w[k] /\ w[k] \in Nat}
<1>7. 0 \in T
  BY <1>5, <1>6
<1>8. \A k \in Nat : k \in T => k + 1 \in T
  <2> TAKE k \in Nat
  <2> HAVE k \in T
  <2> SUFFICES ASSUME k + 1 <= n - 1 PROVE u[k + 1] = w[k + 1] /\ w[k + 1] \in Nat
    OBVIOUS
  <2>1. k + 1 \in 1 .. n - 1 /\ k + 1 \in 1 .. n /\ u[k] = w[k] /\ w[k] \in Nat
    OBVIOUS
  <2>2. u[k + 1] = u[k] + Hop(route, k + 1)
    BY <2>1, <1>5
  <2>3. w[k + 1] = w[k] + Hop(route, k + 1)
    BY <2>1, <1>6, <1>4
  <2> QED  BY <2>1, <2>2, <2>3, <1>3
<1> HIDE DEF T
<1>9. n - 1 \in T
  BY <1>2, <1>7, <1>8, NaturalsInductive
<1>10. u[n - 1] = w[n - 1] /\ w[n - 1] \in Nat
  BY <1>9, <1>2 DEF T
<1>11. u[n] = u[n - 1] + Hop(route, n)
  BY <1>5
<1>12. n = 1 => w[n - 1] = 0
  BY <1>6
<1> QED  BY <1>5, <1>6, <1>10, <1>11, <1>12 DEF front

\* A route given by the numbers of its stops, and one that visits the stops S once
\* each, nothing before what must precede it.
Along(ordered, p) == [k \in DOMAIN p |-> ordered[p[k]]]
Feasible(ordered, S, p) ==
  /\ p \in Seq(S)
  /\ \A i, j \in DOMAIN p : p[i] = p[j] => i = j
  /\ \A s \in S : \E i \in DOMAIN p : p[i] = s
  /\ \A k \in DOMAIN p : \A m \in mustPrecede(ordered, p[k]) : \E j \in DOMAIN p : j < k /\ p[j] = m

\* The stops of a way, one for each of its places.
LEMMA AlongIsRoute ==
  ASSUME NEW ordered \in Seq(Waypoint), NEW p \in Seq(DOMAIN ordered)
  PROVE  /\ Along(ordered, p) \in Seq(Waypoint)
         /\ DOMAIN Along(ordered, p) = DOMAIN p
         /\ Len(Along(ordered, p)) = Len(p)
         /\ \A k \in DOMAIN p : Along(ordered, p)[k] = ordered[p[k]]
<1>1. Len(p) \in Nat /\ DOMAIN p = 1 .. Len(p)
  OBVIOUS
<1>2. \A k \in DOMAIN p : p[k] \in DOMAIN ordered /\ ordered[p[k]] \in Waypoint
  OBVIOUS
<1>3. Along(ordered, p) = [k \in 1 .. Len(p) |-> ordered[p[k]]]
  BY <1>1 DEF Along
<1> QED  BY <1>1, <1>2, <1>3

\* The way p without its last stop.
IsFront(q, p) == q = [k \in 1 .. Len(p) - 1 |-> p[k]]

\* The metres of a way: those of its front, and the hop to its last stop.
LEMMA MetresAlong ==
  ASSUME ItineraryConfigured, NEW ordered \in Seq(Waypoint), NEW p \in Seq(DOMAIN ordered),
         NEW n \in Nat, n = Len(p), n > 0, NEW q, IsFront(q, p)
  PROVE  /\ Travelled(Along(ordered, p)) \in Nat
         /\ n = 1 => Travelled(Along(ordered, p)) = MetresBetween[<<"O", ordered[p[1]].hub>>]
         /\ n > 1 => Travelled(Along(ordered, p)) =
                       Travelled(Along(ordered, q))
                         + MetresBetween[<<ordered[p[n - 1]].hub, ordered[p[n]].hub>>]
<1> DEFINE route == Along(ordered, p)
           front == [k \in 1 .. n - 1 |-> route[k]]
<1>1. route \in Seq(Waypoint) /\ Len(route) = n /\ DOMAIN p = 1 .. n
      /\ \A k \in 1 .. n : route[k] = ordered[p[k]]
  BY AlongIsRoute
<1>2. \A k \in 1 .. n : ordered[p[k]].hub \in Stop
  <2> TAKE k \in 1 .. n
  <2>1. ordered[p[k]] \in Waypoint
    BY <1>1
  <2> QED  BY <2>1 DEF Waypoint
<1>3. front = Along(ordered, q)
  <2>1. DOMAIN q = 1 .. n - 1 /\ \A k \in 1 .. n - 1 : q[k] = p[k] /\ route[k] = ordered[p[k]]
    BY <1>1 DEF IsFront
  <2>2. Along(ordered, q) = [k \in 1 .. n - 1 |-> ordered[q[k]]]
    BY <2>1 DEF Along
  <2> HIDE DEF route
  <2>3. \A k \in 1 .. n - 1 : route[k] = ordered[q[k]]
    BY <2>1
  <2> QED  BY <2>2, <2>3
<1> HIDE DEF route
<1>4. /\ Travelled(front) \in Nat
      /\ Travelled(route) = Travelled(front) + Hop(route, n)
      /\ n = 1 => Travelled(front) = 0
  BY <1>1, TravelledOneMore
<1> HIDE DEF front
<1>5. Hop(route, n) = IF n = 1 THEN MetresBetween[<<"O", ordered[p[1]].hub>>]
                      ELSE MetresBetween[<<ordered[p[n - 1]].hub, ordered[p[n]].hub>>]
  <2>1. route[n] = ordered[p[n]]
    BY <1>1
  <2>2. n # 1 => route[n - 1] = ordered[p[n - 1]]
    BY <1>1
  <2> QED  BY <2>1, <2>2 DEF Hop
<1>6. Hop(route, n) \in Nat
  <2>1. n # 1 => ordered[p[n - 1]].hub \in Place
    BY <1>2 DEF Place
  <2>2. ordered[p[n]].hub \in Place /\ "O" \in Place
    BY <1>2 DEF Place
  <2> QED  BY <1>5, <2>1, <2>2 DEF ItineraryConfigured
<1>7. /\ Travelled(route) \in Nat
      /\ n = 1 => Travelled(route) = MetresBetween[<<"O", ordered[p[1]].hub>>]
      /\ n > 1 => Travelled(route) =
                    Travelled(front) + MetresBetween[<<ordered[p[n - 1]].hub, ordered[p[n]].hub>>]
  <2>1. n = 1 => Hop(route, n) = MetresBetween[<<"O", ordered[p[1]].hub>>]
    BY <1>5
  <2>2. n > 1 => Hop(route, n) = MetresBetween[<<ordered[p[n - 1]].hub, ordered[p[n]].hub>>]
    <3>1. \A m \in Nat : m > 1 => m # 1
      OBVIOUS
    <3>2. n # 1 => Hop(route, n) = MetresBetween[<<ordered[p[n - 1]].hub, ordered[p[n]].hub>>]
      BY <1>5
    <3> QED  BY <3>1, <3>2
  <2>3. Travelled(route) \in Nat /\ (n = 1 => Travelled(route) = Hop(route, n))
    BY <1>4, <1>6
  <2> QED  BY <1>4, <2>1, <2>2, <2>3
<1> QED  BY <1>3, <1>7 DEF route

\* The cheapest of some is one of them, and costs no more than any.
LEMMA CheapestIsLeast ==
  ASSUME NEW S \in SUBSET Nat, IsFiniteSet(S), S # {}, NEW cost, DOMAIN cost = S,
         \A i \in S : cost[i] \in Nat
  PROVE  Cheapest(cost) \in S /\ \A i \in S : cost[Cheapest(cost)] <= cost[i]
<1>1. PICK least \in S : \A i \in S : cost[least] <= cost[i]
  BY LeastExists
<1> DEFINE Ties == {i \in S : cost[i] = cost[least]}
           index == [i \in S |-> i]
<1>2. IsFiniteSet(Ties) /\ Ties # {}
  BY FS_Subset
<1>3. \A i \in Ties : i \in S /\ cost[i] = cost[least] /\ index[i] = i /\ index[i] \in Nat
  OBVIOUS
<1>4. \A i \in S : cost[i] = cost[least] => i \in Ties
  OBVIOUS
<1> HIDE DEF Ties, index
<1>5. PICK first \in Ties : \A i \in Ties : index[first] <= index[i]
  BY <1>2, <1>3, LeastExists
<1>6. \A j \in S : cost[first] < cost[j] \/ (cost[first] = cost[j] /\ first <= j)
  <2> TAKE j \in S
  <2>1. cost[first] = cost[least] /\ cost[least] <= cost[j] /\ cost[j] \in Nat /\ cost[least] \in Nat
    BY <1>1, <1>3
  <2>2. cost[j] = cost[least] => first <= j
    BY <1>3, <1>4, <1>5
  <2> QED  BY <2>1, <2>2
<1>7. /\ Cheapest(cost) \in DOMAIN cost
      /\ \A j \in DOMAIN cost : \/ cost[Cheapest(cost)] < cost[j]
                                \/ cost[Cheapest(cost)] = cost[j] /\ Cheapest(cost) <= j
  BY <1>3, <1>6 DEF Cheapest
<1>8. \A j \in S : cost[Cheapest(cost)] <= cost[j]
  <2> TAKE j \in S
  <2>1. cost[Cheapest(cost)] \in Nat /\ cost[j] \in Nat
    BY <1>7
  <2> QED  BY <1>7, <2>1
<1> QED  BY <1>7, <1>8

\* Without its last stop a feasible way visits the others.
LEMMA FrontIsFeasible ==
  ASSUME NEW ordered, NEW S, NEW p, Feasible(ordered, S, p), p # <<>>, NEW q, IsFront(q, p)
  PROVE  /\ p[Len(p)] \in S
         /\ mustPrecede(ordered, p[Len(p)]) \subseteq S \ {p[Len(p)]}
         /\ Feasible(ordered, S \ {p[Len(p)]}, q)
         /\ Len(p) = 1 <=> S \ {p[Len(p)]} = {}
         /\ Len(p) > 1 => /\ q # <<>> /\ q[Len(q)] = p[Len(p) - 1]
                          /\ p[Len(p) - 1] \in S \ {p[Len(p)]}
<1> PICK n \in Nat : n = Len(p) /\ n > 0
  <2>1. p \in Seq(S)
    BY DEF Feasible
  <2> QED  BY <2>1
<1>1. /\ p \in Seq(S) /\ DOMAIN p = 1 .. n /\ n \in DOMAIN p
      /\ \A i \in 1 .. n : p[i] \in S
      /\ \A i, j \in 1 .. n : p[i] = p[j] => i = j
      /\ \A s \in S : \E i \in 1 .. n : p[i] = s
  BY DEF Feasible
<1>11. \A k \in DOMAIN p : \A m \in mustPrecede(ordered, p[k]) : \E j \in DOMAIN p : j < k /\ p[j] = m
  BY DEF Feasible
<1>2. mustPrecede(ordered, p[n]) \subseteq S \ {p[n]}
  <2> SUFFICES ASSUME NEW m \in mustPrecede(ordered, p[n]) PROVE m \in S /\ m # p[n]
    OBVIOUS
  <2>1. n \in 1 .. n
    BY <1>1
  <2>2. PICK j \in DOMAIN p : j < n /\ p[j] = m
    BY <1>11, <1>1
  <2>3. p[j] # p[n]
    BY <2>1, <2>2, <1>1
  <2> QED  BY <2>2, <2>3, <1>1
<1>3. DOMAIN q = 1 .. n - 1 /\ \A k \in 1 .. n - 1 : q[k] = p[k] /\ p[k] \in S \ {p[n]}
  BY <1>1 DEF IsFront
<1>4. q \in Seq(S \ {p[n]}) /\ Len(q) = n - 1
  <2>1. n - 1 \in Nat
    OBVIOUS
  <2>2. q \in [1 .. n - 1 -> S \ {p[n]}]
    BY <1>3 DEF IsFront
  <2> QED  BY <2>1, <2>2, <1>3
<1>5. \A s \in S \ {p[n]} : \E i \in DOMAIN q : q[i] = s
  <2> TAKE s \in S \ {p[n]}
  <2>1. PICK i \in 1 .. n : p[i] = s
    BY <1>1
  <2>2. i # n /\ i \in 1 .. n - 1
    BY <2>1
  <2> QED  BY <2>1, <2>2, <1>3
<1>6. \A k \in DOMAIN q : \A m \in mustPrecede(ordered, q[k]) : \E j \in DOMAIN q : j < k /\ q[j] = m
  <2> TAKE k \in DOMAIN q
  <2> TAKE m \in mustPrecede(ordered, q[k])
  <2>1. k \in DOMAIN p /\ k < n /\ q[k] = p[k]
    BY <1>1, <1>3
  <2>2. PICK j \in DOMAIN p : j < k /\ p[j] = m
    BY <1>11, <2>1
  <2>3. j \in DOMAIN q /\ q[j] = p[j]
    BY <1>1, <1>3, <2>1, <2>2
  <2> QED  BY <2>2, <2>3
<1>7. \A i, j \in DOMAIN q : q[i] = q[j] => i = j
  BY <1>1, <1>3
<1>8. Feasible(ordered, S \ {p[n]}, q)
  BY <1>4, <1>5, <1>6, <1>7 DEF Feasible
<1>9. n = 1 <=> S \ {p[n]} = {}
  <2>1. n = 1 => 1 .. n - 1 = {}
    OBVIOUS
  <2>2. n # 1 => 1 \in 1 .. n - 1
    OBVIOUS
  <2> QED  BY <2>1, <2>2, <1>3, <1>5
<1>10. n > 1 => q # <<>> /\ Len(q) = n - 1 /\ q[n - 1] = p[n - 1] /\ p[n - 1] \in S \ {p[n]}
  <2> HAVE n > 1
  <2>1. n - 1 \in 1 .. n - 1
    OBVIOUS
  <2>2. q # <<>>
    BY <2>1, <1>3
  <2> QED  BY <2>1, <2>2, <1>3, <1>4
<1> QED  BY <1>1, <1>2, <1>8, <1>9, <1>10

\* The way q with the stop last after it.
IsOneMore(p, q, last) == p = Append(q, last)

\* One stop more, after all that must precede it.
LEMMA OneMoreIsFeasible ==
  ASSUME NEW ordered, NEW S, NEW q, Feasible(ordered, S, q), NEW last, last \notin S,
         mustPrecede(ordered, last) \subseteq S, NEW p, IsOneMore(p, q, last)
  PROVE  /\ Feasible(ordered, S \cup {last}, p)
         /\ Len(p) = Len(q) + 1 /\ p[Len(p)] = last /\ p # <<>> /\ IsFront(q, p)
<1> PICK n \in Nat : n = Len(q) + 1
  <2>1. q \in Seq(S)
    BY DEF Feasible
  <2> QED  BY <2>1
<1>1. /\ q \in Seq(S) /\ DOMAIN q = 1 .. n - 1 /\ n - 1 = Len(q)
      /\ \A i \in 1 .. n - 1 : q[i] \in S
      /\ \A i, j \in 1 .. n - 1 : q[i] = q[j] => i = j
      /\ \A s \in S : \E i \in 1 .. n - 1 : q[i] = s
      /\ \A k \in 1 .. n - 1 : \A m \in mustPrecede(ordered, q[k]) :
           \E j \in 1 .. n - 1 : j < k /\ q[j] = m
  BY DEF Feasible
<1>2. q \in Seq(S \cup {last})
  <2>1. \A i \in 1 .. n - 1 : q[i] \in S \cup {last}
    BY <1>1
  <2> QED  BY <1>1, <2>1
<1>3. p \in Seq(S \cup {last}) /\ Len(p) = n /\ DOMAIN p = 1 .. n /\ n \in 1 .. n
  BY <1>1, <1>2 DEF IsOneMore
<1>4. p[n] = last /\ \A k \in 1 .. n - 1 : p[k] = q[k] /\ k \in 1 .. n
  BY <1>1, <1>2 DEF IsOneMore
<1>5. \A k \in 1 .. n : k = n \/ k \in 1 .. n - 1
  OBVIOUS
<1>6. \A i, j \in 1 .. n : p[i] = p[j] => i = j
  <2> TAKE i, j \in 1 .. n
  <2> QED  BY <1>1, <1>4, <1>5
<1>7. \A s \in S \cup {last} : \E i \in 1 .. n : p[i] = s
  BY <1>1, <1>3, <1>4
<1>8. \A k \in 1 .. n : \A m \in mustPrecede(ordered, p[k]) : \E j \in 1 .. n : j < k /\ p[j] = m
  <2> TAKE k \in 1 .. n
  <2> TAKE m \in mustPrecede(ordered, p[k])
  <2>1. CASE k = n
    <3>1. PICK j \in 1 .. n - 1 : q[j] = m
      BY <2>1, <1>1, <1>4
    <3> QED  BY <3>1, <2>1, <1>4
  <2>2. CASE k \in 1 .. n - 1
    <3>1. PICK j \in 1 .. n - 1 : j < k /\ q[j] = m
      BY <2>2, <1>1, <1>4
    <3> QED  BY <3>1, <1>4
  <2> QED  BY <2>1, <2>2, <1>5
<1>9. Feasible(ordered, S \cup {last}, p)
  <2> HIDE DEF Feasible
  <2>1. p \in Seq(S \cup {last}) /\ \A i, j \in DOMAIN p : p[i] = p[j] => i = j
    BY <1>3, <1>6
  <2>2. \A s \in S \cup {last} : \E i \in DOMAIN p : p[i] = s
    BY <1>3, <1>7
  <2>3. \A k \in DOMAIN p : \A m \in mustPrecede(ordered, p[k]) :
          \E j \in DOMAIN p : j < k /\ p[j] = m
    BY <1>3, <1>8
  <2> QED  BY <2>1, <2>2, <2>3 DEF Feasible
<1>10. p # <<>>
  BY <1>3
<1>11. IsFront(q, p)
  <2>1. q = [k \in 1 .. n - 1 |-> q[k]]
    BY <1>1
  <2> QED  BY <2>1, <1>3, <1>4 DEF IsFront
<1> QED  BY <1>3, <1>4, <1>9, <1>10, <1>11

\* What an entry of the table tells of the ways through S that end at last.
IsBest(ordered, S, last, entry) ==
  /\ entry # Unreached =>
       /\ Feasible(ordered, S, entry.order) /\ entry.order # <<>>
       /\ entry.order[Len(entry.order)] = last
       /\ entry.metres = Travelled(Along(ordered, entry.order))
  /\ \A p : Feasible(ordered, S, p) /\ p # <<>> /\ p[Len(p)] = last =>
       entry # Unreached /\ entry.metres <= Travelled(Along(ordered, p))

\* No way ends at a stop that is not visited, or that others must precede in vain.
LEMMA NoWayThere ==
  ASSUME NEW ordered, NEW S, NEW last,
         last \notin S \/ ~(mustPrecede(ordered, last) \subseteq S \ {last})
  PROVE  IsBest(ordered, S, last, Unreached)
<1> SUFFICES ASSUME NEW p, Feasible(ordered, S, p), p # <<>>, p[Len(p)] = last PROVE FALSE
  BY DEF IsBest
<1>1. p \in Seq(S)
  BY DEF Feasible
<1>2. Len(p) \in Nat /\ Len(p) > 0
  BY <1>1
<1> DEFINE q == [k \in 1 .. Len(p) - 1 |-> p[k]]
<1>3. IsFront(q, p)
  BY DEF IsFront
<1> HIDE DEF q
<1>4. p[Len(p)] \in S /\ mustPrecede(ordered, p[Len(p)]) \subseteq S \ {p[Len(p)]}
  BY <1>3, FrontIsFeasible
<1> QED  BY <1>4

\* The first stop of a route.
LEMMA OneStop ==
  ASSUME ItineraryConfigured, NEW ordered \in Seq(Waypoint), NEW last \in DOMAIN ordered,
         mustPrecede(ordered, last) = {}, NEW entry,
         entry = [metres |-> MetresBetween[<<"O", ordered[last].hub>>], order |-> <<last>>]
  PROVE  IsBest(ordered, {last}, last, entry)
<1> DEFINE none == [k \in 1 .. 0 |-> last]
           one == <<last>>
<1>1. one \in Seq({last}) /\ one \in Seq(DOMAIN ordered) /\ Len(one) = 1 /\ one[1] = last
      /\ DOMAIN one = {1} /\ one # <<>>
  OBVIOUS
<1>2. entry.order = one /\ entry.metres = MetresBetween[<<"O", ordered[last].hub>>]
  OBVIOUS
<1>3. Feasible(ordered, {last}, one)
  <2> HIDE DEF one
  <2> QED  BY <1>1 DEF Feasible
<1>4. \A p : Feasible(ordered, {last}, p) /\ p # <<>> /\ p[Len(p)] = last =>
              p \in Seq(DOMAIN ordered) /\ Len(p) = 1 /\ p[1] = last
  <2> SUFFICES ASSUME NEW p, Feasible(ordered, {last}, p), p # <<>>, p[Len(p)] = last
               PROVE  p \in Seq(DOMAIN ordered) /\ Len(p) = 1 /\ p[1] = last
    OBVIOUS
  <2>1. p \in Seq({last}) /\ \A i, j \in DOMAIN p : p[i] = p[j] => i = j
    BY DEF Feasible
  <2>2. Len(p) \in Nat /\ Len(p) > 0 /\ DOMAIN p = 1 .. Len(p)
    BY <2>1
  <2>3. 1 \in DOMAIN p /\ Len(p) \in DOMAIN p /\ p[1] = p[Len(p)]
    BY <2>1, <2>2
  <2>4. Len(p) = 1
    BY <2>1, <2>3
  <2> QED  BY <2>1, <2>4
<1>5. ASSUME NEW p \in Seq(DOMAIN ordered), Len(p) = 1, p[1] = last
      PROVE  /\ Travelled(Along(ordered, p)) = MetresBetween[<<"O", ordered[last].hub>>]
             /\ Travelled(Along(ordered, p)) \in Nat
  <2> DEFINE q == [k \in 1 .. Len(p) - 1 |-> p[k]]
  <2>1. IsFront(q, p) /\ Len(p) \in Nat /\ Len(p) > 0
    BY <1>5 DEF IsFront
  <2> HIDE DEF q
  <2>2. /\ Travelled(Along(ordered, p)) \in Nat
        /\ Len(p) = 1 => Travelled(Along(ordered, p)) = MetresBetween[<<"O", ordered[p[1]].hub>>]
    BY <2>1, MetresAlong
  <2> QED  BY <2>2, <1>5
<1> HIDE DEF one
<1>6. entry.metres = Travelled(Along(ordered, one))
  BY <1>1, <1>2, <1>5
<1>7. ASSUME NEW p, Feasible(ordered, {last}, p), p # <<>>, p[Len(p)] = last
      PROVE  entry.metres <= Travelled(Along(ordered, p))
  <2>1. p \in Seq(DOMAIN ordered) /\ Len(p) = 1 /\ p[1] = last
    BY <1>4, <1>7
  <2>2. Travelled(Along(ordered, p)) = entry.metres /\ Travelled(Along(ordered, p)) \in Nat
    BY <1>2, <1>5, <2>1
  <2> QED  BY <2>2
<1>8. entry # Unreached
  <2>1. Unreached.order = <<>>
    BY DEF Unreached
  <2> QED  BY <1>1, <1>2, <2>1
<1>9. entry.order[Len(entry.order)] = last
  BY <1>1, <1>2
<1> QED  BY <1>1, <1>2, <1>3, <1>6, <1>7, <1>8, <1>9 DEF IsBest

\* What going on to last costs after the best way through the others to prev.
CostFrom(ordered, last, prev, entry) ==
  entry.metres + MetresBetween[<<ordered[prev].hub, ordered[last].hub>>]

\* The best way to prev and then last: a feasible way, of that cost.
LEMMA WayThroughPrev ==
  ASSUME ItineraryConfigured, NEW ordered \in Seq(Waypoint), NEW S \in SUBSET DOMAIN ordered,
         NEW last \in DOMAIN ordered, last \notin S, mustPrecede(ordered, last) \subseteq S,
         NEW prev \in S, NEW entry, IsBest(ordered, S, prev, entry), entry # Unreached,
         NEW p, IsOneMore(p, entry.order, last)
  PROVE  /\ Feasible(ordered, S \cup {last}, p) /\ p # <<>> /\ p[Len(p)] = last
         /\ Travelled(Along(ordered, p)) = CostFrom(ordered, last, prev, entry)
         /\ CostFrom(ordered, last, prev, entry) \in Nat
<1> DEFINE q == entry.order
           n == Len(q) + 1
<1>1. /\ Feasible(ordered, S, q) /\ q # <<>> /\ q[Len(q)] = prev
      /\ entry.metres = Travelled(Along(ordered, q))
  BY DEF IsBest
<1> HIDE DEF q
<1>2. q \in Seq(S) /\ Len(q) \in Nat /\ Len(q) > 0 /\ n \in Nat /\ n > 1 /\ n - 1 = Len(q)
  <2>1. q \in Seq(S)
    BY <1>1 DEF Feasible
  <2>2. Len(q) \in Nat /\ Len(q) > 0
    BY <2>1, <1>1
  <2> QED  BY <2>1, <2>2
<1>3. n = Len(q) + 1 /\ IsOneMore(p, q, last)
  BY DEF q
<1> HIDE DEF n
<1>4. Feasible(ordered, S \cup {last}, p) /\ Len(p) = n /\ p[n] = last /\ p # <<>> /\ IsFront(q, p)
  <2>1. /\ Feasible(ordered, S \cup {last}, p)
        /\ Len(p) = Len(q) + 1 /\ p[Len(p)] = last /\ p # <<>> /\ IsFront(q, p)
    BY <1>1, <1>3, OneMoreIsFeasible
  <2> QED  BY <2>1, <1>3
<1>5. p \in Seq(DOMAIN ordered)
  <2>1. p \in Seq(S \cup {last}) /\ S \cup {last} \subseteq DOMAIN ordered
    BY <1>4 DEF Feasible
  <2> QED  BY <2>1
<1>6. p[n - 1] = prev
  <2>1. n - 1 \in 1 .. Len(p) - 1
    BY <1>2, <1>4
  <2>2. q[n - 1] = p[n - 1]
    BY <2>1, <1>4 DEF IsFront
  <2> QED  BY <2>2, <1>1, <1>2
<1>7. /\ Travelled(Along(ordered, p)) \in Nat
      /\ n > 1 => Travelled(Along(ordered, p)) =
                    Travelled(Along(ordered, q))
                      + MetresBetween[<<ordered[p[n - 1]].hub, ordered[p[n]].hub>>]
  <2>1. n > 0 /\ n = Len(p)
    BY <1>2, <1>4
  <2> QED  BY <2>1, <1>2, <1>4, <1>5, MetresAlong
<1>8. Travelled(Along(ordered, p)) = CostFrom(ordered, last, prev, entry)
  BY <1>1, <1>2, <1>4, <1>6, <1>7 DEF CostFrom
<1> QED  BY <1>4, <1>7, <1>8

\* Every feasible way through S that ends at last comes from a stop that was
\* reached, and costs no less than going on from the best way there.
LEMMA EveryWayFromSome ==
  ASSUME ItineraryConfigured, NEW ordered \in Seq(Waypoint), NEW S \in SUBSET DOMAIN ordered,
         NEW last \in S, S \ {last} # {}, NEW row,
         \A prev \in DOMAIN ordered : IsBest(ordered, S \ {last}, prev, row[prev]),
         NEW p, Feasible(ordered, S, p), p # <<>>, p[Len(p)] = last
  PROVE  \E prev \in S \ {last} :
           /\ row[prev] # Unreached
           /\ CostFrom(ordered, last, prev, row[prev]) <= Travelled(Along(ordered, p))
<1> DEFINE n == Len(p)
           q == [k \in 1 .. Len(p) - 1 |-> p[k]]
<1>1. p \in Seq(S) /\ p \in Seq(DOMAIN ordered) /\ n \in Nat /\ n > 0
  <2>1. p \in Seq(S)
    BY DEF Feasible
  <2> QED  BY <2>1
<1>2. IsFront(q, p) /\ n = Len(p) /\ p[n] = last
  BY DEF IsFront
<1> HIDE DEF n, q
<1>3. /\ Feasible(ordered, S \ {last}, q)
      /\ n = 1 <=> S \ {last} = {}
      /\ n > 1 => q # <<>> /\ q[Len(q)] = p[n - 1] /\ p[n - 1] \in S \ {last}
  <2>1. /\ Feasible(ordered, S \ {p[Len(p)]}, q)
        /\ Len(p) = 1 <=> S \ {p[Len(p)]} = {}
        /\ Len(p) > 1 => /\ q # <<>> /\ q[Len(q)] = p[Len(p) - 1]
                         /\ p[Len(p) - 1] \in S \ {p[Len(p)]}
    BY <1>2, FrontIsFeasible
  <2> QED  BY <2>1, <1>2
<1>4. n > 1
  BY <1>1, <1>3
<1>5. PICK prev \in S \ {last} : prev = p[n - 1]
  BY <1>3, <1>4
<1>6. q # <<>> /\ q[Len(q)] = prev
  BY <1>3, <1>4, <1>5
<1>7. IsBest(ordered, S \ {last}, prev, row[prev])
  OBVIOUS
<1>8. row[prev] # Unreached /\ row[prev].metres <= Travelled(Along(ordered, q))
  BY <1>3, <1>6, <1>7 DEF IsBest
<1>9. /\ Travelled(Along(ordered, p)) \in Nat
      /\ Travelled(Along(ordered, p)) =
           Travelled(Along(ordered, q)) + MetresBetween[<<ordered[prev].hub, ordered[last].hub>>]
  <2>1. /\ Travelled(Along(ordered, p)) \in Nat
        /\ n > 1 => Travelled(Along(ordered, p)) =
                      Travelled(Along(ordered, q))
                        + MetresBetween[<<ordered[p[n - 1]].hub, ordered[p[n]].hub>>]
    BY <1>1, <1>2, MetresAlong
  <2> QED  BY <2>1, <1>2, <1>4, <1>5
<1>10. Travelled(Along(ordered, q)) \in Nat /\ row[prev].metres \in Nat
  <2>1. \A o : Feasible(ordered, S \ {last}, o) /\ o # <<>> => Travelled(Along(ordered, o)) \in Nat
    <3> SUFFICES ASSUME NEW o, Feasible(ordered, S \ {last}, o), o # <<>>
                 PROVE  Travelled(Along(ordered, o)) \in Nat
      OBVIOUS
    <3>1. o \in Seq(S \ {last}) /\ o \in Seq(DOMAIN ordered)
      <4>1. o \in Seq(S \ {last})
        BY DEF Feasible
      <4> QED  BY <4>1
    <3> DEFINE m == Len(o)
               f == [k \in 1 .. Len(o) - 1 |-> o[k]]
    <3>2. IsFront(f, o) /\ m = Len(o) /\ m \in Nat /\ m > 0
      BY <3>1 DEF IsFront
    <3> HIDE DEF m, f
    <3> QED  BY <3>1, <3>2, MetresAlong
  <2>2. Feasible(ordered, S \ {last}, row[prev].order) /\ row[prev].order # <<>>
        /\ row[prev].metres = Travelled(Along(ordered, row[prev].order))
    BY <1>7, <1>8 DEF IsBest
  <2> QED  BY <1>3, <1>6, <2>1, <2>2
<1>11. MetresBetween[<<ordered[prev].hub, ordered[last].hub>>] \in Nat
  <2>1. ordered[prev] \in Waypoint /\ ordered[last] \in Waypoint
    OBVIOUS
  <2>2. ordered[prev].hub \in Place /\ ordered[last].hub \in Place
    BY <2>1 DEF Waypoint, Place
  <2> QED  BY <2>2 DEF ItineraryConfigured
<1>12. CostFrom(ordered, last, prev, row[prev]) <= Travelled(Along(ordered, p))
  BY <1>8, <1>9, <1>10, <1>11 DEF CostFrom
<1> QED  BY <1>8, <1>12

\* So an entry of the table is best if the row before it is.
LEMMA ExtendedIsBest ==
  ASSUME ItineraryConfigured, NEW ordered \in Seq(Waypoint), NEW S \in SUBSET DOMAIN ordered,
         NEW last \in DOMAIN ordered, NEW row,
         last \in S => \A prev \in DOMAIN ordered : IsBest(ordered, S \ {last}, prev, row[prev])
  PROVE  IsBest(ordered, S, last, Extended(ordered, S, last, row))
<1> DEFINE before == S \ {last}
           reached == {i \in before : row[i] # Unreached}
           cost == [prev \in reached |-> CostFrom(ordered, last, prev, row[prev])]
           parent == Cheapest(cost)
<1>1. Extended(ordered, S, last, row) =
        IF last \notin S \/ ~(mustPrecede(ordered, last) \subseteq before) THEN Unreached
        ELSE IF before = {}
        THEN [metres |-> MetresBetween[<<"O", ordered[last].hub>>], order |-> <<last>>]
        ELSE IF reached = {} THEN Unreached
        ELSE [metres |-> cost[parent], order |-> Append(row[parent].order, last)]
  BY DEF Extended, CostFrom
<1>2. CASE last \notin S \/ ~(mustPrecede(ordered, last) \subseteq before)
  BY <1>1, <1>2, NoWayThere
<1>3. CASE last \in S /\ mustPrecede(ordered, last) \subseteq before /\ before = {}
  <2>1. S = {last} /\ mustPrecede(ordered, last) = {}
    BY <1>3
  <2> DEFINE entry == [metres |-> MetresBetween[<<"O", ordered[last].hub>>], order |-> <<last>>]
  <2>2. IsBest(ordered, {last}, last, entry)
    BY <2>1, OneStop
  <2>3. Extended(ordered, S, last, row) = entry
    BY <1>1, <1>3
  <2> HIDE DEF entry
  <2> QED  BY <2>1, <2>2, <2>3
<1>4. CASE last \in S /\ mustPrecede(ordered, last) \subseteq before /\ before # {}
  <2>1. \A prev \in DOMAIN ordered : IsBest(ordered, before, prev, row[prev])
    BY <1>4
  <2>2. /\ before \in SUBSET DOMAIN ordered /\ last \notin before /\ before \cup {last} = S
        /\ reached \in SUBSET before /\ \A i \in reached : row[i] # Unreached
        /\ \A i \in before : row[i] # Unreached => i \in reached
    BY <1>4
  <2>3. DOMAIN cost = reached
        /\ \A i \in reached : cost[i] = CostFrom(ordered, last, i, row[i])
    OBVIOUS
  <2>4. ASSUME NEW p, Feasible(ordered, S, p), p # <<>>, p[Len(p)] = last
        PROVE  \E prev \in reached : cost[prev] <= Travelled(Along(ordered, p))
    <3> HIDE DEF reached, cost
    <3>1. PICK prev \in before :
            /\ row[prev] # Unreached
            /\ CostFrom(ordered, last, prev, row[prev]) <= Travelled(Along(ordered, p))
      BY <1>4, <2>1, <2>4, EveryWayFromSome
    <3> QED  BY <3>1, <2>2, <2>3
  <2>5. ASSUME NEW prev \in reached, NEW p, p = Append(row[prev].order, last)
        PROVE  /\ Feasible(ordered, S, p) /\ p # <<>> /\ p[Len(p)] = last
               /\ Travelled(Along(ordered, p)) = cost[prev]
               /\ cost[prev] \in Nat
    <3> HIDE DEF reached, cost, before
    <3>1. IsOneMore(p, row[prev].order, last)
      BY <2>5 DEF IsOneMore
    <3>2. prev \in before /\ row[prev] # Unreached /\ IsBest(ordered, before, prev, row[prev])
      BY <2>1, <2>2
    <3>3. /\ Feasible(ordered, before \cup {last}, p) /\ p # <<>> /\ p[Len(p)] = last
          /\ Travelled(Along(ordered, p)) = CostFrom(ordered, last, prev, row[prev])
          /\ CostFrom(ordered, last, prev, row[prev]) \in Nat
      BY <1>4, <2>2, <3>1, <3>2, WayThroughPrev
    <3> QED  BY <3>3, <2>2, <2>3
  <2>6. CASE reached = {}
    <3>1. Extended(ordered, S, last, row) = Unreached
      BY <1>1, <1>4, <2>6
    <3>2. ~\E p : Feasible(ordered, S, p) /\ p # <<>> /\ p[Len(p)] = last
      BY <2>4, <2>6
    <3> QED  BY <3>1, <3>2 DEF IsBest
  <2>7. CASE reached # {}
    <3> HIDE DEF cost
    <3>1. reached \in SUBSET Nat /\ IsFiniteSet(reached)
      <4>1. DOMAIN ordered = 1 .. Len(ordered) /\ Len(ordered) \in Nat
        OBVIOUS
      <4>2. IsFiniteSet(DOMAIN ordered)
        BY <4>1, FS_Interval
      <4>3. reached \in SUBSET DOMAIN ordered
        BY <2>2
      <4> HIDE DEF reached
      <4> QED  BY <4>1, <4>2, <4>3, FS_Subset
    <3>2. \A i \in reached : cost[i] \in Nat
      BY <2>5
    <3> HIDE DEF reached
    <3>3. parent \in reached /\ \A i \in reached : cost[parent] <= cost[i]
      BY <3>1, <3>2, <2>3, <2>7, CheapestIsLeast
    <3> DEFINE entry == [metres |-> cost[parent], order |-> Append(row[parent].order, last)]
    <3>4. Extended(ordered, S, last, row) = entry
      BY <1>1, <1>4, <2>7
    <3> HIDE DEF parent
    <3>5. entry.metres = cost[parent] /\ entry.order = Append(row[parent].order, last)
      OBVIOUS
    <3> HIDE DEF entry
    <3>6. /\ Feasible(ordered, S, entry.order) /\ entry.order # <<>>
          /\ entry.order[Len(entry.order)] = last
          /\ Travelled(Along(ordered, entry.order)) = cost[parent]
          /\ cost[parent] \in Nat
      BY <2>5, <3>3, <3>5
    <3>7. entry # Unreached
      <4>1. Unreached.order = <<>>
        BY DEF Unreached
      <4> QED  BY <3>6, <4>1
    <3>8. ASSUME NEW p, Feasible(ordered, S, p), p # <<>>, p[Len(p)] = last
          PROVE  entry.metres <= Travelled(Along(ordered, p))
      <4>1. PICK prev \in reached : cost[prev] <= Travelled(Along(ordered, p))
        BY <2>4, <3>8
      <4>2. cost[parent] <= cost[prev] /\ cost[prev] \in Nat /\ cost[parent] \in Nat
        BY <3>2, <3>3
      <4>3. Travelled(Along(ordered, p)) \in Nat
        <5>1. p \in Seq(S)
          BY <3>8 DEF Feasible
        <5>2. p \in Seq(DOMAIN ordered)
          BY <5>1
        <5> DEFINE m == Len(p)
                   f == [k \in 1 .. Len(p) - 1 |-> p[k]]
        <5>3. IsFront(f, p) /\ m = Len(p) /\ m \in Nat /\ m > 0
          BY <5>2, <3>8 DEF IsFront
        <5> HIDE DEF m, f
        <5> QED  BY <5>2, <5>3, MetresAlong
      <4> QED  BY <3>5, <4>1, <4>2, <4>3
    <3>9. IsBest(ordered, S, last, entry)
      BY <3>5, <3>6, <3>7, <3>8 DEF IsBest
    <3> QED  BY <3>4, <3>9
  <2> QED  BY <2>6, <2>7
<1> QED  BY <1>2, <1>3, <1>4

\* The search finds, for every set of stops and every last one, the shortest
\* feasible way, or that there is none.
LEMMA SearchIsBest ==
  ASSUME ItineraryConfigured, NEW ordered \in Seq(Waypoint)
  PROVE  \A S \in SUBSET DOMAIN ordered : \A last \in DOMAIN ordered :
           IsBest(ordered, S, last, dp(ordered)[S][last])
<1> DEFINE D == SUBSET DOMAIN ordered
           best == dp(ordered)
           T == {n \in Nat : \A S \in D : Cardinality(S) < n =>
                                \A last \in DOMAIN ordered : IsBest(ordered, S, last, best[S][last])}
<1>1. IsFiniteSet(DOMAIN ordered)
  <2>1. DOMAIN ordered = 1 .. Len(ordered) /\ Len(ordered) \in Nat
    OBVIOUS
  <2> QED  BY <2>1, FS_Interval
<1>2. \A S \in D : IsFiniteSet(S) /\ Cardinality(S) \in Nat
                     /\ Cardinality(S) <= Cardinality(DOMAIN ordered)
  BY <1>1, FS_Subset, FS_CardinalityType
<1>3. \A S \in D : \A last \in S :
        S \ {last} \in D /\ Cardinality(S \ {last}) = Cardinality(S) - 1
  BY <1>2, FS_RemoveElement
<1>4. \A S \in D : \A last \in DOMAIN ordered :
        best[S][last] = Extended(ordered, S, last, best[S \ {last}])
  <2>1. \A S \in D : best[S] = [last \in DOMAIN ordered |->
                                    Extended(ordered, S, last, best[S \ {last}])]
    BY <1>1, TableOfWays
  <2> HIDE DEF best, D
  <2> TAKE S \in D
  <2> TAKE last \in DOMAIN ordered
  <2>2. best[S] = [i \in DOMAIN ordered |-> Extended(ordered, S, i, best[S \ {i}])]
    BY <2>1
  <2> QED  BY <2>2
<1> HIDE DEF best
<1>5. 0 \in T
  BY <1>2
<1>6. \A n \in Nat : n \in T => n + 1 \in T
  <2> TAKE n \in Nat
  <2> HAVE n \in T
  <2>1. ASSUME NEW S \in D, Cardinality(S) < n + 1, NEW last \in DOMAIN ordered
        PROVE  IsBest(ordered, S, last, best[S][last])
    <3>1. last \in S => \A prev \in DOMAIN ordered :
                          IsBest(ordered, S \ {last}, prev, best[S \ {last}][prev])
      <4> HAVE last \in S
      <4>1. S \ {last} \in D /\ Cardinality(S \ {last}) < n
        BY <1>2, <1>3, <2>1
      <4> QED  BY <4>1
    <3>2. IsBest(ordered, S, last, Extended(ordered, S, last, best[S \ {last}]))
      BY <3>1, ExtendedIsBest
    <3> QED  BY <3>2, <1>4
  <2> QED  BY <2>1
<1> HIDE DEF T
<1>7. Cardinality(DOMAIN ordered) + 1 \in T
  BY <1>2, <1>5, <1>6, NaturalsInductive
<1>8. \A S \in D : Cardinality(S) < Cardinality(DOMAIN ordered) + 1
  BY <1>2
<1>9. \A S \in D : Cardinality(S) < Cardinality(DOMAIN ordered) + 1 =>
        \A last \in DOMAIN ordered : IsBest(ordered, S, last, best[S][last])
  BY <1>7 DEF T
<1> QED  BY <1>8, <1>9 DEF best

\* From the first place to the last, the stops in their sorted order are feasible.
LEMMA SortedIsFeasible ==
  ASSUME ItineraryConfigured, NEW stops \in Seq(Waypoint)
  PROVE  Feasible(Sorted(stops), DOMAIN Sorted(stops), [k \in DOMAIN Sorted(stops) |-> k])
<1> DEFINE ordered == Sorted(stops)
           p == [k \in DOMAIN ordered |-> k]
<1>1. ordered \in Seq(Waypoint)
  BY SortedByRank
<1> HIDE DEF ordered
<1>2. p \in Seq(DOMAIN ordered) /\ DOMAIN p = DOMAIN ordered /\ \A k \in DOMAIN ordered : p[k] = k
  <2>1. DOMAIN ordered = 1 .. Len(ordered) /\ Len(ordered) \in Nat
    BY <1>1
  <2> QED  BY <2>1
<1> HIDE DEF p
<1>3. \A k \in DOMAIN p : \A m \in mustPrecede(ordered, p[k]) : \E j \in DOMAIN p : j < k /\ p[j] = m
  <2> TAKE k \in DOMAIN p
  <2> TAKE m \in mustPrecede(ordered, p[k])
  <2>1. p[k] = k /\ k \in DOMAIN ordered
    BY <1>2
  <2>2. m \in DOMAIN ordered
    BY DEF mustPrecede
  <2>3. m \in mustPrecede(ordered, k)
    BY <2>1
  <2>4. m < k
    BY <2>1, <2>3, SortedPicksUpFirst DEF ordered
  <2> QED  BY <1>2, <2>2, <2>4
<1>4. Feasible(ordered, DOMAIN ordered, p)
  BY <1>2, <1>3 DEF Feasible
<1> QED  BY <1>4 DEF ordered, p

\* The order chosen: feasible, and of no more metres than any other with its way
\* to the destination.
LEMMA ChosenIsShortest ==
  ASSUME ItineraryConfigured, NEW stops \in Seq(Waypoint), stops # <<>>
  PROVE  \E p : /\ Feasible(Sorted(stops), DOMAIN stops, p) /\ p # <<>>
                /\ orderRouteWaypoints(stops) = Along(Sorted(stops), p)
                /\ \A o : Feasible(Sorted(stops), DOMAIN stops, o) /\ o # <<>> =>
                     Travelled(Along(Sorted(stops), p)) + LastHop(Sorted(stops)[p[Len(p)]])
                       <= Travelled(Along(Sorted(stops), o)) + LastHop(Sorted(stops)[o[Len(o)]])
<1> DEFINE ordered == Sorted(stops)
           D == DOMAIN ordered
           best == dp(ordered)[D]
           reached == {j \in D : best[j] # Unreached}
           cost == [i \in reached |-> best[i].metres + LastHop(ordered[i])]
           bestLast == Cheapest(cost)
           p == best[bestLast].order
<1>1. ordered \in Seq(Waypoint) /\ D = DOMAIN stops
  BY SortedByRank
<1>2. Len(ordered) \in Nat /\ D = 1 .. Len(ordered) /\ D # {}
  BY <1>1
<1>3. orderRouteWaypoints(stops) = Along(ordered, p)
  BY DEF orderRouteWaypoints, Along
<1>4. \A last \in D : IsBest(ordered, D, last, best[last])
  BY <1>1, SearchIsBest
<1>5. Feasible(ordered, D, [k \in D |-> k])
  BY SortedIsFeasible
<1> HIDE DEF ordered, best
<1>6. ASSUME NEW o, Feasible(ordered, D, o), o # <<>>
      PROVE  /\ o \in Seq(D) /\ o[Len(o)] \in D
             /\ Travelled(Along(ordered, o)) \in Nat
             /\ LastHop(ordered[o[Len(o)]]) \in Nat
             /\ best[o[Len(o)]] # Unreached
             /\ best[o[Len(o)]].metres <= Travelled(Along(ordered, o))
  <2>1. o \in Seq(D)
    BY <1>6 DEF Feasible
  <2>2. Len(o) \in Nat /\ Len(o) > 0 /\ o[Len(o)] \in D
    BY <1>6, <2>1
  <2> DEFINE m == Len(o)
             f == [k \in 1 .. Len(o) - 1 |-> o[k]]
  <2>3. IsFront(f, o) /\ m = Len(o) /\ m \in Nat /\ m > 0
    BY <2>2 DEF IsFront
  <2> HIDE DEF m, f
  <2>4. Travelled(Along(ordered, o)) \in Nat
    BY <1>1, <2>1, <2>3, MetresAlong
  <2>5. LastHop(ordered[o[Len(o)]]) \in Nat
    <3>1. ordered[o[Len(o)]] \in Waypoint
      BY <1>1, <2>2
    <3>2. ordered[o[Len(o)]].hub \in Place /\ "D" \in Place
      BY <3>1 DEF Waypoint, Place
    <3> QED  BY <3>2 DEF LastHop, ItineraryConfigured
  <2>6. IsBest(ordered, D, o[Len(o)], best[o[Len(o)]])
    BY <1>4, <2>2
  <2>7. best[o[Len(o)]] # Unreached /\ best[o[Len(o)]].metres <= Travelled(Along(ordered, o))
    BY <1>6, <2>6 DEF IsBest
  <2> QED  BY <2>1, <2>2, <2>4, <2>5, <2>7
<1>7. ASSUME NEW i \in reached
      PROVE  /\ Feasible(ordered, D, best[i].order) /\ best[i].order # <<>>
             /\ best[i].order[Len(best[i].order)] = i
             /\ best[i].metres = Travelled(Along(ordered, best[i].order))
             /\ cost[i] = best[i].metres + LastHop(ordered[i])
             /\ best[i].metres \in Nat /\ LastHop(ordered[i]) \in Nat /\ cost[i] \in Nat
  <2>1. IsBest(ordered, D, i, best[i]) /\ best[i] # Unreached
    BY <1>4
  <2>2. /\ Feasible(ordered, D, best[i].order) /\ best[i].order # <<>>
        /\ best[i].order[Len(best[i].order)] = i
        /\ best[i].metres = Travelled(Along(ordered, best[i].order))
    BY <2>1 DEF IsBest
  <2>3. cost[i] = best[i].metres + LastHop(ordered[i])
    OBVIOUS
  <2> HIDE DEF reached, cost
  <2>4. best[i].metres \in Nat /\ LastHop(ordered[i]) \in Nat
    BY <1>6, <2>2
  <2> QED  BY <2>2, <2>3, <2>4
<1>8. reached # {}
  <2> DEFINE o == [k \in D |-> k]
  <2>1. 1 \in DOMAIN o
    BY <1>2
  <2>2. o # <<>>
    BY <2>1
  <2> HIDE DEF o
  <2>3. o[Len(o)] \in D /\ best[o[Len(o)]] # Unreached
    BY <1>5, <1>6, <2>2 DEF o
  <2> QED  BY <2>3
<1>9. reached \in SUBSET Nat /\ IsFiniteSet(reached)
  <2>1. IsFiniteSet(D)
    BY <1>2, FS_Interval
  <2>2. reached \in SUBSET D /\ reached \in SUBSET Nat
    BY <1>2
  <2> HIDE DEF reached, D
  <2> QED  BY <2>1, <2>2, FS_Subset
<1>10. \A i \in D : best[i] # Unreached => i \in reached
  OBVIOUS
<1>11. DOMAIN cost = reached
  OBVIOUS
<1> HIDE DEF reached, cost, D
<1>12. bestLast \in reached /\ \A i \in reached : cost[bestLast] <= cost[i]
  BY <1>7, <1>8, <1>9, <1>11, CheapestIsLeast
<1> HIDE DEF bestLast
<1>13. /\ Feasible(ordered, D, p) /\ p # <<>> /\ p[Len(p)] = bestLast
       /\ Travelled(Along(ordered, p)) = best[bestLast].metres
       /\ cost[bestLast] = Travelled(Along(ordered, p)) + LastHop(ordered[p[Len(p)]])
       /\ cost[bestLast] \in Nat
  BY <1>7, <1>12
<1>14. ASSUME NEW o, Feasible(ordered, D, o), o # <<>>
       PROVE  cost[bestLast] <= Travelled(Along(ordered, o)) + LastHop(ordered[o[Len(o)]])
  <2>1. PICK i \in reached : i = o[Len(o)]
    BY <1>6, <1>10, <1>14
  <2>2. /\ Travelled(Along(ordered, o)) \in Nat /\ LastHop(ordered[i]) \in Nat
        /\ best[i].metres <= Travelled(Along(ordered, o))
    BY <1>6, <1>14, <2>1
  <2>3. cost[i] = best[i].metres + LastHop(ordered[i]) /\ best[i].metres \in Nat /\ cost[i] \in Nat
    BY <1>7
  <2>4. cost[bestLast] <= cost[i]
    BY <1>12
  <2>5. cost[i] <= Travelled(Along(ordered, o)) + LastHop(ordered[i])
    BY <2>2, <2>3
  <2>6. cost[bestLast] <= Travelled(Along(ordered, o)) + LastHop(ordered[i])
    BY <2>2, <2>3, <2>4, <2>5, <1>13
  <2> QED  BY <2>1, <2>6
<1>15. \A o : Feasible(ordered, D, o) /\ o # <<>> =>
         Travelled(Along(ordered, p)) + LastHop(ordered[p[Len(p)]])
           <= Travelled(Along(ordered, o)) + LastHop(ordered[o[Len(o)]])
  BY <1>13, <1>14
<1> HIDE DEF p
<1>16. /\ Feasible(Sorted(stops), DOMAIN stops, p) /\ p # <<>>
       /\ orderRouteWaypoints(stops) = Along(Sorted(stops), p)
       /\ \A o : Feasible(Sorted(stops), DOMAIN stops, o) /\ o # <<>> =>
            Travelled(Along(Sorted(stops), p)) + LastHop(Sorted(stops)[p[Len(p)]])
              <= Travelled(Along(Sorted(stops), o)) + LastHop(Sorted(stops)[o[Len(o)]])
  BY <1>1, <1>3, <1>13, <1>15 DEF ordered
<1> QED  BY <1>16

----------------------------------------------------------------------------
(* From the numbers of the stops back to the stops.                        *)

\* A feasible way through all the stops has as many places as there are stops.
LEMMA FeasibleIsWhole ==
  ASSUME NEW n \in Nat, NEW ordered, NEW p, Feasible(ordered, 1 .. n, p)
  PROVE  p \in [1 .. n -> 1 .. n] /\ Len(p) = n
<1> DEFINE m == Len(p)
           A == 1 .. m
           B == 1 .. n
<1>0. p \in Seq(B) /\ (\A i, j \in DOMAIN p : p[i] = p[j] => i = j)
      /\ \A s \in B : \E i \in DOMAIN p : p[i] = s
  BY DEF Feasible
<1>1. /\ m \in Nat /\ DOMAIN p = A /\ p \in [A -> B]
      /\ \A i, j \in A : p[i] = p[j] => i = j
      /\ \A s \in B : \E i \in A : p[i] = s
  <2>1. m \in Nat /\ DOMAIN p = A /\ p \in [A -> B]
    BY <1>0
  <2> QED  BY <2>1, <1>0
<1> HIDE DEF m
<1>2. IsFiniteSet(A) /\ Cardinality(A) = m /\ IsFiniteSet(B) /\ Cardinality(B) = n
  <2>1. \A k \in Nat : IsFiniteSet(1 .. k) /\ Cardinality(1 .. k) = k
    BY FS_Interval
  <2> QED  BY <1>1, <2>1
<1> HIDE DEF A, B
<1>3. p \in Injection(A, B) /\ p \in Surjection(A, B)
  BY <1>1, Fun_IsInj, Fun_IsSurj
<1>4. Cardinality(A) <= Cardinality(B)
  BY <1>2, <1>3, FS_Injection
<1>5. Cardinality(B) <= Cardinality(A)
  BY <1>2, <1>3, FS_Surjection
<1>6. m = n
  BY <1>1, <1>2, <1>4, <1>5
<1> QED  BY <1>1, <1>6 DEF A, B, m

\* A feasible way through the sorted stops is an order of the stops that picks up
\* first.
LEMMA FeasibleIsOrder ==
  ASSUME ItineraryConfigured, NEW stops \in Seq(Waypoint),
         NEW p, Feasible(Sorted(stops), DOMAIN stops, p)
  PROVE  Along(Sorted(stops), p) \in OrdersOf(stops) /\ PicksUpFirst(Along(Sorted(stops), p))
<1> DEFINE ordered == Sorted(stops)
           D == DOMAIN stops
           route == Along(ordered, p)
           at(k) == CHOOSE i \in D : Rank(stops, i) = k
           q == [k \in D |-> at(p[k])]
<1>1. D = 1 .. Len(stops) /\ Len(stops) \in Nat
  OBVIOUS
<1>2. p \in [D -> D]
  BY <1>1, FeasibleIsWhole
<1>3. /\ \A i, j \in D : p[i] = p[j] => i = j
      /\ \A k \in D : \A m \in mustPrecede(ordered, p[k]) : \E j \in D : j < k /\ p[j] = m
  BY <1>2 DEF Feasible
<1>4. \A k \in D : at(k) \in D /\ Rank(stops, at(k)) = k
  BY RanksAreThePlaces
<1> HIDE DEF at
<1>5. DOMAIN ordered = D /\ \A k \in D : ordered[k] = stops[at(k)]
  BY <1>4, SortedByRank
<1> HIDE DEF ordered, D
<1>6. DOMAIN route = D /\ \A k \in D : route[k] = ordered[p[k]]
  BY <1>2 DEF Along
<1>7. q \in [D -> D] /\ IsInjective(q)
  <2>1. \A k \in D : q[k] = at(p[k]) /\ p[k] \in D
    BY <1>2
  <2>2. q \in [D -> D]
    BY <1>2, <1>4
  <2> HIDE DEF q
  <2>3. \A i, j \in D : q[i] = q[j] => i = j
    <3> TAKE i, j \in D
    <3> HAVE q[i] = q[j]
    <3>1. Rank(stops, at(p[i])) = Rank(stops, at(p[j]))
      BY <2>1
    <3>2. p[i] = p[j]
      BY <2>1, <1>4, <3>1
    <3> QED  BY <3>2, <1>3
  <2> QED  BY <2>2, <2>3 DEF IsInjective
<1>8. route = [k \in D |-> stops[q[k]]]
  <2>1. \A k \in D : route[k] = stops[q[k]]
    BY <1>2, <1>5, <1>6
  <2>2. route = [k \in D |-> ordered[p[k]]]
    BY <1>2 DEF Along
  <2> HIDE DEF q, route
  <2>3. \A k \in D : ordered[p[k]] = stops[q[k]]
    BY <2>1, <1>6
  <2> QED  BY <2>2, <2>3
<1>9. route \in OrdersOf(stops)
  <2> HIDE DEF q, route
  <2> QED  BY <1>7, <1>8 DEF OrdersOf, D
<1>10. PicksUpFirst(route)
  <2> SUFFICES ASSUME NEW i \in D, NEW j \in D, route[i].parcel = route[j].parcel,
                      route[i].kind = "pickup", route[j].kind = "drop"
               PROVE  i < j
    BY <1>6 DEF PicksUpFirst
  <2>1. route[i] = ordered[p[i]] /\ route[j] = ordered[p[j]] /\ p[i] \in D /\ p[j] \in D
    BY <1>2, <1>6
  <2>2. p[i] \in mustPrecede(ordered, p[j])
    BY <2>1, <1>5 DEF mustPrecede
  <2>3. PICK k \in D : k < j /\ p[k] = p[i]
    BY <1>3, <2>2
  <2>4. k = i
    BY <1>3, <2>3
  <2> QED  BY <2>3, <2>4
<1> QED  BY <1>9, <1>10 DEF ordered

\* And every such order of the stops is a feasible way through the sorted ones.
LEMMA OrderIsFeasible ==
  ASSUME ItineraryConfigured, NEW stops \in Seq(Waypoint),
         NEW other \in OrdersOf(stops), PicksUpFirst(other)
  PROVE  \E p : Feasible(Sorted(stops), DOMAIN stops, p) /\ other = Along(Sorted(stops), p)
<1> DEFINE ordered == Sorted(stops)
           D == DOMAIN stops
<1>1. D = 1 .. Len(stops) /\ Len(stops) \in Nat
  OBVIOUS
<1>2. PICK q \in [D -> D] : IsInjective(q) /\ other = [i \in D |-> stops[q[i]]]
  BY DEF OrdersOf
<1>3. \A i, j \in D : q[i] = q[j] => i = j
  BY <1>2 DEF IsInjective
<1> DEFINE p == [i \in D |-> Rank(stops, q[i])]
<1>4. p \in [D -> D] /\ \A i \in D : p[i] = Rank(stops, q[i]) /\ q[i] \in D
  BY <1>2, RanksAreThePlaces
<1>5. \A i \in D : ordered[Rank(stops, i)] = stops[i]
  BY SortedByRank
<1>6. DOMAIN ordered = D
  BY SortedByRank
<1>7. \A i, j \in D : Rank(stops, i) = Rank(stops, j) => i = j
  BY RanksAreThePlaces
<1> HIDE DEF p, ordered
<1>8. \A i, j \in D : p[i] = p[j] => i = j
  BY <1>3, <1>4, <1>7
<1>9. \A k \in D : \E i \in D : p[i] = k
  <2>1. PICK n \in Nat : D = 1 .. n
    BY <1>1
  <2> HIDE DEF D
  <2>2. p \in [1 .. n -> 1 .. n] /\ \A i, j \in 1 .. n : p[i] = p[j] => i = j
    BY <1>4, <1>8, <2>1
  <2>3. \A k \in 1 .. n : \E i \in 1 .. n : p[i] = k
    BY <2>2, OneToOneIsOnto
  <2> QED  BY <2>1, <2>3
<1>10. p \in Seq(D) /\ DOMAIN p = D
  BY <1>1, <1>4
<1> HIDE DEF D
<1>11. DOMAIN other = D /\ \A i \in D : other[i] = ordered[p[i]]
  BY <1>2, <1>4, <1>5
<1>12. \A k \in D : \A m \in mustPrecede(ordered, p[k]) : \E j \in D : j < k /\ p[j] = m
  <2> TAKE k \in D
  <2> TAKE m \in mustPrecede(ordered, p[k])
  <2>1. /\ ordered[p[k]].kind = "drop" /\ m \in D /\ ordered[m].kind = "pickup"
        /\ ordered[m].parcel = ordered[p[k]].parcel
    BY <1>6 DEF mustPrecede
  <2>2. PICK j \in D : p[j] = m
    BY <1>9, <2>1
  <2>3. other[j].kind = "pickup" /\ other[k].kind = "drop" /\ other[j].parcel = other[k].parcel
    BY <1>11, <2>1, <2>2
  <2>4. j < k
    BY <1>11, <2>3 DEF PicksUpFirst
  <2> QED  BY <2>2, <2>4
<1>13. Feasible(ordered, D, p)
  BY <1>8, <1>9, <1>10, <1>12 DEF Feasible
<1>14. other = Along(ordered, p)
  <2>1. Along(ordered, p) = [i \in D |-> ordered[p[i]]]
    BY <1>10 DEF Along
  <2>2. other = [i \in D |-> other[i]]
    BY <1>2
  <2> QED  BY <2>1, <2>2, <1>11
<1> QED  BY <1>13, <1>14 DEF ordered, D

\* The length of a route is what was travelled to its last stop and the last hop.
LEMMA LengthAlong ==
  ASSUME NEW ordered \in Seq(Waypoint), NEW p \in Seq(DOMAIN ordered), p # <<>>
  PROVE  LengthOf(Along(ordered, p)) =
           Travelled(Along(ordered, p)) + LastHop(ordered[p[Len(p)]])
<1> DEFINE route == Along(ordered, p)
<1>1. Len(p) \in DOMAIN p /\ Len(p) > 0
  OBVIOUS
<1>2. route \in Seq(Waypoint) /\ Len(route) = Len(p) /\ route[Len(p)] = ordered[p[Len(p)]]
  BY <1>1, AlongIsRoute
<1> HIDE DEF route
<1>3. route # <<>>
  BY <1>1, <1>2
<1>4. (IF route = <<>> THEN "O" ELSE route[Len(route)].hub) = ordered[p[Len(p)]].hub
  BY <1>2, <1>3
<1>5. LengthOf(route) = Travelled(route) + LastHop(ordered[p[Len(p)]])
  BY <1>4 DEF LengthOf, LastHop
<1> QED  BY <1>5 DEF route

\* The way the search orders any stops: each once, every parcel picked up before
\* it is dropped, and no such order is shorter.
THEOREM OrderedIsShortest ==
  ASSUME ItineraryConfigured, NEW stops \in Seq(Waypoint)
  PROVE  LET route == orderRouteWaypoints(stops) IN
         /\ route \in OrdersOf(stops)
         /\ PicksUpFirst(route)
         /\ \A other \in OrdersOf(stops) :
              PicksUpFirst(other) => LengthOf(route) <= LengthOf(other)
<1> DEFINE ordered == Sorted(stops)
           D == DOMAIN stops
<1>1. CASE stops = <<>>
  <2>1. orderRouteWaypoints(stops) = <<>>
    BY <1>1 DEF orderRouteWaypoints
  <2>2. DOMAIN stops = {}
    BY <1>1
  <2>3. \A other : other \in OrdersOf(stops) <=> other = <<>>
    <3>1. \A q \in [DOMAIN stops -> DOMAIN stops] :
            IsInjective(q) /\ [i \in DOMAIN stops |-> stops[q[i]]] = <<>>
      BY <2>2 DEF IsInjective
    <3>2. \E q : q \in [DOMAIN stops -> DOMAIN stops]
      <4>1. [i \in DOMAIN stops |-> i] \in [DOMAIN stops -> DOMAIN stops]
        OBVIOUS
      <4> QED  BY <4>1
    <3> QED  BY <3>1, <3>2 DEF OrdersOf
  <2>4. PicksUpFirst(<<>>)
    BY DEF PicksUpFirst
  <2>5. LengthOf(<<>>) \in Nat
    <3>1. Travelled(<<>>) = 0
      <4>1. DOMAIN <<>> = 1 .. 0 /\ Len(<<>>) = 0 /\ 0 \in Nat
        OBVIOUS
      <4> QED  BY <4>1, TravelledByHops
    <3>2. MetresBetween[<<"O", "D">>] \in Nat
      BY DEF ItineraryConfigured, Place
    <3>3. LengthOf(<<>>) = Travelled(<<>>) + MetresBetween[<<"O", "D">>]
      BY DEF LengthOf
    <3> QED  BY <3>1, <3>2, <3>3
  <2> QED  BY <2>1, <2>3, <2>4, <2>5
<1>2. CASE stops # <<>>
  <2>1. PICK p : /\ Feasible(ordered, D, p) /\ p # <<>>
                 /\ orderRouteWaypoints(stops) = Along(ordered, p)
                 /\ \A o : Feasible(ordered, D, o) /\ o # <<>> =>
                      Travelled(Along(ordered, p)) + LastHop(ordered[p[Len(p)]])
                        <= Travelled(Along(ordered, o)) + LastHop(ordered[o[Len(o)]])
    BY <1>2, ChosenIsShortest
  <2>2. ordered \in Seq(Waypoint) /\ DOMAIN ordered = D
    BY SortedByRank
  <2>3. \A o : Feasible(ordered, D, o) => o \in Seq(DOMAIN ordered)
    BY <2>2 DEF Feasible
  <2>4. Along(ordered, p) \in OrdersOf(stops) /\ PicksUpFirst(Along(ordered, p))
    BY <2>1, FeasibleIsOrder
  <2>5. ASSUME NEW other \in OrdersOf(stops), PicksUpFirst(other)
        PROVE  LengthOf(Along(ordered, p)) <= LengthOf(other)
    <3>1. PICK o : Feasible(ordered, D, o) /\ other = Along(ordered, o)
      BY <2>5, OrderIsFeasible
    <3>2. o # <<>>
      <4>1. 1 \in D
        BY <1>2
      <4>2. \E i \in DOMAIN o : o[i] = 1
        BY <3>1, <4>1 DEF Feasible
      <4> QED  BY <4>2
    <3> HIDE DEF ordered, D
    <3>3. LengthOf(Along(ordered, p)) = Travelled(Along(ordered, p)) + LastHop(ordered[p[Len(p)]])
      BY <2>1, <2>2, <2>3, LengthAlong
    <3>4. LengthOf(other) = Travelled(Along(ordered, o)) + LastHop(ordered[o[Len(o)]])
      BY <3>1, <3>2, <2>2, <2>3, LengthAlong
    <3>5. Travelled(Along(ordered, p)) + LastHop(ordered[p[Len(p)]])
            <= Travelled(Along(ordered, o)) + LastHop(ordered[o[Len(o)]])
      BY <2>1, <3>1, <3>2
    <3> QED  BY <3>3, <3>4, <3>5
  <2> QED  BY <2>1, <2>4, <2>5
<1> QED  BY <1>1, <1>2

----------------------------------------------------------------------------
(* The stops that are ordered are stops of legs, whatever happens to them. *)

ItinerarySpec == ItineraryInit /\ [][ItineraryNext]_itineraryVars

\* The legs of the trip and the one drawn are legs between stops.
LegsAreRouted == legs \in Seq(RouteLeg) /\ preview \in RouteLeg \cup {NoPreview}

\* The groups that fit follow one another.
LEMMA RoutableAreStops ==
  ASSUME Groups \in Seq(Seq(Waypoint))
  PROVE  Routable \in Seq(Waypoint)
<1> DEFINE n == Len(Groups)
           Fits(t, k) == IF Len(t) + Len(Groups[k]) <= MaxWaypoints THEN t \o Groups[k] ELSE t
           Entry(f, k) == IF k = 0 THEN <<>> ELSE Fits(f[k - 1], k)
           Unfolded(f) == [k \in 0 .. n |-> Entry(f, k)]
           T == {m \in Nat : \E f : \A k \in 0 .. n : k < m => f[k] = Entry(f, k)}
<1>1. n \in Nat /\ \A k \in 1 .. n : Groups[k] \in Seq(Waypoint)
  OBVIOUS
<1> HIDE DEF n
<1>2. 0 \in T
  <2>1. \A k \in 0 .. n : ~(k < 0)
    BY <1>1
  <2> QED  BY <2>1
<1>3. \A m \in Nat : m \in T => m + 1 \in T
  <2> TAKE m \in Nat
  <2> HAVE m \in T
  <2>1. PICK f : \A k \in 0 .. n : k < m => f[k] = Entry(f, k)
    OBVIOUS
  <2> DEFINE g == Unfolded(f)
  <2>2. \A k \in 0 .. n : g[k] = Entry(f, k)
    OBVIOUS
  <2> HIDE DEF g, Fits
  <2>3. \A k \in 0 .. n : k < m + 1 => g[k] = Entry(g, k)
    <3> TAKE k \in 0 .. n
    <3> HAVE k < m + 1
    <3>1. CASE k = 0
      BY <3>1, <2>2
    <3>2. CASE k # 0
      <4>1. k - 1 \in 0 .. n /\ k - 1 < m
        BY <3>2, <1>1
      <4>2. f[k - 1] = g[k - 1]
        BY <4>1, <2>1, <2>2
      <4> QED  BY <3>2, <4>2, <2>2
    <3> QED  BY <3>1, <3>2
  <2> QED  BY <2>3
<1> HIDE DEF T
<1>4. n + 1 \in T
  BY <1>1, <1>2, <1>3, NaturalsInductive
<1>5. PICK f : \A k \in 0 .. n : k < n + 1 => f[k] = Entry(f, k)
  BY <1>4 DEF T
<1>6. \A k \in 0 .. n : f[k] = Entry(f, k)
  <2> HIDE DEF Entry
  <2> QED  BY <1>1, <1>5
<1> DEFINE g == Unfolded(f)
           taken == CHOOSE h : h = Unfolded(h)
<1>7. g = Unfolded(g)
  <2>1. \A k \in 0 .. n : g[k] = f[k]
    BY <1>6
  <2>2. \A k \in 0 .. n : Entry(f, k) = Entry(g, k)
    <3> TAKE k \in 0 .. n
    <3> HIDE DEF g, Fits
    <3>1. k # 0 => f[k - 1] = g[k - 1]
      BY <2>1, <1>1
    <3> QED  BY <3>1
  <2> HIDE DEF Entry
  <2> QED  BY <2>2
<1>8. taken = Unfolded(taken)
  <2> HIDE DEF g, Unfolded
  <2> QED  BY <1>7
<1>9. Routable = taken[n]
  BY DEF Routable, n
<1>10. \A k \in 0 .. n : taken[k] = Entry(taken, k)
  <2> HIDE DEF taken, Entry
  <2> QED  BY <1>8
<1> HIDE DEF taken
<1> DEFINE U == {k \in Nat : k <= n => taken[k] \in Seq(Waypoint)}
<1>11. 0 \in U
  <2>1. taken[0] = <<>>
    <3> HIDE DEF Fits
    <3> QED  BY <1>1, <1>10
  <2>2. <<>> \in Seq(Waypoint)
    OBVIOUS
  <2>3. taken[0] \in Seq(Waypoint)
    BY <2>1, <2>2
  <2> HIDE DEF Waypoint
  <2> QED  BY <2>3
<1>12. \A k \in Nat : k \in U => k + 1 \in U
  <2> TAKE k \in Nat
  <2> HAVE k \in U
  <2> SUFFICES ASSUME k + 1 <= n PROVE taken[k + 1] \in Seq(Waypoint)
    OBVIOUS
  <2>1. taken[k] \in Seq(Waypoint) /\ k + 1 \in 1 .. n /\ k + 1 \in 0 .. n /\ (k + 1) - 1 = k
    BY <1>1
  <2>2. taken[k + 1] = Fits(taken[k], k + 1)
    <3> HIDE DEF Fits
    <3> QED  BY <1>10, <2>1
  <2>3. Groups[k + 1] \in Seq(Waypoint)
    BY <1>1, <2>1
  <2>4. taken[k] \o Groups[k + 1] \in Seq(Waypoint)
    BY <2>1, <2>3
  <2>5. Fits(taken[k], k + 1) \in {taken[k] \o Groups[k + 1], taken[k]}
    OBVIOUS
  <2> HIDE DEF Fits
  <2> QED  BY <2>1, <2>2, <2>4, <2>5
<1> HIDE DEF U
<1>13. n \in U
  BY <1>1, <1>11, <1>12, NaturalsInductive
<1> QED  BY <1>1, <1>9, <1>13 DEF U

\* A leg has stops of the route ahead.
LEMMA GroupsAreStops ==
  ASSUME LegsAreRouted
  PROVE  Groups \in Seq(Seq(Waypoint))
<1>1. \A l \in RouteLeg : Group(l) \in Seq(Waypoint)
  <2> TAKE l \in RouteLeg
  <2>1. pickup(l) \in Waypoint /\ drop(l) \in Waypoint
    BY DEF RouteLeg, pickup, drop, Waypoint
  <2> QED  BY <2>1 DEF Group
<1> DEFINE ahead == [i \in DOMAIN legs |-> Group(legs[i])]
           drawn == IF preview = NoPreview THEN <<>> ELSE <<Group(preview)>>
<1>2. ahead \in Seq(Seq(Waypoint))
  <2>1. Len(legs) \in Nat /\ DOMAIN legs = 1 .. Len(legs) /\ \A i \in DOMAIN legs : legs[i] \in RouteLeg
    BY DEF LegsAreRouted
  <2>2. \A i \in 1 .. Len(legs) : Group(legs[i]) \in Seq(Waypoint)
    BY <1>1, <2>1
  <2>3. ahead = [i \in 1 .. Len(legs) |-> Group(legs[i])]
    BY <2>1
  <2> HIDE DEF ahead
  <2> QED  BY <2>1, <2>2, <2>3
<1>3. drawn \in Seq(Seq(Waypoint))
  <2>1. CASE preview = NoPreview
    BY <2>1
  <2>2. CASE preview # NoPreview
    <3>1. Group(preview) \in Seq(Waypoint)
      BY <1>1, <2>2 DEF LegsAreRouted
    <3> QED  BY <2>2, <3>1
  <2> QED  BY <2>1, <2>2
<1>4. Groups = ahead \o drawn
  BY DEF Groups
<1> HIDE DEF ahead, drawn
<1> QED  BY <1>2, <1>3, <1>4

\* Of the routes, only those of legs: accepted, picked up, over or previewed.
LEMMA LegsStayRouted == LegsAreRouted /\ [ItineraryNext]_itineraryVars => LegsAreRouted'
<1> SUFFICES ASSUME LegsAreRouted, [ItineraryNext]_itineraryVars PROVE LegsAreRouted'
  OBVIOUS
<1> USE DEF LegsAreRouted
<1>1. CASE LegAccepted
  BY <1>1 DEF LegAccepted
<1>2. CASE LegPickedUp
  <2>1. PICK i \in DOMAIN legs :
          /\ legs' = [legs EXCEPT ![i].aboard = TRUE]
          /\ preview' = IF preview.parcel = legs[i].parcel THEN NoPreview ELSE preview
    BY <1>2 DEF LegPickedUp
  <2>2. [legs[i] EXCEPT !.aboard = TRUE] \in RouteLeg
    <3>1. legs[i] \in RouteLeg
      OBVIOUS
    <3> QED  BY <3>1 DEF RouteLeg
  <2>3. legs' \in Seq(RouteLeg)
    BY <2>1, <2>2
  <2> QED  BY <2>1, <2>3
<1>3. CASE LegOver
  <2>1. PICK i \in DOMAIN legs : legs' = RemoveAt(legs, i) /\ preview' = preview
    BY <1>3 DEF LegOver
  <2>2. i \in 1 .. Len(legs) /\ Len(legs) \in Nat
    OBVIOUS
  <2>3. SubSeq(legs, 1, i - 1) \in Seq(RouteLeg) /\ SubSeq(legs, i + 1, Len(legs)) \in Seq(RouteLeg)
    BY <2>2
  <2>4. legs' = SubSeq(legs, 1, i - 1) \o SubSeq(legs, i + 1, Len(legs))
    BY <2>1 DEF RemoveAt
  <2> QED  BY <2>1, <2>3, <2>4
<1>4. CASE Preview
  BY <1>4 DEF Preview
<1>5. CASE UNCHANGED itineraryVars
  BY <1>5 DEF itineraryVars
<1> QED  BY <1>1, <1>2, <1>3, <1>4, <1>5 DEF ItineraryNext

\* RouteIsShortest, for any hubs, distances, parcels and caps: the subset search of
\* orderRouteWaypoints (route.ts) gives a carrier the shortest of the orders that
\* visit each of its stops once and pick every parcel up before dropping it.
THEOREM RouteStaysShortest ==
  ASSUME ItineraryConfigured
  PROVE  ItinerarySpec => []RouteIsShortest
<1>1. ItineraryInit => LegsAreRouted
  BY DEF ItineraryInit, LegsAreRouted
<1>2. LegsAreRouted /\ [ItineraryNext]_itineraryVars => LegsAreRouted'
  BY LegsStayRouted
<1>3. LegsAreRouted => RouteIsShortest
  <2> HAVE LegsAreRouted
  <2>1. Routable \in Seq(Waypoint)
    BY GroupsAreStops, RoutableAreStops
  <2> QED  BY <2>1, OrderedIsShortest DEF RouteIsShortest
<1> QED  BY <1>1, <1>2, <1>3, PTL DEF ItinerarySpec

----------------------------------------------------------------------------
(* Mail: one row for a warning, and the end of a row is its last state.    *)

Audience == {"sender", "recipient"}

\* A row as an event or the warner's pass queues it.
OutboxRow == [template : Templates, key : Nat \X Audience,
              status : {"pending", "sent", "failed"}, attempts : Nat]

\* The warner's pass has a threshold and the audiences it still looks at.
PassTyped ==
  /\ outbox \in Seq(OutboxRow)
  /\ warner \in [threshold : Nat, todo : Seq(Audience)]

\* What the dispatcher read as pending still is: nobody else ends a row.
BatchPending ==
  batch \subseteq {i \in DOMAIN outbox : outbox[i].status = "pending"}

\* A row is given up by its last attempt, and by no other.
TriedEnough ==
  \A i \in DOMAIN outbox :
    /\ outbox[i].attempts <= MaxAttempts
    /\ outbox[i].status = "pending" => outbox[i].attempts < MaxAttempts
    /\ outbox[i].status = "failed" => outbox[i].attempts = MaxAttempts

MailInv == PassTyped /\ WarnedOnce /\ BatchPending /\ TriedEnough

\* A row that was sent or given up is kept as it is.
EndedStay ==
  \A i \in DOMAIN outbox :
    /\ i \in DOMAIN outbox' /\ outbox'[i].key = outbox[i].key
    /\ outbox[i].status # "pending" => outbox'[i] = outbox[i]

\* A row under a key that no row has keeps the outbox in order.
LEMMA QueuedOnce ==
  ASSUME LimitsArePositive, MailInv, UNCHANGED batch,
         NEW t \in Templates, NEW k \in Nat \X Audience, ~ Already(k), Queue(Letter(t, k))
  PROVE  /\ outbox' \in Seq(OutboxRow)
         /\ WarnedOnce' /\ BatchPending' /\ TriedEnough' /\ EndedStay
<1> DEFINE row == Letter(t, k)
<1>1. /\ row \in OutboxRow
      /\ row.key = k /\ row.status = "pending" /\ row.attempts = 0
  BY DEF Letter, OutboxRow
<1> HIDE DEF row
<1>2. outbox \in Seq(OutboxRow) /\ outbox' = Append(outbox, row)
  BY DEF MailInv, PassTyped, Queue, row
<1>3. /\ outbox' \in Seq(OutboxRow)
      /\ DOMAIN outbox = 1 .. Len(outbox) /\ DOMAIN outbox' = 1 .. (Len(outbox) + 1)
      /\ Len(outbox) \in Nat /\ outbox'[Len(outbox) + 1] = row
      /\ \A i \in DOMAIN outbox : outbox'[i] = outbox[i]
  BY <1>1, <1>2
<1>4. \A i \in DOMAIN outbox' : i \in DOMAIN outbox \/ i = Len(outbox) + 1
  BY <1>3
<1>5. \A i \in DOMAIN outbox : i \in DOMAIN outbox'
  BY <1>3
<1>6. WarnedOnce'
  BY <1>1, <1>3, <1>4 DEF WarnedOnce, MailInv, Already
<1>7. BatchPending'
  BY <1>3, <1>5 DEF BatchPending, MailInv
<1>8. TriedEnough'
  BY <1>1, <1>3, <1>4 DEF TriedEnough, MailInv, LimitsArePositive
<1> QED  BY <1>3, <1>5, <1>6, <1>7, <1>8 DEF EndedStay

\* The dispatcher settles a row of its batch: sent, tried once more or given up.
LEMMA SettledOnce ==
  ASSUME LimitsArePositive, MailInv, NEW i \in batch, NEW row \in OutboxRow,
         outbox' = [outbox EXCEPT ![i] = row], batch' = batch \ {i},
         row.key = outbox[i].key, row.attempts <= MaxAttempts,
         row.status = "pending" => row.attempts < MaxAttempts,
         row.status = "failed" => row.attempts = MaxAttempts
  PROVE  /\ outbox' \in Seq(OutboxRow)
         /\ WarnedOnce' /\ BatchPending' /\ TriedEnough' /\ EndedStay
<1>1. /\ outbox \in Seq(OutboxRow) /\ i \in DOMAIN outbox
      /\ outbox[i].status = "pending"
  BY DEF MailInv, PassTyped, BatchPending
<1>2. /\ outbox' \in Seq(OutboxRow) /\ DOMAIN outbox' = DOMAIN outbox
      /\ outbox'[i] = row
      /\ \A j \in DOMAIN outbox : j # i => outbox'[j] = outbox[j]
  BY <1>1
<1>3. \A j \in DOMAIN outbox : outbox'[j].key = outbox[j].key
  BY <1>2
<1>4. WarnedOnce'
  BY <1>2, <1>3 DEF WarnedOnce, MailInv
<1>5. BatchPending'
  BY <1>2 DEF BatchPending, MailInv
<1>6. TriedEnough'
  BY <1>2 DEF TriedEnough, MailInv
<1>7. EndedStay
  BY <1>1, <1>2, <1>3 DEF EndedStay
<1> QED  BY <1>2, <1>4, <1>5, <1>6, <1>7

\* Whoever moves, the outbox stays in order.
LEMMA MailStep ==
  ASSUME LimitsArePositive, MailInv, [MailNext]_mailVars
  PROVE  MailInv' /\ EndedStay
<1>1. ASSUME UNCHANGED <<outbox, warner>>, batch' \subseteq batch \cup Pending
      PROVE  MailInv' /\ EndedStay
  <2>1. BatchPending'
    BY <1>1 DEF BatchPending, MailInv, Pending
  <2> QED  BY <1>1, <2>1 DEF MailInv, PassTyped, WarnedOnce, TriedEnough, EndedStay
<1>2. CASE Arrive
  <2>1. ~ Already(<<0, "recipient">>)
    BY <1>2 DEF Arrive, Already
  <2>2. /\ Queue(Letter("parcel_arrived", <<0, "recipient">>)) /\ UNCHANGED <<warner, batch>>
        /\ <<0, "recipient">> \in Nat \X Audience /\ "parcel_arrived" \in Templates
    BY <1>2 DEF Arrive, Audience, Templates
  <2>3. /\ outbox' \in Seq(OutboxRow)
        /\ WarnedOnce' /\ BatchPending' /\ TriedEnough' /\ EndedStay
    BY <2>1, <2>2, QueuedOnce
  <2> QED  BY <2>2, <2>3 DEF MailInv, PassTyped
<1>3. CASE Depart \/ ReturnToShelf \/ Hours \/ senderDeleted
  BY <1>1, <1>3 DEF Depart, ReturnToShelf, Hours, senderDeleted
<1>4. CASE WarnBegin
  <2>1. /\ warner' = [threshold |-> Threshold,
                      todo |-> IF erased THEN <<"recipient">> ELSE <<"sender", "recipient">>]
        /\ UNCHANGED <<outbox, batch>>
    BY <1>4 DEF WarnBegin
  <2>2. <<"recipient">> \in Seq(Audience) /\ <<"sender", "recipient">> \in Seq(Audience)
    BY DEF Audience
  <2>3. Threshold \in Nat
    BY DEF Threshold
  <2>4. warner' \in [threshold : Nat, todo : Seq(Audience)]
    BY <2>1, <2>2, <2>3
  <2> QED  BY <2>1, <2>4 DEF MailInv, PassTyped, WarnedOnce, BatchPending, TriedEnough, EndedStay
<1>5. CASE WarnStep
  <2> DEFINE k == <<warner.threshold, Head(warner.todo)>>
  <2>1. warner.todo \in Seq(Audience) /\ warner.todo # <<>> /\ warner.threshold \in Nat
    BY <1>5 DEF WarnStep, MailInv, PassTyped
  <2>2. k \in Nat \X Audience /\ "storage_expiry_warning" \in Templates
    BY <2>1 DEF Templates
  <2>3. warner' \in [threshold : Nat, todo : Seq(Audience)]
    <3>1. Tail(warner.todo) \in Seq(Audience) /\ NoPass \in [threshold : Nat, todo : Seq(Audience)]
      BY <2>1 DEF NoPass
    <3>2. [warner EXCEPT !.todo = Tail(@)] \in [threshold : Nat, todo : Seq(Audience)]
      BY <3>1 DEF MailInv, PassTyped
    <3>3. warner' = NoPass \/ warner' = [warner EXCEPT !.todo = Tail(@)]
      BY <1>5 DEF WarnStep
    <3> QED  BY <3>1, <3>2, <3>3
  <2>4. /\ IF Already(k) THEN UNCHANGED outbox
           ELSE Queue(Letter("storage_expiry_warning", k))
        /\ UNCHANGED batch
    BY <1>5 DEF WarnStep
  <2> HIDE DEF k
  <2>5. CASE Already(k)
    BY <2>3, <2>4, <2>5 DEF MailInv, PassTyped, WarnedOnce, BatchPending, TriedEnough, EndedStay
  <2>6. CASE ~ Already(k)
    <3>1. /\ outbox' \in Seq(OutboxRow)
          /\ WarnedOnce' /\ BatchPending' /\ TriedEnough' /\ EndedStay
      BY <2>2, <2>4, <2>6, QueuedOnce
    <3> QED  BY <2>3, <3>1 DEF MailInv, PassTyped
  <2> QED  BY <2>5, <2>6
<1>6. CASE Dispatch
  BY <1>1, <1>6 DEF Dispatch
<1>7. CASE SendMail
  <2>1. PICK i \in batch : /\ outbox' = [outbox EXCEPT ![i].status = "sent"]
                           /\ batch' = batch \ {i} /\ UNCHANGED warner
    BY <1>7 DEF SendMail
  <2> DEFINE row == [outbox[i] EXCEPT !.status = "sent"]
  <2>2. outbox[i] \in OutboxRow /\ outbox[i].attempts <= MaxAttempts
    BY DEF MailInv, PassTyped, BatchPending, TriedEnough
  <2>3. /\ row \in OutboxRow /\ row.key = outbox[i].key /\ row.attempts = outbox[i].attempts
        /\ row.status = "sent" /\ outbox' = [outbox EXCEPT ![i] = row]
    BY <2>1, <2>2 DEF OutboxRow
  <2> HIDE DEF row
  <2>4. /\ outbox' \in Seq(OutboxRow)
        /\ WarnedOnce' /\ BatchPending' /\ TriedEnough' /\ EndedStay
    BY <2>1, <2>2, <2>3, SettledOnce
  <2> QED  BY <2>1, <2>4 DEF MailInv, PassTyped
<1>8. CASE SendFails
  <2>1. PICK i \in batch : /\ outbox' = [outbox EXCEPT ![i] = Failed(@)]
                           /\ batch' = batch \ {i} /\ UNCHANGED warner
    BY <1>8 DEF SendFails
  <2> DEFINE row == Failed(outbox[i])
  <2>2. outbox[i] \in OutboxRow /\ outbox[i].attempts < MaxAttempts
    BY DEF MailInv, PassTyped, BatchPending, TriedEnough
  <2>3. /\ row \in OutboxRow /\ row.key = outbox[i].key /\ row.attempts = outbox[i].attempts + 1
        /\ row.status = IF outbox[i].attempts + 1 >= MaxAttempts THEN "failed" ELSE "pending"
    <3> DEFINE as == IF outbox[i].attempts + 1 >= MaxAttempts THEN "failed" ELSE "pending"
    <3>1. /\ row = [outbox[i] EXCEPT !.attempts = outbox[i].attempts + 1, !.status = as]
          /\ as \in {"pending", "sent", "failed"}
      BY DEF Failed
    <3> HIDE DEF row, as
    <3>2. outbox[i].attempts + 1 \in Nat
      BY <2>2 DEF OutboxRow
    <3>3. row \in OutboxRow /\ row.key = outbox[i].key
      BY <2>2, <3>1, <3>2 DEF OutboxRow
    <3>4. row.attempts = outbox[i].attempts + 1 /\ row.status = as
      BY <2>2, <3>1 DEF OutboxRow
    <3> QED  BY <3>3, <3>4 DEF as
  <2>4. outbox' = [outbox EXCEPT ![i] = row]
    BY <2>1
  <2> HIDE DEF row
  <2>5. outbox[i].attempts \in Nat /\ MaxAttempts \in Nat
    BY <2>2 DEF OutboxRow, LimitsArePositive
  <2>6. /\ row.attempts <= MaxAttempts
        /\ row.status = "pending" => row.attempts < MaxAttempts
        /\ row.status = "failed" => row.attempts = MaxAttempts
    BY <2>2, <2>3, <2>5
  <2>7. /\ outbox' \in Seq(OutboxRow)
        /\ WarnedOnce' /\ BatchPending' /\ TriedEnough' /\ EndedStay
    BY <2>1, <2>3, <2>4, <2>6, SettledOnce
  <2> QED  BY <2>1, <2>7 DEF MailInv, PassTyped
<1>9. CASE Crash
  <2>1. batch' = {} /\ warner' = NoPass /\ UNCHANGED outbox
    BY <1>9 DEF Crash
  <2>2. NoPass \in [threshold : Nat, todo : Seq(Audience)]
    BY DEF NoPass
  <2> QED  BY <2>1, <2>2 DEF MailInv, PassTyped, WarnedOnce, BatchPending, TriedEnough, EndedStay
<1>10. CASE UNCHANGED mailVars
  BY <1>1, <1>10 DEF mailVars
<1> QED  BY <1>2, <1>3, <1>4, <1>5, <1>6, <1>7, <1>8, <1>9, <1>10
         DEF MailNext, Warner, Dispatcher

\* No audience of a stay is warned twice of a threshold and no row is given up
\* before its last attempt; and a row that was sent or given up is never reopened,
\* whatever passes, dispatches, retries and crashes of the worker interleave.
THEOREM MailsEndOnce ==
  ASSUME LimitsArePositive
  PROVE  MailSpec => [](WarnedOnce /\ TriedEnough) /\ [][EndedStay]_mailVars
<1>1. MailInit => MailInv
  <2> HAVE MailInit
  <2>1. outbox = <<>> /\ batch = {} /\ warner = NoPass
    BY DEF MailInit
  <2>2. outbox \in Seq(OutboxRow) /\ DOMAIN outbox = {}
    BY <2>1
  <2> QED  BY <2>1, <2>2 DEF MailInv, PassTyped, WarnedOnce, BatchPending, TriedEnough, NoPass
<1>2. MailInv /\ [MailNext]_mailVars => MailInv' /\ EndedStay
  BY MailStep
<1>3. MailInv => WarnedOnce /\ TriedEnough
  BY DEF MailInv
<1> QED  BY <1>1, <1>2, <1>3, PTL DEF MailSpec
=============================================================================
