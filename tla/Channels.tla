------------------------------ MODULE Channels ------------------------------
(***************************************************************************)
(* SocialService: the OAuth consents that connect accounts, the accounts   *)
(* and the publish rate limit of each.  The exchange of the code with the  *)
(* network is simulated in the code and always succeeds; connector events, *)
(* names and the instants of a bucket's window are left out, and so is     *)
(* validateScopes, which only records an event.                            *)
(***************************************************************************)
EXTENDS Service

CONSTANTS
  Networks,     \* the platforms consent is asked for
  CallerUsers,  \* platform user ids a callback may name, naturals; 1 is the fixture accounts'
  MaxConsents,  \* bound: OAuth states
  ConsentTtl    \* how long a state is valid: ten minutes

VARIABLES
  oauthStates,  \* oldest first
  accounts,     \* oldest first
  buckets       \* publish buckets, oldest first

channelsVars == <<oauthStates, accounts, buckets>>

ChannelsAssumption ==
  /\ ConsentTtl \in Nat \ {0}
  /\ MaxConsents \in Nat \ {0}
  /\ 1 \in CallerUsers /\ CallerUsers \subseteq Nat
  /\ Networks \subseteq {"instagram", "facebook", "linkedin", "x", "mastodon", "bluesky",
                         "pinterest", "threads", "tiktok", "youtube"}
ASSUME ChannelsAssumption

Scopes == {"publish", "insights", "comments", "boards"}

DefaultScopes(platform) ==
  CASE platform \in {"x", "mastodon", "bluesky"} -> {"publish", "insights"}
    [] platform = "pinterest" -> {"publish", "insights", "boards"}
    [] OTHER -> {"publish", "insights", "comments"}

RateLimitDefaults(platform) ==
  CASE platform = "x" -> [limit |-> 100, remaining |-> 75]
    [] platform = "linkedin" -> [limit |-> 150, remaining |-> 120]
    [] platform \in {"instagram", "facebook"} -> [limit |-> 200, remaining |-> 180]
    [] OTHER -> [limit |-> 120, remaining |-> 100]

\* A platform's name for an account: the caller's, or made from the OAuth state.
PlatformUsers == [from : {"caller"}, id : CallerUsers] \cup [from : {"state"}, id : 1 .. MaxConsents]

OAuthState == [platform : Networks, scopes : SUBSET Scopes,
               status : {"pending", "consumed", "expired"},
               expiresAt : Nat, consumedAt : {Never} \cup Instants]
Account == [platform : Networks, user : PlatformUsers, permissions : SUBSET Scopes,
            status : {"connected", "expired"}]
RateLimitBucket == [account : Nat, limit : Nat, remaining : Nat]

ChannelsTypeOK ==
  /\ oauthStates \in Seq(OAuthState)
  /\ accounts \in Seq(Account)
  /\ buckets \in Seq(RateLimitBucket)
  /\ \A b \in DOMAIN buckets : buckets[b].account \in DOMAIN accounts

\* The fixtures, as far as they are of the platforms in Networks.
OnNetwork(row) == IF row.platform \in Networks THEN <<row>> ELSE <<>>

FixtureStates(expiresAt) ==
  OnNetwork([platform |-> "instagram", scopes |-> {"publish", "insights", "comments"},
             status |-> "pending", expiresAt |-> expiresAt, consumedAt |-> Never])

FixtureAccounts ==
  LET demo == [from |-> "caller", id |-> 1]
  IN OnNetwork([platform |-> "instagram", user |-> demo, status |-> "connected",
                permissions |-> {"publish", "insights", "comments"}])
     \o OnNetwork([platform |-> "linkedin", user |-> demo, status |-> "connected",
                   permissions |-> {"publish", "insights", "comments"}])
     \o OnNetwork([platform |-> "x", user |-> demo, status |-> "expired",
                   permissions |-> {"publish", "insights"}])

FixtureBuckets ==
  [a \in DOMAIN FixtureAccounts |->
     CASE FixtureAccounts[a].platform = "instagram" -> [account |-> a, limit |-> 200, remaining |-> 184]
       [] FixtureAccounts[a].platform = "linkedin" -> [account |-> a, limit |-> 150, remaining |-> 91]
       [] FixtureAccounts[a].platform = "x" -> [account |-> a, limit |-> 100, remaining |-> 0]]

\* The process may start before the pending consent expires, or after.
ChannelsInit ==
  /\ \E expiresAt \in {1, MaxTime + 1} : oauthStates = FixtureStates(expiresAt)
  /\ accounts = FixtureAccounts
  /\ buckets = FixtureBuckets

-----------------------------------------------------------------------------

StartOAuth(platform, scopes) ==
  /\ AssertAllowed("socialAccounts", 1)
  /\ Len(oauthStates) < MaxConsents
  /\ oauthStates' = Append(oauthStates,
       [platform |-> platform, scopes |-> IF scopes = {} THEN DefaultScopes(platform) ELSE scopes,
        status |-> "pending", expiresAt |-> now + ConsentTtl, consumedAt |-> Never])
  /\ UNCHANGED <<accounts, buckets>>

AccountOf(platform, user) ==
  Newest(accounts, LAMBDA a : a.platform = platform /\ a.user = user)

BucketOf(account) == Newest(buckets, LAMBDA b : b.account = account)

\* The buckets with one for the account, made with the platform's defaults if it has none.
UpsertBucket(account, platform) ==
  IF BucketOf(account) # NoRecord THEN buckets
  ELSE Append(buckets, [account |-> account, limit |-> RateLimitDefaults(platform).limit,
                        remaining |-> RateLimitDefaults(platform).remaining])

\* What a consumed state does to the accounts: it connects one, and permissions only accumulate.
Connect(i, user) ==
  LET state == oauthStates[i]
      found == AccountOf(state.platform, user)
      account == IF found = NoRecord THEN Len(accounts) + 1 ELSE found
  IN /\ accounts' =
          IF found = NoRecord
          THEN Append(accounts, [platform |-> state.platform, user |-> user,
                                 permissions |-> state.scopes, status |-> "connected"])
          ELSE [accounts EXCEPT ![found].permissions = @ \cup state.scopes,
                                ![found].status = "connected"]
     /\ buckets' = UpsertBucket(account, state.platform)

Expire(i) ==
  /\ oauthStates[i].status = "pending"
  /\ oauthStates[i].expiresAt <= now
  /\ oauthStates' = [oauthStates EXCEPT ![i].status = "expired"]
  /\ UNCHANGED <<accounts, buckets>>

\* Mutant: the callback is taken at the instant the state expires, and after it.
CompleteOAuth_Late(i, user) ==
  /\ oauthStates[i].status = "pending"
  /\ oauthStates' = [oauthStates EXCEPT ![i].status = "consumed", ![i].consumedAt = now]
  /\ Connect(i, user)

\* The callback: a late one marks the state expired and connects nothing (Expire).
CompleteOAuth(i, user) ==
  /\ oauthStates[i].status = "pending"
  /\ oauthStates[i].expiresAt > now
  /\ oauthStates' = [oauthStates EXCEPT ![i].status = "consumed", ![i].consumedAt = now]
  /\ Connect(i, user)

RefreshToken(a) ==
  LET upserted == UpsertBucket(a, accounts[a].platform)
      b == IF BucketOf(a) = NoRecord THEN Len(upserted) ELSE BucketOf(a)
      floor == (3 * upserted[b].limit) \div 4
  IN /\ accounts' = [accounts EXCEPT ![a].status = "connected"]
     /\ buckets' = [upserted EXCEPT ![b].remaining = IF @ >= floor THEN @ ELSE floor]
     /\ UNCHANGED oauthStates

ChannelsNext ==
  \/ Tick /\ UNCHANGED channelsVars
  \/ /\ UNCHANGED now
     /\ \/ \E platform \in Networks, scopes \in {{}, {"publish"}, {"boards"}} :
             StartOAuth(platform, scopes)
        \/ \E i \in DOMAIN oauthStates :
             \/ Expire(i)
             \/ \E id \in CallerUsers : CompleteOAuth(i, [from |-> "caller", id |-> id])
             \/ CompleteOAuth(i, [from |-> "state", id |-> i])
        \/ \E a \in DOMAIN accounts : RefreshToken(a)

-----------------------------------------------------------------------------

ConsumedFor(platform) ==
  {i \in DOMAIN oauthStates :
     oauthStates[i].platform = platform /\ oauthStates[i].status = "consumed"}
NewAccountsOn(platform) ==
  {a \in DOMAIN accounts \ DOMAIN FixtureAccounts : accounts[a].platform = platform}

\* Behind every account there is a consent in time: each state connects at most once and before
\* it expires, and an account holds no permission that no consumed state of its platform asked
\* for and the fixtures did not give it.  [SocialService.completeOAuth]
ConsentBehindEveryAccount ==
  /\ \A i \in DOMAIN oauthStates : oauthStates[i].consumedAt # Never =>
       oauthStates[i].status = "consumed" /\ oauthStates[i].consumedAt < oauthStates[i].expiresAt
  /\ \A platform \in Networks :
       Cardinality(NewAccountsOn(platform)) <= Cardinality(ConsumedFor(platform))
  /\ \A a \in DOMAIN accounts :
       accounts[a].permissions \subseteq
         (UNION {oauthStates[i].scopes : i \in ConsumedFor(accounts[a].platform)})
           \cup (IF a \in DOMAIN FixtureAccounts THEN FixtureAccounts[a].permissions ELSE {})

\* One account per platform user and one publish bucket per account, which never promises more
\* than its limit.  [completeOAuth, upsertRateLimitBucket, refreshToken]
AccountsApart ==
  /\ \A a, b \in DOMAIN accounts :
       accounts[a].platform = accounts[b].platform /\ accounts[a].user = accounts[b].user => a = b
  /\ \A a \in DOMAIN accounts : Cardinality({b \in DOMAIN buckets : buckets[b].account = a}) = 1
  /\ \A b \in DOMAIN buckets : buckets[b].remaining <= buckets[b].limit
=============================================================================
