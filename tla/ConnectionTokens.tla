-------------------------- MODULE ConnectionTokens --------------------------
(***************************************************************************)
(* The OAuth tokens of one marketplace connection                          *)
(* (apps/backend/src/marketplace-connection/token-refresh.service.ts,      *)
(* marketplace-connection.service.ts, connections/oauth-callback.service.  *)
(* ts; getAccessToken of adapters/allegro and adapters/mercadolibre).      *)
(*                                                                         *)
(* All credentials are one encrypted column.  A job or the schedule that   *)
(* finds the access token over trades the refresh token for a new pair,    *)
(* which the marketplace does once for each refresh token, and writes the  *)
(* column; the panel's edits and the customer's new consent write the      *)
(* whole column too, each from what it read before.  An adapter that is    *)
(* given a token that is over trades too, and stores nothing.              *)
(***************************************************************************)
EXTENDS Integers, FiniteSets

CONSTANTS
  Refreshers, \* jobs and runs of the schedule that need credentials at the same time
  Panels,     \* edits, consents and tests of the customer under way at the same time
  MaxConsents, MaxExpiries, MaxLosses
              \* bounds: consents; access tokens that run out; lost answers, outages and
              \* deaths of the process, taken together

ASSUME ConnectionTokensAssumption ==
  /\ Refreshers \cap Panels = {}
  /\ MaxConsents \in Nat /\ MaxExpiries \in Nat /\ MaxLosses \in Nat

Procs == Refreshers \cup Panels
Pairs == 0..(MaxConsents + MaxExpiries)

VARIABLES
  row,      \* the MarketplaceConnection: the pair of tokens it holds and its flags
  issued,   \* pairs the marketplace has given out are numbered 0..issued
  usable,   \* pairs whose refresh token it still takes
  over,     \* pairs whose access token has run out
  at, held, \* where each process is and the pair it holds
  isActive, \* what an edit will write to row.isActive
  astray,   \* whether a new pair was lost on its way to the column, an adapter traded the
            \* column's and kept the new one, or an edit wrote the column over another than it
            \* had read, and no new pair was stored since
  consents, upsets

tokenVars == <<row, issued, usable, over, at, held, isActive, astray, consents, upsets>>
tokensOut == <<issued, usable>>
steps == <<at, held>>

TokenTypeOK ==
  /\ row \in [pair : Pairs, isActive : BOOLEAN, deleted : BOOLEAN]
  /\ issued \in Pairs /\ usable \subseteq 0..issued /\ over \subseteq 0..issued
  /\ at \in [Procs -> {"idle", "refresh", "persist", "use", "exchange", "consent",
                     "edit"}]
  /\ held \in [Procs -> 0..issued] /\ isActive \in [Panels -> BOOLEAN]
  /\ astray \in BOOLEAN /\ consents \in 0..MaxConsents /\ upsets \in 0..MaxLosses

TokenInit ==
  /\ row = [pair |-> 0, isActive |-> TRUE, deleted |-> FALSE]
  /\ issued = 0 /\ usable = {0} /\ over = {}
  /\ at = [p \in Procs |-> "idle"] /\ held = [p \in Procs |-> 0]
  /\ isActive = [p \in Panels |-> TRUE]
  /\ astray = FALSE /\ consents = 0 /\ upsets = 0

At(p, l) == at[p] = l
MoveTo(p, l) == at' = [at EXCEPT ![p] = l]
Hold(p, l, k) == at' = [at EXCEPT ![p] = l] /\ held' = [held EXCEPT ![p] = k]
LetGo(p) == Hold(p, "idle", 0)
Upset == upsets < MaxLosses /\ upsets' = upsets + 1

----------------------------------------------------------------------------
\* Refreshing.

\* Mutant of shouldRefreshToken: the time the token runs out is not looked at.
MutIgnoresExpiry(k) == FALSE

shouldRefreshToken(k) == k \in over

\* getDecryptedCredentialsForJob and refreshExpiringTokens: read the connection, and go on if
\* its access token is over.
ReadCredentials(p) ==
  /\ At(p, "idle") /\ row.isActive /\ ~row.deleted /\ shouldRefreshToken(row.pair)
  /\ Hold(p, "refresh", row.pair)
  /\ UNCHANGED <<row, tokensOut, over, isActive, astray, consents, upsets>>

\* refreshPlatformTokens: a pair that was traded before is refused and the caller fails; the
\* marketplace may be out of reach, and its answer may be lost after the trade.
Refresh(p) ==
  /\ At(p, "refresh")
  /\ \/ /\ held[p] \in usable
        /\ issued' = issued + 1
        /\ usable' = (usable \ {held[p]}) \cup {issued + 1}
        /\ \/ Hold(p, "persist", issued + 1) /\ UNCHANGED <<astray, upsets>>
           \/ Upset /\ astray' = TRUE /\ LetGo(p)
     \/ held[p] \notin usable /\ LetGo(p) /\ UNCHANGED <<tokensOut, astray, upsets>>
     \/ Upset /\ LetGo(p) /\ UNCHANGED <<tokensOut, astray>>
  /\ UNCHANGED <<row, over, isActive, consents>>

\* Mutant of persistCredentials: what was read wins over what was refreshed.
MutKeepsOld(p) ==
  /\ At(p, "persist")
  /\ astray' = FALSE
  /\ LetGo(p)
  /\ UNCHANGED <<row, tokensOut, over, isActive, consents, upsets>>

\* persistCredentials: not if the connection was removed.  A job then works with the new pair,
\* the schedule does not.
persistCredentials(p) ==
  /\ At(p, "persist")
  /\ IF row.deleted THEN UNCHANGED <<row, astray>>
     ELSE row' = [row EXCEPT !.pair = held[p]] /\ astray' = FALSE
  /\ LetGo(p) \/ Hold(p, "use", held[p])
  /\ UNCHANGED <<tokensOut, over, isActive, consents, upsets>>

----------------------------------------------------------------------------
\* Using.

\* getDecryptedCredentialsForJob, when the access token is good for now.
UseCredentials(p) ==
  /\ At(p, "idle") /\ row.isActive /\ ~row.deleted /\ ~shouldRefreshToken(row.pair)
  /\ Hold(p, "use", row.pair)
  /\ UNCHANGED <<row, tokensOut, over, isActive, astray, consents, upsets>>

\* A test takes the credentials as they are, of an inactive connection too.
testConnection(p) ==
  /\ At(p, "idle") /\ ~row.deleted
  /\ Hold(p, "use", row.pair)
  /\ UNCHANGED <<row, tokensOut, over, isActive, astray, consents, upsets>>

\* getAccessToken of an adapter: with an access token that is over by now it trades the refresh
\* token, and the new pair goes no further than the caller's memory.
getAccessToken(p) ==
  /\ At(p, "use")
  /\ \/ /\ held[p] \in over \cap usable
        /\ issued' = issued + 1
        /\ usable' = (usable \ {held[p]}) \cup {issued + 1}
        /\ astray' = (astray \/ row.pair = held[p])
     \/ UNCHANGED <<tokensOut, astray>>
  /\ LetGo(p)
  /\ UNCHANGED <<row, over, isActive, consents, upsets>>

----------------------------------------------------------------------------
\* The customer.

\* completeOAuthCallback: read, exchange the code for a pair, write it and switch on.
completeOAuthCallback(p) ==
  /\ At(p, "idle") /\ ~row.deleted /\ consents < MaxConsents
  /\ MoveTo(p, "exchange") /\ UNCHANGED held
  /\ consents' = consents + 1
  /\ UNCHANGED <<row, tokensOut, over, isActive, astray, upsets>>

Exchange(p) ==
  /\ At(p, "exchange")
  /\ issued' = issued + 1 /\ usable' = usable \cup {issued + 1}
  /\ Hold(p, "consent", issued + 1)
  /\ UNCHANGED <<row, over, isActive, astray, consents, upsets>>

WriteConsent(p) ==
  /\ At(p, "consent")
  /\ row' = [row EXCEPT !.pair = held[p], !.isActive = TRUE]
  /\ astray' = FALSE
  /\ LetGo(p)
  /\ UNCHANGED <<tokensOut, over, isActive, consents, upsets>>

\* update: any edit writes the column back as it was read.
update(p) ==
  /\ At(p, "idle") /\ ~row.deleted
  /\ \E b \in BOOLEAN : isActive' = [isActive EXCEPT ![p] = b]
  /\ Hold(p, "edit", row.pair)
  /\ UNCHANGED <<row, tokensOut, over, astray, consents, upsets>>

WriteEdit(p) ==
  /\ At(p, "edit")
  /\ row' = [row EXCEPT !.pair = held[p], !.isActive = isActive[p]]
  /\ astray' = (astray \/ row.pair # held[p])
  /\ isActive' = [isActive EXCEPT ![p] = TRUE]
  /\ LetGo(p)
  /\ UNCHANGED <<tokensOut, over, consents, upsets>>

remove ==
  /\ ~row.deleted
  /\ row' = [row EXCEPT !.deleted = TRUE]
  /\ UNCHANGED <<tokensOut, over, steps, isActive, astray, consents, upsets>>

----------------------------------------------------------------------------
\* Time and the process.

RunOut(k) ==
  /\ k \in (0..issued) \ over /\ Cardinality(over) < MaxExpiries
  /\ over' = over \cup {k}
  /\ UNCHANGED <<row, tokensOut, steps, isActive, astray, consents, upsets>>

TokenCrash ==
  /\ Upset /\ \E p \in Procs : ~At(p, "idle")
  /\ astray' = (astray \/ \E p \in Procs : At(p, "persist"))
  /\ at' = [p \in Procs |-> "idle"] /\ held' = [p \in Procs |-> 0]
  /\ isActive' = [p \in Panels |-> TRUE]
  /\ UNCHANGED <<row, tokensOut, over, consents>>

RefreshStep(p) == Refresh(p) \/ persistCredentials(p) \/ getAccessToken(p)

TokenNext ==
  \/ \E p \in Refreshers : ReadCredentials(p) \/ UseCredentials(p) \/ RefreshStep(p)
  \/ \E p \in Panels : completeOAuthCallback(p) \/ Exchange(p) \/ WriteConsent(p)
                         \/ update(p) \/ WriteEdit(p) \/ testConnection(p) \/ getAccessToken(p)
  \/ remove
  \/ \E k \in Pairs : RunOut(k)
  \/ TokenCrash

TokenSpec == TokenInit /\ [][TokenNext]_tokenVars

\* The schedule comes round every ten minutes and what was begun goes on; the customer and
\* the clock owe nothing.
FairTokenSpec == TokenSpec /\ \A p \in Refreshers : WF_tokenVars(ReadCredentials(p)) /\ WF_tokenVars(RefreshStep(p))

----------------------------------------------------------------------------
(* Properties *)

\* Jobs and the schedule that refresh the same token at the same time never leave the
\* connection with a refresh token the marketplace no longer takes, once none is at it: that
\* would end the connection until the customer consents again.  Only three things do: an
\* answer or a process lost after the trade, an adapter that traded the token itself because
\* it was given one that was over or ran out in use, or a column written over a newer one.
\* (The types are checked along with it.)
TokenKept ==
  TokenTypeOK /\ ((\A p \in Refreshers : ~At(p, "persist")) /\ ~astray /\ ~row.deleted => row.pair \in usable)

\* The token of a connection in use does not stay over, unless its refresh token was lost in
\* one of these three ways.
TokensAreRenewed ==
  row.pair \in over
    ~> row.pair \notin over \/ astray \/ row.deleted \/ ~row.isActive
=============================================================================
