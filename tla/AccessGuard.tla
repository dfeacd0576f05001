----------------------------- MODULE AccessGuard -----------------------------
(***************************************************************************)
(* The guard in front of every inspector route: AccessTokenService         *)
(* (lib/src/access-token.service.ts) and the AccessAttemptLimiter it       *)
(* consults (lib/src/access-attempt-limiter.ts), across restarts of the    *)
(* process.  A request is checked in one synchronous step.                 *)
(*                                                                         *)
(* Time is in ticks; a signature is the secret it was made with, so that a *)
(* token is the pair of that secret and its expiry.                        *)
(***************************************************************************)
EXTENDS Naturals, FiniteSets, Sequences

CONSTANTS
    Clients,            \* socket addresses
    MaxFailures, Window, Block, MaxTracked, \* bruteForce options, normalised
    Ttl,                \* accessToken.ttlMs, normalised
    Second,             \* ticks in the second Retry-After is counted in
    StableSecret,       \* whether the secret is configured, not random
    MaxTime, MaxRestarts, MaxGuesses    \* bounds of a run

ASSUME GuardAssumption ==
    /\ IsFiniteSet(Clients)
    /\ {MaxFailures, Window, Block, MaxTracked, Ttl} \subseteq Nat
    /\ Second \in Nat \ {0} /\ StableSecret \in BOOLEAN
    /\ {MaxRestarts, MaxGuesses} \subseteq Nat /\ MaxTime \in Nat \ {0}

VARIABLES
    now,        \* Date.now()
    clients,    \* the limiter's map: a record for each tracked client
    secret,     \* the process's secret
    issued,     \* expiry of the token this process printed, 0 before
    minted,     \* every token ever printed, those of earlier processes too
    restarts,
    \* history, for the properties
    guesses,    \* times of the guesses counted since the client was forgotten
    announced,  \* when a refused client was told to come back, 0 if it was not
    guessCount  \* guesses made in the whole run, for the bound

history == <<guesses, announced, guessCount>>
vars == <<now, clients, secret, issued, minted, restarts, history>>

Times   == 1..MaxTime
Record  == [failures : Nat, start : Times, seen : Times, until : Nat]
Token   == [kind : {"printed"}, secret : Nat, exp : Nat]
Forged  == [kind : {"missing", "malformed", "foreign"}, secret : {0}, exp : {0}]
Rejections == {"missing", "malformed", "signature", "expired"}

TypeOK ==
    /\ now \in Times
    /\ DOMAIN clients \subseteq Clients
    /\ clients \in [DOMAIN clients -> Record]
    /\ Cardinality(DOMAIN clients) <= MaxTracked
    /\ secret \in Nat /\ issued \in Nat /\ restarts \in Nat
    /\ minted \subseteq Token
    /\ guesses \in [Clients -> Seq(Times)]
    /\ announced \in [Clients -> Nat]
    /\ guessCount \in Nat

Init ==
    /\ now = 1
    /\ clients = <<>>
    /\ secret = 0 /\ issued = 0 /\ minted = {} /\ restarts = 0
    /\ guesses = [c \in Clients |-> <<>>]
    /\ announced = [c \in Clients |-> 0]
    /\ guessCount = 0

-----------------------------------------------------------------------------
(* AccessAttemptLimiter.  `until' is 0 for a client that was never blocked.*)
Tracked == DOMAIN clients
Without(map, c) == [d \in DOMAIN map \ {c} |-> map[d]]
With(map, c, rec) == [d \in DOMAIN map \cup {c} |-> IF d = c THEN rec ELSE map[d]]

IsBlocked(rec) == now < rec.until
BlockedNow(c)  == c \in Tracked /\ IsBlocked(clients[c])

(* check: a block that has run its course forgets the client.              *)
Check(c) == IF c \in Tracked /\ clients[c].until # 0 /\ ~BlockedNow(c)
            THEN Without(clients, c)
            ELSE clients

(* Mutant: the client seen longest ago goes, blocked or not.               *)
EvictionCandidatesByAge(map) ==
    {c \in DOMAIN map : \A d \in DOMAIN map : map[c].seen <= map[d].seen}

(* evictionCandidate: unblocked clients first, the one seen longest ago;   *)
(* else the block that ends soonest.                                       *)
EvictionCandidates(map) ==
    LET idle == {c \in DOMAIN map : ~IsBlocked(map[c])} IN
    IF idle # {}
    THEN {c \in idle : \A d \in idle : map[c].seen <= map[d].seen}
    ELSE {c \in DOMAIN map : \A d \in DOMAIN map : map[c].until <= map[d].until}

(* evict: drop the records whose window is over, then, if the tracker is   *)
(* still too large, by rank.  It is never more than one too large, by c,   *)
(* which was inserted last: a tie goes by insertion order, so c is the one *)
(* to go only when it ties with nobody.  Other ties are left open.         *)
Evictions(map, c) ==
    LET stale == {d \in DOMAIN map : ~IsBlocked(map[d]) /\ now - map[d].start >= Window}
        kept  == [d \in DOMAIN map \ stale |-> map[d]]
    IN IF Cardinality(DOMAIN kept) > MaxTracked
       THEN LET first == EvictionCandidates(kept) IN
            {Without(kept, d) : d \in IF first = {c} THEN first ELSE first \ {c}}
       ELSE {kept}

(* Mutant: the window never rolls, failures add up forever.                *)
FailureRecordWithoutWindow(map, c) ==
    LET old == IF c \in DOMAIN map THEN map[c]
               ELSE [failures |-> 0, start |-> now, seen |-> now, until |-> 0]
        n == old.failures + 1
    IN [old EXCEPT !.failures = n, !.seen = now,
                   !.until = IF n >= MaxFailures THEN now + Block ELSE @]

(* Mutant: one guess too many is tolerated.                                *)
FailureRecordLate(map, c) ==
    LET old == IF c \in DOMAIN map /\ now - map[c].start < Window THEN map[c]
               ELSE [failures |-> 0, start |-> now, seen |-> now,
                     until |-> IF c \in DOMAIN map THEN map[c].until ELSE 0]
        n == old.failures + 1
    IN [old EXCEPT !.failures = n, !.seen = now,
                   !.until = IF n > MaxFailures THEN now + Block ELSE @]

(* The record of one more failure: in the running window, or in a fresh    *)
(* one, to which an earlier block carries over.                            *)
FailureRecord(map, c) ==
    LET old == IF c \in DOMAIN map /\ now - map[c].start < Window THEN map[c]
               ELSE [failures |-> 0, start |-> now, seen |-> now,
                     until |-> IF c \in DOMAIN map THEN map[c].until ELSE 0]
        n == old.failures + 1
    IN [old EXCEPT !.failures = n, !.seen = now,
                   !.until = IF n >= MaxFailures THEN now + Block ELSE @]

(* recordFailure: the eviction runs only when the record was (re)inserted. *)
RecordFailure(map, c) ==
    LET withinWindow == c \in DOMAIN map /\ now - map[c].start < Window
        new == With(map, c, FailureRecord(map, c))
    IN IF ~withinWindow /\ Cardinality(DOMAIN new) > MaxTracked
       THEN Evictions(new, c)
       ELSE {new}

-----------------------------------------------------------------------------
(* AccessTokenService.verify.  A token is a payload and its signature,     *)
(* which is the secret it was made with; a foreign one is none of ours.    *)
Mint == [kind |-> "printed", secret |-> secret, exp |-> now + Ttl]
SignatureMatches(t) == t.kind = "printed" /\ t.secret = secret

Verdict(t) ==
    IF t.kind \in {"missing", "malformed"} THEN t.kind
    ELSE IF ~SignatureMatches(t) THEN "signature"
    ELSE IF t.exp <= now THEN "expired"
    ELSE "ok"

(* Mutant: any rejected token is a guess.                                  *)
AnyRejectionIsAGuess(verdict) == verdict \in Rejections

(* GUESS_REJECTIONS                                                        *)
IsGuess(verdict) == verdict \in {"malformed", "signature"}

(* Mutant: Retry-After is rounded down.                                    *)
RetryAfterFloor(ms) == ms \div Second

(* blockedResponse: Math.ceil(retryAfterMs / 1_000)                        *)
RetryAfter(ms) == (ms + Second - 1) \div Second

-----------------------------------------------------------------------------
(* The guard refuses a blocked client without looking at its token.        *)
Refuse429(c) ==
    /\ BlockedNow(c)
    /\ announced' = [announced EXCEPT ![c] = now + Second * RetryAfter(clients[c].until - now)]
    /\ UNCHANGED <<now, clients, secret, issued, minted, restarts, guesses, guessCount>>

(* A valid token clears the client's history.                              *)
Accept(c, t) ==
    /\ ~BlockedNow(c) /\ Verdict(t) = "ok"
    /\ clients' = Without(Check(c), c)
    /\ guesses' = [guesses EXCEPT ![c] = <<>>]
    /\ announced' = [announced EXCEPT ![c] = 0]
    /\ UNCHANGED <<now, secret, issued, minted, restarts, guessCount>>

(* A rejection that is no guess: 401, nothing counted.                     *)
Reject(c, t) ==
    /\ ~BlockedNow(c) /\ Verdict(t) # "ok" /\ ~IsGuess(Verdict(t))
    /\ clients' = Check(c)
    /\ announced' = [announced EXCEPT ![c] = 0]
    /\ UNCHANGED <<now, secret, issued, minted, restarts, guesses, guessCount>>

(* A guess: 401, counted.  The check that follows it only logs: the record *)
(* it reads is blocked until later than now, or not blocked at all.        *)
RejectGuess(c, t) ==
    /\ ~BlockedNow(c) /\ IsGuess(Verdict(t))
    /\ guessCount < MaxGuesses /\ guessCount' = guessCount + 1
    /\ clients' \in RecordFailure(Check(c), c)
    /\ guesses' = [d \in Clients |->
                     IF d \in (Tracked \cup {c}) \ DOMAIN clients' THEN <<>>
                     ELSE IF d = c THEN Append(guesses[d], now)
                     ELSE guesses[d]]
    /\ announced' = [announced EXCEPT ![c] = 0]
    /\ UNCHANGED <<now, secret, issued, minted, restarts>>

Request(c, t) == Refuse429(c) \/ Accept(c, t) \/ Reject(c, t) \/ RejectGuess(c, t)

(* current(): the link a viewer output prints carries the token in force,  *)
(* a fresh one when there is none or it has expired.                       *)
PrintLink ==
    /\ issued <= now
    /\ issued' = Mint.exp
    /\ minted' = minted \cup {Mint}
    /\ UNCHANGED <<now, clients, secret, restarts, history>>

(* A restart forgets the tracker and the issued token, and draws a new     *)
(* secret unless one is configured.                                        *)
Restart ==
    /\ restarts < MaxRestarts
    /\ restarts' = restarts + 1
    /\ secret' = IF StableSecret THEN secret ELSE secret + 1
    /\ clients' = <<>> /\ issued' = 0
    /\ guesses' = [c \in Clients |-> <<>>]
    /\ announced' = [c \in Clients |-> 0]
    /\ UNCHANGED <<now, minted, guessCount>>

Tick ==
    /\ now < MaxTime
    /\ now' = now + 1
    /\ UNCHANGED <<clients, secret, issued, minted, restarts, history>>

Next ==
    \/ \E c \in Clients, t \in Forged \cup minted : Request(c, t)
    \/ PrintLink \/ Restart \/ Tick

Spec == Init /\ [][Next]_vars

-----------------------------------------------------------------------------
GuessesIn(c, from, to) == Cardinality({i \in DOMAIN guesses[c] : guesses[c][i] \in from..to})

(* A client is locked out only for its own guesses, MaxFailures of them    *)
(* within one window: no other client's traffic, eviction or old window    *)
(* adds to its count.                                                      *)
BlockNeedsGuesses ==
    \A c \in Tracked : clients[c].until # 0 =>
        LET at == clients[c].until - Block IN
        GuessesIn(c, IF at >= Window THEN at - Window + 1 ELSE 0, at) >= MaxFailures

(* Rolling the window as a whole can double the rate, never more: a client *)
(* the tracker did not forget gets fewer than 2 * MaxFailures guesses in   *)
(* any stretch of Window ticks (for a block at least as long as a window). *)
GuessRateBounded ==
    \A c \in Clients, t \in Times :
        GuessesIn(c, t, t + Window - 1) < 2 * MaxFailures

(* "Blocked clients are given up last, and the one whose block ends        *)
(* soonest goes first": a block in force ends early only when every client *)
(* left in the tracker is blocked for at least as long.                    *)
BlockHolds ==
    [][\A c \in Tracked :
          BlockedNow(c) /\ now' = now /\ restarts' = restarts =>
            \/ c \in DOMAIN clients' /\ clients'[c].until = clients[c].until
            \/ /\ c \notin DOMAIN clients'
               /\ \A d \in DOMAIN clients' : clients'[d].until >= clients[c].until]_vars

(* A client that waits for the whole Retry-After is not refused again, and *)
(* is not made to wait a second too long.                                  *)
RetryAfterSuffices ==
    \A c \in Clients : announced[c] # 0 =>
        /\ now >= announced[c] => ~BlockedNow(c)
        /\ BlockedNow(c) => announced[c] < clients[c].until + Second

(* A token this process printed never counts towards a lockout, expired or *)
(* not: a viewer left open over its token's expiry does not lock its user  *)
(* out of the fresh link.                                                  *)
OwnTokensNeverCount ==
    [][\A c \in Clients, t \in minted :
          t.secret = secret /\ Request(c, t) /\ c \in DOMAIN clients' =>
            c \in Tracked /\ clients'[c].failures <= clients[c].failures]_vars

(* Guesses, and only guesses, lead to a block, and none is let through beyond *)
(* what the window allows.                                                 *)
GuessesAreCounted == TypeOK /\ BlockNeedsGuesses /\ GuessRateBounded

(* A block in force is not lost to other clients' requests, and a token that  *)
(* this process printed never brings one nearer.                           *)
BlocksAreJust == BlockHolds /\ OwnTokensNeverCount
=============================================================================
