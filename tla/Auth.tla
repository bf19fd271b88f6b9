-------------------------------- MODULE Auth --------------------------------
(***************************************************************************)
(* Sign-in of the instructors (server/src/backend/auth.rs and the login    *)
(* and logout handlers of http.rs): the limiter of failed attempts, per    *)
(* client key and over all clients, and the table of sessions.             *)
(*                                                                         *)
(* A login reads the clock before it takes the limiter's lock, and takes   *)
(* the lock of the sessions after it has dropped the limiter's: the three  *)
(* are steps of their own, and the logins of several browsers interleave   *)
(* between them.  A browser is one HTTP client; several may share a client *)
(* key (the address that the proxy reports).                               *)
(*                                                                         *)
(* Instants are kept as differences from the present: the age of a failed  *)
(* attempt, how long a request has waited since it read the clock, and     *)
(* what is left of a session.                                              *)
(***************************************************************************)
EXTENDS Integers, Sequences, FiniteSets

CONSTANTS
  Browsers,           (* the HTTP clients                                    *)
  Clients,            (* rate-limit keys                                     *)
  Tokens,             (* session tokens                                      *)
  PerClientFailures,  (* PER_CLIENT_FAILURES                                 *)
  GlobalFailures,     (* GLOBAL_FAILURES                                     *)
  Window,             (* WINDOW, in units of time                            *)
  GlobalWindow,       (* GLOBAL_WINDOW                                       *)
  SessionTTL,         (* SESSION_TTL                                         *)
  MaxSessions,        (* MAX_SESSIONS                                        *)
  MaxWait             (* bound of the model: the longest that a login waits  *)
                      (* between reading the clock and opening its session   *)

ASSUME LimitsAssumption ==
  /\ {PerClientFailures, GlobalFailures, MaxSessions} \subseteq Nat \ {0}
  /\ {Window, GlobalWindow, SessionTTL, MaxWait} \subseteq Nat
  /\ MaxWait < SessionTTL /\ MaxWait <= Window /\ MaxWait <= GlobalWindow

(* What the limiter counts for: one key, or everybody.                       *)
Everybody == "everybody"
Counted   == Clients \cup {Everybody}

ASSUME NamesAssumption == Everybody \notin Clients /\ IsFiniteSet(Tokens)

VARIABLES
  failures,  (* the limiter: ages of the failed attempts in the order of     *)
             (* their insertion, by key (per_client) and for all (global)    *)
  sessions,  (* what is left of each session in the table, or Gone           *)
  request,   (* the login that each browser has under way                    *)
  guesses    (* the record of the wrong passwords that were tested within    *)
             (* the window: the age of each, with a number that tells those  *)
             (* of an age apart; of a key since its last sign-in, and of all *)

vars == <<failures, sessions, request, guesses>>

(* A login has read the clock ("sent") or passed the limiter ("admitted").   *)
(* Its key and its password matter when the limiter's lock is taken, and are *)
(* chosen there.                                                             *)
Requests  == [phase: {"none", "sent", "admitted"}, wait: 0..MaxWait]
NoRequest == [phase |-> "none", wait |-> 0]
Gone      == -MaxWait - 1

Limit(k) == IF k = Everybody THEN GlobalFailures ELSE PerClientFailures
Span(k)  == IF k = Everybody THEN GlobalWindow ELSE Window

(* Ages beyond the horizon are alike: even to a request that has waited, and *)
(* behind a failure that was recorded before it but is younger.              *)
Horizon(k)  == Span(k) + 2 * MaxWait
Older(a, k) == IF a > Horizon(k) THEN a ELSE a + 1

Init ==
  /\ failures = [k \in Counted |-> <<>>]
  /\ sessions = [t \in Tokens |-> Gone]
  /\ request = [b \in Browsers |-> NoRequest]
  /\ guesses = [k \in Counted |-> {}]

-----------------------------------------------------------------------------
(* The limiter.                                                              *)

(* Faulty variant: failures never become too old.                           *)
PrunedNever(q, wait, k) == q

(* Faulty variant: a failure whose age is the window is dropped.             *)
PrunedEarly(q, wait, k) ==
  LET kept == {i \in DOMAIN q : q[i] - wait < Span(k)}
  IN IF kept = {} THEN <<>>
     ELSE SubSeq(q, CHOOSE i \in kept : \A j \in kept : i <= j, Len(q))

(* prune drops failures from the front of a queue as long as the first is    *)
(* too old for a request that read the clock `wait` ago.                     *)
Pruned(q, wait, k) ==
  LET kept == {i \in DOMAIN q : q[i] - wait <= Span(k)}
  IN IF kept = {} THEN <<>>
     ELSE SubSeq(q, CHOOSE i \in kept : \A j \in kept : i <= j, Len(q))

AfterPrune(wait) == [k \in Counted |-> Pruned(failures[k], wait, k)]

(* Faulty variant: one failure too many is let through.                      *)
LockedOutLate(c, wait) ==
  \E k \in {c, Everybody} : Len(AfterPrune(wait)[k]) > Limit(k)

LockedOut(c, wait) ==
  \E k \in {c, Everybody} : Len(AfterPrune(wait)[k]) >= Limit(k)

WithFailure(c, wait) ==
  [AfterPrune(wait) EXCEPT ![c] = Append(@, wait), ![Everybody] = Append(@, wait)]

(* The handler reads the form and the clock.                                *)
Submit(b) ==
  /\ request[b] = NoRequest
  /\ request' = [request EXCEPT ![b].phase = "sent"]
  /\ UNCHANGED <<failures, sessions, guesses>>

(* Faulty variant: an attempt made while locked out takes the place of the   *)
(* oldest failure.                                                           *)
RefuseRecorded(b, c) ==
  /\ request[b].phase = "sent"
  /\ LockedOut(c, request[b].wait)
  /\ failures' = [k \in Counted |->
       LET q == WithFailure(c, request[b].wait)[k]
       IN IF Len(q) > Limit(k) THEN Tail(q) ELSE q]
  /\ request' = [request EXCEPT ![b] = NoRequest]
  /\ UNCHANGED <<sessions, guesses>>

(* RateLimited: the password is not looked at and the attempt not recorded.  *)
Refuse(b, c) ==
  /\ request[b].phase = "sent"
  /\ LockedOut(c, request[b].wait)
  /\ failures' = AfterPrune(request[b].wait)
  /\ request' = [request EXCEPT ![b] = NoRequest]
  /\ UNCHANGED <<sessions, guesses>>

WithGuess(g, age) ==
  g \cup {<<age, CHOOSE n \in 0..Cardinality(g) : <<age, n>> \notin g>>}

(* BadPassword.                                                              *)
Fail(b, c) ==
  LET wait == request[b].wait IN
  /\ request[b].phase = "sent"
  /\ ~LockedOut(c, wait)
  /\ failures' = WithFailure(c, wait)
  /\ guesses' = [guesses EXCEPT ![c] = WithGuess(@, wait),
                                ![Everybody] = WithGuess(@, wait)]
  /\ request' = [request EXCEPT ![b] = NoRequest]
  /\ UNCHANGED sessions

(* The right password clears the failures of its own key, and the limiter's  *)
(* lock is dropped.                                                          *)
Admit(b, c) ==
  /\ request[b].phase = "sent"
  /\ ~LockedOut(c, request[b].wait)
  /\ failures' = [AfterPrune(request[b].wait) EXCEPT ![c] = <<>>]
  /\ guesses' = [guesses EXCEPT ![c] = {}]
  /\ request' = [request EXCEPT ![b].phase = "admitted"]
  /\ UNCHANGED sessions

-----------------------------------------------------------------------------
(* The sessions.                                                             *)

InTable        == {t \in Tokens : sessions[t] # Gone}
Accepted(t)    == sessions[t] > 0
Retained(wait) == {t \in InTable : sessions[t] + wait > 0}

(* Faulty variant: any session makes room.                                   *)
EvictedAny(table) == table

(* The session that makes room: one closest to its expiry.                   *)
Evicted(table) == {t \in table : \A u \in table : sessions[t] <= sessions[u]}

(* The session is inserted under the lock of the table.  Tokens are random:  *)
(* a new one is in no cookie yet.                                            *)
OpenSession(b) ==
  LET wait  == request[b].wait
      table == Retained(wait)
      new   == CHOOSE t \in Tokens : t \notin InTable
  IN /\ request[b].phase = "admitted"
     /\ \E out \in IF Cardinality(table) < MaxSessions THEN {{}}
                   ELSE {{t} : t \in Evicted(table)} :
          sessions' = [t \in Tokens |->
            IF t = new THEN SessionTTL - wait
            ELSE IF t \in table \ out THEN sessions[t] ELSE Gone]
     /\ request' = [request EXCEPT ![b] = NoRequest]
     /\ UNCHANGED <<failures, guesses>>

(* /auth/logout by the browser whose cookie holds the token.                 *)
Logout(t) ==
  /\ sessions[t] # Gone
  /\ sessions' = [sessions EXCEPT ![t] = Gone]
  /\ UNCHANGED <<failures, request, guesses>>

-----------------------------------------------------------------------------
(* Time and failure.                                                         *)

Tick ==
  /\ \A b \in Browsers : request[b].wait < MaxWait
  /\ failures' = [k \in Counted |->
       [i \in DOMAIN failures[k] |-> Older(failures[k][i], k)]]
  /\ guesses' = [k \in Counted |->
       {<<g[1] + 1, g[2]>> : g \in {h \in guesses[k] : h[1] < Span(k)}}]
  /\ sessions' = [t \in Tokens |->
       IF sessions[t] > -MaxWait THEN sessions[t] - 1 ELSE sessions[t]]
  /\ request' = [b \in Browsers |->
       IF request[b] = NoRequest THEN NoRequest
       ELSE [request[b] EXCEPT !.wait = @ + 1]]

(* Auth::new: a server that restarts has no sessions and no failures.        *)
Restart ==
  /\ failures' = [k \in Counted |-> <<>>]
  /\ sessions' = [t \in Tokens |-> Gone]
  /\ request' = [b \in Browsers |-> NoRequest]
  /\ guesses' = [k \in Counted |-> {}]

Answer(b) ==
  \/ \E c \in Clients : Refuse(b, c) \/ Fail(b, c) \/ Admit(b, c)
  \/ OpenSession(b)

Next ==
  \/ \E b \in Browsers : Submit(b) \/ Answer(b)
  \/ \E t \in Tokens : Logout(t)
  \/ Tick
  \/ Restart

(* Time passes, and a login that is under way is answered.                   *)
Spec == /\ Init /\ [][Next]_vars
        /\ WF_vars(Tick) /\ \A b \in Browsers : WF_vars(Answer(b))

-----------------------------------------------------------------------------
(* Properties.                                                               *)

(* Types and the limits of what is kept (auth.rs:13-18): no queue holds more *)
(* failures than lock its key out, and the table no more sessions than its   *)
(* maximum, however the requests interleave.                                 *)
TypeOK ==
  /\ \A k \in Counted :
       /\ failures[k] \in Seq(0..Horizon(k) + 1) /\ Len(failures[k]) <= Limit(k)
       /\ guesses[k] \subseteq (0..Span(k)) \X Nat
  /\ sessions \in [Tokens -> Gone..SessionTTL]
  /\ Cardinality(InTable) <= MaxSessions
  /\ request \in [Browsers -> Requests]

(* What the limiter is for (auth.rs:15-21): at no instant have more wrong    *)
(* passwords of a key been tested within the window, by their clocks and     *)
(* without a sign-in in between, than lock it out, nor of everybody, although*)
(* requests pass the limiter out of order and prune by different clocks.  So *)
(* no stretch of time shorter than the window by the longest wait has more.  *)
GuessesBounded == \A k \in Counted : Cardinality(guesses[k]) <= Limit(k)

(* A refusal has a cause (auth.rs:15): the queue of the key or of everybody  *)
(* is full of failures that lie within the window, but for the waits of the  *)
(* request and of the failures recorded out of order.                        *)
RefusedForCause ==
  [][\A b \in Browsers, c \in Clients : Refuse(b, c) =>
       \E k \in {c, Everybody} :
         Cardinality({i \in DOMAIN failures'[k] : failures'[k][i] <= Horizon(k)})
           >= Limit(k)]_vars

(* A lockout lapses, of one key and of everybody, whatever is submitted in   *)
(* the meantime: attempts made while locked out do not prolong it.           *)
LockoutLapses ==
  \A k \in Counted :
    (Len(failures[k]) >= Limit(k)) ~> (Len(Pruned(failures[k], 0, k)) < Limit(k))

(* A session is accepted until it expires, is signed out or the server       *)
(* restarts; only a full table of sessions that all last at least as long    *)
(* drops it earlier.                                                         *)
SessionEndsForCause ==
  [][\A t \in Tokens : Accepted(t) /\ ~Accepted(t)' =>
       \/ Restart \/ Logout(t)
       \/ sessions[t] = 1 /\ sessions'[t] = 0
       \/ /\ Cardinality({u \in Tokens : Accepted(u)}) >= MaxSessions
          /\ \A u \in Tokens : Accepted(u) => sessions[t] <= sessions[u]]_vars

=============================================================================
