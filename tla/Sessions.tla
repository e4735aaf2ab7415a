------------------------------ MODULE Sessions ------------------------------
(***************************************************************************)
(* The administrator's account and the sessions opened with it              *)
(* (src/server/auth.ts, http.ts, session.ts and the routes login, logout,   *)
(* setup and me).                                                           *)
(*                                                                          *)
(* The controller is one Node process on a synchronous database: a handler  *)
(* runs alone between two of its awaits.  Hashing and checking a password   *)
(* with argon2 is such an await, and setting up, signing in and changing    *)
(* the password all have one or two: what they read before it may be gone   *)
(* after it.                                                                *)
(*                                                                          *)
(* A password is abstracted to the number of the hash stored for it: every  *)
(* hash stored gets the next number, and whoever signs in or changes the    *)
(* password either knows the one behind the hash it read or does not.       *)
(* Counting failed attempts is Throttle's subject.                          *)
(***************************************************************************)
EXTENDS Naturals, FiniteSets

CONSTANTS
    Admins,       \* identifiers a row of users may get
    Tokens,       \* session tokens; random, so none is issued twice
    Calls,        \* requests in flight at once that wait for argon2
    MaxHashes,    \* bound: password hashes ever stored
    MaxCodes,     \* bound: setup codes ever made
    NoAccount     \* no account

ASSUME MaxHashesAssumption == MaxHashes \in Nat
ASSUME MaxCodesAssumption == MaxCodes \in Nat
ASSUME NoAdmin == NoAccount \notin Admins

VARIABLES
    users,         \* the users table: the number of an account's hash, 0 without a row
    removed,       \* identifiers of accounts removed; random, so none is given twice
    hashes,        \* the number of the last hash stored
    setupComplete, \* settings.setupComplete
    code,          \* the setup code in memory and in data/setup-code, 0 for none
    codes,         \* the number of the last setup code made
    sessions,      \* the sessions table, with the hash a sign-in was checked against
    call,          \* what a request holds while it awaits
    overlapped     \* history: hashes checked by a sign-in under way when they were replaced

sessionVars == <<users, removed, hashes, setupComplete, code, codes, sessions, call, overlapped>>

Session == [state : {"new", "live", "gone"}, user : Admins \union {NoAccount}, hash : 0..MaxHashes,
            idle : BOOLEAN, over : BOOLEAN]
Call == [at : {"idle", "setup", "verify", "body", "current", "next"}, user : Admins \union {NoAccount},
         hash : 0..MaxHashes]

Unissued == [state |-> "new", user |-> NoAccount, hash |-> 0, idle |-> FALSE, over |-> FALSE]
NoCall == [at |-> "idle", user |-> NoAccount, hash |-> 0]

SessionInit ==
    /\ users = [a \in Admins |-> 0]
    /\ removed = {}
    /\ hashes = 0
    /\ setupComplete = FALSE
    /\ code = [memory |-> 0, file |-> 0]
    /\ codes = 0
    /\ sessions = [t \in Tokens |-> Unissued]
    /\ call = [r \in Calls |-> NoCall]
    /\ overlapped = {}

---------------------------------------------------------------------------
(* First-run setup *)

NeedsSetup == ~setupComplete \/ \A a \in Admins : users[a] = 0

\* setupCode: the code in memory, else the one on disk, else a new one, which
\* is written to disk.
SetupCode ==
    IF code.memory # 0 THEN code
    ELSE IF code.file # 0 THEN [code EXCEPT !.memory = code.file]
    ELSE [memory |-> codes + 1, file |-> codes + 1]

\* The page, and the banner at start, make sure there is a code to read.
ShowSetup ==
    /\ NeedsSetup
    /\ code # SetupCode
    /\ SetupCode.memory <= MaxCodes
    /\ code' = SetupCode
    /\ codes' = IF SetupCode.memory > codes THEN SetupCode.memory ELSE codes
    /\ UNCHANGED <<users, removed, hashes, setupComplete, sessions, call, overlapped>>

\* completeSetup up to its await, by someone who read the code from the disk.
BeginSetup(r) ==
    /\ call[r].at = "idle"
    /\ NeedsSetup
    /\ code.memory # 0 /\ code.file = code.memory
    /\ call' = [call EXCEPT ![r].at = "setup"]
    /\ UNCHANGED <<users, removed, hashes, setupComplete, code, codes, sessions, overlapped>>

NewAdmin(r, a) ==
    /\ call[r].at = "setup"
    /\ hashes < MaxHashes
    /\ users[a] = 0 /\ a \notin removed
    /\ hashes' = hashes + 1
    /\ users' = [users EXCEPT ![a] = hashes + 1]
    /\ setupComplete' = TRUE
    /\ call' = [call EXCEPT ![r] = [at |-> "verify", user |-> a, hash |-> hashes + 1]]

\* (mutant: what was true before the await is not looked at again)
CreateAdminUnchecked(r, a) ==
    /\ NewAdmin(r, a)
    /\ code' = [memory |-> 0, file |-> 0]
    /\ UNCHANGED <<removed, codes, sessions, overlapped>>

\* completeSetup after its await; the route then signs in, up to that await.
CreateAdmin(r, a) ==
    /\ NeedsSetup
    /\ NewAdmin(r, a)
    /\ code' = [memory |-> 0, file |-> 0]
    /\ UNCHANGED <<removed, codes, sessions, overlapped>>

SetupRefused(r) ==
    /\ call[r].at = "setup"
    /\ ~NeedsSetup
    /\ call' = [call EXCEPT ![r] = NoCall]
    /\ UNCHANGED <<users, removed, hashes, setupComplete, code, codes, sessions, overlapped>>

\* The README's way out of a lost password: DELETE FROM users, which takes the
\* sessions along (ON DELETE CASCADE).  Nobody is in the middle of first-run
\* setup when there is an account to remove.
RemoveAdmin ==
    /\ \E a \in Admins : users[a] # 0
    /\ \A r \in Calls : call[r].at # "setup"
    /\ users' = [a \in Admins |-> 0]
    /\ removed' = removed \union {a \in Admins : users[a] # 0}
    /\ sessions' = [t \in Tokens |-> IF sessions[t].state = "live" THEN [Unissued EXCEPT !.state = "gone"]
                                     ELSE sessions[t]]
    /\ UNCHANGED <<hashes, setupComplete, code, codes, call, overlapped>>

---------------------------------------------------------------------------
(* Sessions *)

GoneSession == [Unissued EXCEPT !.state = "gone"]
Live(t) == sessions[t].state = "live"

\* sessionFromToken lets the token's holder in.
Valid(t) == Live(t) /\ ~sessions[t].idle /\ ~sessions[t].over

\* A session that has been used in time stays; one that has not is deleted.
CheckSession(t) ==
    /\ Live(t) /\ ~Valid(t)
    /\ sessions' = [sessions EXCEPT ![t] = GoneSession]
    /\ UNCHANGED <<users, removed, hashes, setupComplete, code, codes, call, overlapped>>

\* login up to its await.
BeginLogin(r, a) ==
    /\ call[r].at = "idle"
    /\ users[a] # 0
    /\ call' = [call EXCEPT ![r] = [at |-> "verify", user |-> a, hash |-> users[a]]]
    /\ UNCHANGED <<users, removed, hashes, setupComplete, code, codes, sessions, overlapped>>

\* The password was right for the hash that was read.  The row is inserted
\* whatever has become of that hash, unless the account itself is gone.
FinishLogin(r, t) ==
    /\ call[r].at = "verify"
    /\ users[call[r].user] # 0
    /\ sessions[t].state = "new"
    /\ sessions' = [sessions EXCEPT ![t] = [Unissued EXCEPT !.state = "live", !.user = call[r].user,
                                                            !.hash = call[r].hash]]
    /\ call' = [call EXCEPT ![r] = NoCall]
    /\ UNCHANGED <<users, removed, hashes, setupComplete, code, codes, overlapped>>

\* A wrong password, here or in changePassword, or no account any more.
Refuse(r) ==
    /\ call[r].at \in {"verify", "current"}
    /\ call' = [call EXCEPT ![r] = NoCall]
    /\ UNCHANGED <<users, removed, hashes, setupComplete, code, codes, sessions, overlapped>>

\* withAdmin lets the request in before its body has arrived.
BeginChange(r, t) ==
    /\ call[r].at = "idle"
    /\ Valid(t)
    /\ call' = [call EXCEPT ![r] = [NoCall EXCEPT !.at = "body", !.user = sessions[t].user]]
    /\ UNCHANGED <<users, removed, hashes, setupComplete, code, codes, sessions, overlapped>>

ReadUser(r) ==
    /\ call[r].at = "body"
    /\ call' = [call EXCEPT ![r] = IF users[call[r].user] = 0 THEN NoCall
                                 ELSE [@ EXCEPT !.at = "current", !.hash = users[call[r].user]]]
    /\ UNCHANGED <<users, removed, hashes, setupComplete, code, codes, sessions, overlapped>>

CurrentIsRight(r) ==
    /\ call[r].at = "current"
    /\ call' = [call EXCEPT ![r].at = "next"]
    /\ UNCHANGED <<users, removed, hashes, setupComplete, code, codes, sessions, overlapped>>

\* Sign-ins that have read a hash of account a and wait for its check.
SigningIn(a) == {q \in Calls : call[q].at = "verify" /\ call[q].user = a}

\* The new hash replaces the stored one, if there still is an account.
StoreHash(r) ==
    LET a == call[r].user IN
    /\ call[r].at = "next"
    /\ hashes < MaxHashes
    /\ hashes' = hashes + 1
    /\ users' = [users EXCEPT ![a] = IF @ = 0 THEN 0 ELSE hashes + 1]
    /\ overlapped' = overlapped \union {call[q].hash : q \in SigningIn(a)}
    /\ call' = [call EXCEPT ![r] = NoCall]
    /\ UNCHANGED <<removed, setupComplete, code, codes>>

\* (mutant: only the session that asked dies)
ChangePasswordKeeps(r) ==
    /\ StoreHash(r)
    /\ UNCHANGED sessions

\* changePassword after its second await: every session dies with the old hash.
ChangePassword(r) ==
    /\ StoreHash(r)
    /\ sessions' = [t \in Tokens |-> IF Live(t) /\ sessions[t].user = call[r].user THEN GoneSession
                                     ELSE sessions[t]]

Logout(t) ==
    /\ Live(t)
    /\ sessions' = [sessions EXCEPT ![t] = GoneSession]
    /\ UNCHANGED <<users, removed, hashes, setupComplete, code, codes, call, overlapped>>

\* Twelve hours without a request, or seven days since the sign-in.
Ages(t) ==
    /\ Valid(t)
    /\ \/ sessions' = [sessions EXCEPT ![t].idle = TRUE]
       \/ sessions' = [sessions EXCEPT ![t].over = TRUE]
    /\ UNCHANGED <<users, removed, hashes, setupComplete, code, codes, call, overlapped>>

PruneSessions ==
    /\ \E t \in Tokens : Live(t) /\ sessions[t].over
    /\ sessions' = [t \in Tokens |-> IF Live(t) /\ sessions[t].over THEN GoneSession ELSE sessions[t]]
    /\ UNCHANGED <<users, removed, hashes, setupComplete, code, codes, call, overlapped>>

---------------------------------------------------------------------------
\* The process ends: what was in memory is gone, the tables and the file stay.
ForgetMemory ==
    /\ code' = [code EXCEPT !.memory = 0]
    /\ call' = [r \in Calls |-> NoCall]
    /\ UNCHANGED <<users, removed, hashes, setupComplete, codes, sessions, overlapped>>

Handle ==
    \/ ShowSetup \/ RemoveAdmin \/ PruneSessions
    \/ \E r \in Calls :
         \/ BeginSetup(r) \/ SetupRefused(r)
         \/ Refuse(r) \/ ReadUser(r) \/ CurrentIsRight(r) \/ ChangePassword(r)
         \/ \E a \in Admins : CreateAdmin(r, a) \/ BeginLogin(r, a)
         \/ \E t \in Tokens : FinishLogin(r, t) \/ BeginChange(r, t)
    \/ \E t \in Tokens : CheckSession(t) \/ Logout(t) \/ Ages(t)

SessionNext == Handle \/ ForgetMemory

SessionSpec == SessionInit /\ [][SessionNext]_sessionVars

---------------------------------------------------------------------------
(* Properties *)

\* Rows and requests are well formed, and a live session has an account.
SessionTypeOK ==
    /\ users \in [Admins -> 0..MaxHashes]
    /\ removed \subseteq Admins
    /\ hashes \in 0..MaxHashes
    /\ setupComplete \in BOOLEAN
    /\ code \in [memory : 0..MaxCodes, file : 0..MaxCodes]
    /\ codes \in 0..MaxCodes
    /\ sessions \in [Tokens -> Session]
    /\ call \in [Calls -> Call]
    /\ overlapped \subseteq 1..MaxHashes
    /\ \A a \in Admins : users[a] <= hashes
    /\ \A t \in Tokens : sessions[t].state = "live" => users[sessions[t].user] # 0

\* However many requests hold the setup code at once, one account comes of it
\* (completeSetup looks again after the await, auth.ts:241-246).
OneAdmin == Cardinality({a \in Admins : users[a] # 0}) <= 1

\* A session checked against a password that is no longer the account's comes
\* from a sign-in that was waiting for its check when the password changed; any
\* other one died with it (auth.ts:303-304).
OldPasswordOut ==
    \A t \in Tokens : Live(t) => \/ sessions[t].hash = users[sessions[t].user]
                                 \/ sessions[t].hash \in overlapped

=============================================================================
