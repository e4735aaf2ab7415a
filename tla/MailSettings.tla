---------------------------- MODULE MailSettings ----------------------------
(***************************************************************************)
(* The mail server and its password: the form (AlertsForm of                *)
(* src/ui/settings-forms.tsx), the settings it saves and the emails sent    *)
(* with them (src/server/alerts.ts).  When emails are sent is in Alerts.    *)
(*                                                                          *)
(* The form is open in several tabs, each loaded when it was, and saves     *)
(* overlap or are lost.  An account is a server, a port and a username; a   *)
(* password is known by the account it was typed for.  TLS, without which   *)
(* no password is sent, and the recipients are left out.                    *)
(***************************************************************************)
EXTENDS Naturals

CONSTANTS
    MailTabs,
    Accounts,       \* records: host, port and user (none: "")
    NoPassword,
    MaxSaves        \* bound: saves tried

ASSUME AccountsAssumption ==
    /\ \A a \in Accounts : a = [host |-> a.host, port |-> a.port, user |-> a.user]
    /\ NoPassword \notin Accounts /\ MaxSaves \in Nat

VARIABLES
    smtp,        \* the settings row: the account ("" is no host) and the sealed password
    forms,       \* each tab's account, and whether a test email follows the save
    puts,        \* its request to save, and the answer
    tests,       \* its request for a test email, and the answer
    sent,        \* history: the last connection to a mail server, and the password it was given
    saves

mailVars == <<smtp, forms, puts, tests, sent, saves>>

NoServer == [host |-> "", port |-> 587, user |-> ""]

NotOpen == [open |-> FALSE, acct |-> NoServer, testing |-> FALSE]
NoPut == [at |-> "idle", acct |-> NoServer, typed |-> FALSE, valid |-> FALSE]
NoMail == [acct |-> NoServer, password |-> NoPassword]

MailInit ==
    /\ smtp = [acct |-> NoServer, password |-> NoPassword]
    /\ forms = [t \in MailTabs |-> NotOpen]
    /\ puts = [t \in MailTabs |-> NoPut]
    /\ tests = [t \in MailTabs |-> "idle"]
    /\ sent = NoMail /\ saves = 0

---------------------------------------------------------------------------
(* The form *)

\* smtpView, read once.
OpenPage(t) ==
    /\ ~forms[t].open
    /\ forms' = [forms EXCEPT ![t] = [NotOpen EXCEPT !.open = TRUE, !.acct = smtp.acct]]
    /\ UNCHANGED <<smtp, puts, tests, sent, saves>>

ClosePage(t) ==
    /\ forms[t].open
    /\ forms' = [forms EXCEPT ![t] = NotOpen]
    /\ puts' = [puts EXCEPT ![t] = NoPut] /\ tests' = [tests EXCEPT ![t] = "idle"]
    /\ UNCHANGED <<smtp, sent, saves>>

\* "Save email settings", or "Save and send a test email", after any of the fields
\* were edited: the account, the password, and others that will be accepted or
\* not.  While the test email is sent the form can be saved again.
Save(t, a, typed) ==
    /\ forms[t].open /\ puts[t] = NoPut
    /\ saves < MaxSaves /\ saves' = saves + 1
    /\ \E test, ok \in BOOLEAN :
         /\ forms' = [forms EXCEPT ![t].acct = a, ![t].testing = test]
         /\ puts' = [puts EXCEPT ![t] = [at |-> "sent", acct |-> a, typed |-> typed, valid |-> ok]]
    /\ UNCHANGED <<smtp, tests, sent>>

\* An answer, or an error; a test email is asked for after either.
Saved(t) ==
    /\ puts[t].at = "answered"
    /\ puts' = [puts EXCEPT ![t] = NoPut]
    /\ forms' = [forms EXCEPT ![t].testing = FALSE]
    /\ tests' = IF forms[t].testing THEN [tests EXCEPT ![t] = "sent"] ELSE tests
    /\ UNCHANGED <<smtp, sent, saves>>

TestDone(t) ==
    /\ tests[t] = "answered"
    /\ tests' = [tests EXCEPT ![t] = "idle"]
    /\ UNCHANGED <<smtp, forms, puts, sent, saves>>

\* On the way there.
Lost(t) ==
    \/ /\ puts[t].at = "sent"
       /\ puts' = [puts EXCEPT ![t] = [NoPut EXCEPT !.at = "answered"]]
       /\ UNCHANGED <<smtp, forms, tests, sent, saves>>
    \/ /\ tests[t] = "sent"
       /\ tests' = [tests EXCEPT ![t] = "answered"]
       /\ UNCHANGED <<smtp, forms, puts, sent, saves>>

---------------------------------------------------------------------------
(* updateSmtp *)

\* (mutant: an account is known by its server)
MovedServer(a, b) == a.host # b.host

Moved(a, b) == a.host # b.host \/ a.port # b.port \/ a.user # b.user

\* A password typed replaces the one saved; without one it stays where it belongs.
NextPassword(p) ==
    IF p.typed THEN p.acct ELSE IF Moved(p.acct, smtp.acct) THEN NoPassword ELSE smtp.password

UpdateSmtp(t) ==
    /\ puts[t].at = "sent"
    /\ smtp' = IF puts[t].valid THEN [acct |-> puts[t].acct, password |-> NextPassword(puts[t])]
                 ELSE smtp
    /\ puts' = [puts EXCEPT ![t] = [NoPut EXCEPT !.at = "answered"]]
    /\ UNCHANGED <<forms, tests, sent, saves>>

---------------------------------------------------------------------------
(* Emails *)

\* defaultMailer, once it is set up: with a username the password is given, or an
\* empty one.  Whatever goes wrong is reported as a category.
Mail ==
    /\ smtp.acct.host # ""
    /\ sent' = [acct |-> smtp.acct,
                password |-> IF smtp.acct.user = "" THEN NoPassword ELSE smtp.password]

\* sendTestEmail: sent, refused or not set up, the answer says which.
SendTestEmail(t) ==
    /\ tests[t] = "sent"
    /\ tests' = [tests EXCEPT ![t] = "answered"]
    /\ Mail \/ (smtp.acct.host = "" /\ UNCHANGED sent)
    /\ UNCHANGED <<smtp, forms, puts, saves>>

\* An alert.
SendAlert ==
    /\ Mail
    /\ UNCHANGED <<smtp, forms, puts, tests, saves>>

MailNext ==
    \/ \E t \in MailTabs :
         \/ OpenPage(t) \/ ClosePage(t)
         \/ \E a \in Accounts \union {forms[t].acct}, typed \in BOOLEAN : Save(t, a, typed)
         \/ Saved(t) \/ TestDone(t) \/ Lost(t)
         \/ UpdateSmtp(t) \/ SendTestEmail(t)
    \/ SendAlert

MailSpec == MailInit /\ [][MailNext]_mailVars

---------------------------------------------------------------------------
(* Properties *)

\* Whichever tabs save, in whichever order, with fields edited since they were
\* loaded and requests lost: a password, typed once and then kept from save to
\* save, only ever reaches the account it was typed for (alerts.ts:89-92).
PasswordStaysHome == sent.password # NoPassword => sent.password = sent.acct
=============================================================================
