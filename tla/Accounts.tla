------------------------------ MODULE Accounts ------------------------------
(* Passwords and the mails that carry them: the commands registration,     *)
(* users_add, user_change_password, user_reset_password and users_delete,  *)
(* and MailSendTask, of which the thread pool runs several at a time.      *)
(*                                                                         *)
(* Only a hash of a password is kept, so a password the server makes up is *)
(* known to its owner by the mail alone.  The commands run on one thread,  *)
(* each with one statement that changes a row; a mail is entered in        *)
(* email_delivery, sent, and then marked.  Nothing looks at the table      *)
(* again.  A hash is the password it is of; two random passwords differ.   *)
(* A user's number is given once (the database server is not restarted).   *)
EXTENDS Naturals, FiniteSets

CONSTANTS
  Emails,
  MaxPasswords, MaxMails,   \* bounds: passwords ever set, mails ever sent
  MaxMailFaults             \* bound: refused statements, failed sendings, ends of the process

ASSUME AccountsAssumption == MaxPasswords \in Nat /\ MaxMails \in Nat /\ MaxMailFaults \in Nat

VARIABLES
  password,        \* the password of each account, 0: no account
  mails,           \* each mail: to whom, what it carries, its task's step, its row's status
  inbox,           \* the mails that have arrived
  next_pass, next_mail, mail_faults,
  owned,           \* auxiliary: the passwords each account has ever had
  told,            \* auxiliary: passwords somebody chose
  spoiled          \* auxiliary: mails a fault has hit

mailVars == <<mails, inbox, next_mail, spoiled>>
accountsVars == <<password, mailVars, next_pass, mail_faults, owned, told>>

MailIds == 1..MaxMails
Passwords == 0..MaxPasswords
NoMail == [to |-> "nobody", pass |-> 0, step |-> "none", status |-> "none"]
MailFault == mail_faults < MaxMailFaults /\ mail_faults' = mail_faults + 1

AccountsInit ==
  /\ password = [e \in Emails |-> 0] /\ mails = [m \in MailIds |-> NoMail] /\ inbox = {}
  /\ next_pass = 1 /\ next_mail = 1 /\ mail_faults = 0
  /\ owned = [e \in Emails |-> {}] /\ told = {} /\ spoiled = {}
-----------------------------------------------------------------------------
(* RunTasks::MailSend.                                                     *)
MailSend(e, p) ==
  /\ next_mail <= MaxMails /\ next_mail' = next_mail + 1
  /\ mails' = [mails EXCEPT ![next_mail] = [to |-> e, pass |-> p, step |-> "queued", status |-> "none"]]
  /\ UNCHANGED <<inbox, spoiled>>

SetPassword(e) ==
  /\ next_pass <= MaxPasswords /\ next_pass' = next_pass + 1
  /\ password' = [password EXCEPT ![e] = next_pass] /\ owned' = [owned EXCEPT ![e] = owned[e] \cup {next_pass}]

(* A command that makes a password up: an address with an account is       *)
(* refused by the first and one without by the second; when the statement  *)
(* is refused no mail is sent.                                             *)
RegistrationOrReset(e) ==
  /\ SetPassword(e) /\ MailSend(e, next_pass)
  /\ UNCHANGED <<mail_faults, told>>

Registration(e) == password[e] = 0 /\ RegistrationOrReset(e)
ResetPassword(e) == password[e] # 0 /\ RegistrationOrReset(e)

(* A refused statement leaves the row; the password made up is forgotten.  *)
WhenRefusedMailed(e) == MailSend(e, next_pass)

WhenRefused(e) == UNCHANGED mailVars

PasswordRefused(e) ==
  /\ MailFault /\ next_pass <= MaxPasswords /\ next_pass' = next_pass + 1 /\ WhenRefused(e)
  /\ UNCHANGED <<password, owned, told>>

(* users_add by an administrator, and user_change_password, which asks for *)
(* the old password: somebody chooses the new one, and no mail is sent.    *)
ChoosePassword(e) ==
  /\ SetPassword(e) /\ told' = told \cup {next_pass}
  /\ UNCHANGED <<mailVars, mail_faults>>

UsersAdd(e) == password[e] = 0 /\ ChoosePassword(e)

KnowsPassword(e) == password[e] \in told \/ \E m \in inbox : mails[m].to = e /\ mails[m].pass = password[e]
ChangePassword(e) == password[e] # 0 /\ KnowsPassword(e) /\ ChoosePassword(e)

UsersDelete(e) ==
  /\ password[e] # 0 /\ password' = [password EXCEPT ![e] = 0]
  /\ UNCHANGED <<mailVars, next_pass, mail_faults, owned, told>>

(* feedback_add, mail_send and the mail test of the command line.          *)
SendOther(e) ==
  /\ MailSend(e, 0)
  /\ UNCHANGED <<password, next_pass, mail_faults, owned, told>>
-----------------------------------------------------------------------------
(* MailSendTask::run.                                                      *)
MailStep(m, from, to, status) ==
  /\ mails[m].step = from
  /\ mails' = [mails EXCEPT ![m] = [@ EXCEPT !.step = to, !.status = status]]
  /\ UNCHANGED <<password, next_pass, next_mail, owned, told>>

InsertMail(m) == MailStep(m, "queued", "inserted", "loaded") /\ UNCHANGED <<inbox, mail_faults, spoiled>>

InsertMailRefused(m) ==
  MailStep(m, "queued", "over", "none") /\ MailFault /\ spoiled' = spoiled \cup {m} /\ UNCHANGED inbox

SendMail(m) == MailStep(m, "inserted", "accepted", "loaded") /\ inbox' = inbox \cup {m} /\ UNCHANGED <<mail_faults, spoiled>>

(* curl reports an error, perhaps for a mail the server has accepted.      *)
SendMailFails(m) ==
  /\ MailStep(m, "inserted", "failed", "loaded") /\ MailFault /\ spoiled' = spoiled \cup {m}
  /\ inbox' \in {inbox, inbox \cup {m}}

StatusOf(m) == IF mails[m].step = "accepted" THEN "sent" ELSE "error"

MarkMail(m) ==
  /\ mails[m].step \in {"accepted", "failed"}
  /\ MailStep(m, mails[m].step, "over", StatusOf(m))
  /\ UNCHANGED <<inbox, mail_faults, spoiled>>

MarkMailRefused(m) ==
  /\ mails[m].step \in {"accepted", "failed"} /\ MailFault
  /\ MailStep(m, mails[m].step, "over", mails[m].status)
  /\ UNCHANGED <<inbox, spoiled>>

(* The process ends: no task is left, and no row starts one.               *)
Pending == {m \in MailIds : mails[m].step \notin {"none", "over"}}

MailsStop ==
  /\ MailFault /\ spoiled' = spoiled \cup Pending
  /\ mails' = [m \in MailIds |-> IF m \in Pending THEN [mails[m] EXCEPT !.step = "over"] ELSE mails[m]]
  /\ UNCHANGED <<password, inbox, next_pass, next_mail, owned, told>>
-----------------------------------------------------------------------------
AccountsNext ==
  \/ \E e \in Emails :
       \/ Registration(e) \/ ResetPassword(e) \/ PasswordRefused(e) \/ UsersAdd(e)
       \/ ChangePassword(e) \/ UsersDelete(e) \/ SendOther(e)
  \/ \E m \in MailIds :
       \/ InsertMail(m) \/ InsertMailRefused(m) \/ SendMail(m) \/ SendMailFails(m)
       \/ MarkMail(m) \/ MarkMailRefused(m)
  \/ MailsStop

AccountsSpec == AccountsInit /\ [][AccountsNext]_accountsVars
-----------------------------------------------------------------------------
AccountsTypeOK ==
  /\ password \in [Emails -> Passwords]
  /\ mails \in [MailIds -> [to : Emails \cup {"nobody"}, pass : Passwords,
                            step : {"none", "queued", "inserted", "accepted", "failed", "over"},
                            status : {"none", "loaded", "sent", "error"}]]
  /\ inbox \subseteq MailIds /\ spoiled \subseteq MailIds
  /\ next_pass \in 1..(MaxPasswords + 1) /\ next_mail \in 1..(MaxMails + 1)
  /\ mail_faults \in 0..MaxMailFaults
  /\ owned \in [Emails -> SUBSET Passwords] /\ told \subseteq Passwords

(* What a mail says was so: the password in it is one the account of the   *)
(* address has had, and a row of email_delivery is marked sent only for a  *)
(* mail that arrived.                                                      *)
MailsTrue ==
  \A m \in MailIds :
    /\ mails[m].pass # 0 => mails[m].pass \in owned[mails[m].to]
    /\ mails[m].status = "sent" => m \in inbox
    /\ m \in inbox => mails[m].status # "none"

(* The password of an account is known to somebody, or on its way, or its  *)
(* mail was hit by a fault: no order of resets, changes and tasks alone    *)
(* locks a user out.                                                       *)
OnItsWay(e) == \E m \in Pending \cup spoiled : mails[m].to = e /\ mails[m].pass = password[e]
PasswordReachesOwner == \A e \in Emails : password[e] # 0 => KnowsPassword(e) \/ OnItsWay(e)

MailedPasswords == MailsTrue /\ PasswordReachesOwner
=============================================================================
