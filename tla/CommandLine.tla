---------------------------- MODULE CommandLine -----------------------------
(***************************************************************************)
(* The command line: which command asks for what, what it then calls, and  *)
(* the terminal, whose echo is switched off while a password is typed.     *)
(* Input may end, reading and switching may fail, and a signal may end the *)
(* process at any moment.                                                  *)
(***************************************************************************)
EXTENDS PasswordPolicy

CONSTANTS
    Empty,    \* the password read at the end of the input
    Outcomes  \* what encrypt_paths and decrypt_to_dir may answer besides "Ok"

ASSUME CommandAssumption == Empty \in Passwords

VARIABLES
    command,        \* the first argument, "none" without any
    args,           \* how many there are after it
    terminal,       \* stdin is a terminal (on Unix); otherwise a pipe
    before,         \* the terminal's mode at the start: [echo, echonl]
    tty,            \* and now
    saved,          \* the mode the guard will restore
    pc,
    asked,          \* the prompt at hand: "password", "confirmation"
    password,       \* what was typed, Unread before
    confirmation,
    called,         \* the pipeline call made: "none", "encrypt_paths", "decrypt_to_dir"
    said,           \* what the program says of the outcome
    exit,           \* "none", "success", "failure", "killed"
    unrestored      \* restoring the terminal has failed

callVars == <<command, args, terminal, before>>
vars == <<callVars, tty, saved, pc, asked, password, confirmation, called, said, exit, unrestored>>

Unread == [read |-> FALSE, text |-> Empty]
Typed(p) == [read |-> TRUE, text |-> p]

Init ==
    /\ command \in {"none", "encrypt", "decrypt", "check-password", "other"}
    /\ args \in 0..3 /\ (command = "none" => args = 0)
    /\ terminal \in BOOLEAN
    /\ before \in [echo : BOOLEAN, echonl : BOOLEAN]
    /\ tty = before /\ saved = before
    /\ pc = "start" /\ asked = "password"
    /\ password = Unread /\ confirmation = Unread
    /\ called = "none" /\ said = "none" /\ exit = "none" /\ unrestored = FALSE

Exits(code, what) == pc' = "end" /\ exit' = code /\ said' = what

\* No command: the usage. Any other asks for the password first.
Start ==
    /\ pc = "start"
    /\ IF command = "none" THEN Exits("failure", "usage")
                           ELSE pc' = "mask" /\ UNCHANGED <<exit, said>>
    /\ UNCHANGED <<callVars, tty, saved, asked, password, confirmation, called, unrestored>>

-----------------------------------------------------------------------------
(* read_password.                                                          *)

\* Masque::poser
Mask ==
    /\ pc = "mask"
    /\ \/ /\ tty' = IF terminal THEN [echo |-> FALSE, echonl |-> TRUE] ELSE tty
          /\ pc' = "type"
          /\ UNCHANGED <<exit, said>>
       \/ Exits("failure", "Io") /\ UNCHANGED tty
    /\ saved' = tty
    /\ UNCHANGED <<callVars, asked, password, confirmation, called, unrestored>>

Answered(p) ==
    IF asked = "password" THEN password' = Typed(p) /\ UNCHANGED confirmation
                          ELSE confirmation' = Typed(p) /\ UNCHANGED password

\* A line, or the end of the input; the line's end is not part of the password.
Type ==
    /\ pc = "type"
    /\ \E p \in Passwords : Answered(p)
    /\ pc' = "unmask"
    /\ UNCHANGED <<callVars, tty, saved, asked, called, said, exit, unrestored>>

TypingFails ==
    /\ pc = "type"
    /\ pc' = "unmask failed"
    /\ UNCHANGED <<callVars, tty, saved, asked, password, confirmation, called, said, exit,
                   unrestored>>

\* Seeded fault: an error leaves without restoring the terminal.
UnmaskOnSuccess ==
    /\ pc \in {"unmask", "unmask failed"}
    /\ IF pc = "unmask"
       THEN tty' = (IF terminal THEN saved ELSE tty) /\ pc' = "typed" /\ UNCHANGED <<exit, said>>
       ELSE Exits("failure", "Io") /\ UNCHANGED tty
    /\ UNCHANGED <<callVars, saved, asked, password, confirmation, called, unrestored>>

\* The guard is dropped before the error is looked at; that this fails is ignored.
Unmask ==
    /\ pc \in {"unmask", "unmask failed"}
    /\ \/ tty' = (IF terminal THEN saved ELSE tty) /\ UNCHANGED unrestored
       \/ terminal /\ unrestored' = TRUE /\ UNCHANGED tty
    /\ IF pc = "unmask" THEN pc' = "typed" /\ UNCHANGED <<exit, said>>
                        ELSE Exits("failure", "Io")
    /\ UNCHANGED <<callVars, saved, asked, password, confirmation, called>>

-----------------------------------------------------------------------------
(* main, with the password.                                                *)

\* encrypt needs an output and a source, decrypt exactly a source and an output.
UsageError ==
    \/ command = "encrypt" /\ args < 2
    \/ command = "decrypt" /\ args # 2

Confirms == command \in {"encrypt", "check-password"}

PasswordTyped ==
    /\ pc = "typed" /\ asked = "password"
    /\ \/ UsageError /\ Exits("failure", "usage") /\ UNCHANGED <<asked, called>>
       \/ command = "other" /\ Exits("failure", "unknown command") /\ UNCHANGED <<asked, called>>
       \/ /\ ~UsageError /\ Confirms
          /\ asked' = "confirmation" /\ pc' = "mask"
          /\ UNCHANGED <<called, said, exit>>
       \/ /\ ~UsageError /\ command = "decrypt"
          /\ called' = "decrypt_to_dir" /\ pc' = "call"
          /\ UNCHANGED <<asked, said, exit>>
    /\ UNCHANGED <<callVars, tty, saved, password, confirmation, unrestored>>

\* Seeded fault: a password that is too weak is only warned about.
EncryptLeniently ==
    /\ pc = "typed" /\ asked = "confirmation" /\ command = "encrypt"
    /\ LET verdict == Validate(password.text, confirmation.text) IN
       IF verdict \in {"Ok", "TooWeak"}
       THEN called' = "encrypt_paths" /\ pc' = "call" /\ UNCHANGED <<said, exit>>
       ELSE Exits("failure", verdict) /\ UNCHANGED called
    /\ UNCHANGED <<callVars, tty, saved, asked, password, confirmation, unrestored>>

EncryptConfirmed ==
    /\ pc = "typed" /\ asked = "confirmation" /\ command = "encrypt"
    /\ LET verdict == Validate(password.text, confirmation.text) IN
       IF verdict = "Ok"
       THEN called' = "encrypt_paths" /\ pc' = "call" /\ UNCHANGED <<said, exit>>
       ELSE Exits("failure", verdict) /\ UNCHANGED called
    /\ UNCHANGED <<callVars, tty, saved, asked, password, confirmation, unrestored>>

\* run_check_password: the confirmation first.
CheckConfirmed ==
    /\ pc = "typed" /\ asked = "confirmation" /\ command = "check-password"
    /\ IF password.text # confirmation.text THEN Exits("failure", "mismatch")
       ELSE IF IsAcceptable(password.text) THEN Exits("success", "accepted")
       ELSE Exits("failure", "refused")
    /\ UNCHANGED <<callVars, tty, saved, asked, password, confirmation, called, unrestored>>

PipelineReturns ==
    /\ pc = "call"
    /\ \/ Exits("success", "Ok")
       \/ \E r \in Outcomes : Exits("failure", r)
    /\ UNCHANGED <<callVars, tty, saved, asked, password, confirmation, called, unrestored>>

\* A signal: no destructor runs.
Interrupted ==
    /\ pc # "end"
    /\ Exits("killed", said)
    /\ UNCHANGED <<callVars, tty, saved, asked, password, confirmation, called, unrestored>>

Proceed ==
    Start \/ Mask \/ Unmask \/ PasswordTyped \/ EncryptConfirmed \/ CheckConfirmed
    \/ PipelineReturns

Next == Proceed \/ Type \/ TypingFails \/ Interrupted

\* The user need not type anything.
Spec == Init /\ [][Next]_vars /\ WF_vars(Proceed)

-----------------------------------------------------------------------------
(* Properties.                                                             *)

\* What is typed at a terminal is not shown (main.rs:205), at either prompt.
TypedUnseen == pc = "type" /\ terminal => ~tty.echo

\* main.rs:226: when the program leaves by itself, by whatever way, the terminal is
\* as it was found, unless the system refused to restore it.
TerminalIsRestored == exit \in {"success", "failure"} => tty = before \/ unrestored

\* Nothing is encrypted but under a password that satisfies the whole policy and was
\* typed twice (main.rs:15); a refused one makes no call.
OnlyGoodPasswordsEncrypt ==
    called = "encrypt_paths" =>
        /\ confirmation.read /\ password.text = confirmation.text
        /\ LengthOf[password.text] >= MinLength
        /\ ScoreOf[password.text] >= RequiredScore

\* check-password says of a password what encrypt does with it (main.rs:9), although
\* the two look at the rules in different orders.
CheckAgreesWithEncrypt ==
    command = "check-password" /\ exit \in {"success", "failure"} /\ said # "Io" =>
        (exit = "success" <=> Validate(password.text, confirmation.text) = "Ok")

\* The process succeeds only if the pipeline did, or the password was accepted, and
\* it never says so of a call that was not made.
SuccessIsTrue ==
    exit = "success" =>
        \/ called # "none" /\ said = "Ok"
        \/ command = "check-password" /\ called = "none" /\ said = "accepted"

\* The echo of the terminal is off while it must be, and only then.
EchoIsHandled == TypedUnseen /\ TerminalIsRestored

\* The policy decides what is encrypted, and what is said of it is true.
PolicyIsApplied == OnlyGoodPasswordsEncrypt /\ CheckAgreesWithEncrypt /\ SuccessIsTrue
=============================================================================
