----------------------------- MODULE WalletScript -----------------------------
(***************************************************************************)
(* contrib/selenium/withdraw_buy.py: the wallet's end-to-end script.  It   *)
(* sets up the browser (client_setup), then runs five steps in order:      *)
(* register at the bank, withdraw, buy an article, replay the purchase     *)
(* with the fulfillment URL after deleting the cookies, and donate.  A     *)
(* step that returns False is followed by print_log and abort (quit the    *)
(* browser, stop the virtual display, exit 1).                             *)
(*                                                                         *)
(* The web pages are the environment: each wait or lookup of a step       *)
(* (a probe) either succeeds or raises the exception the step catches,     *)
(* TimeoutException for ctx.wait.until and NoSuchElementException for      *)
(* find_element.  Which probe fails first is chosen by \E.  Failures the   *)
(* script does not anticipate (a driver that cannot start, a page load     *)
(* error) are left out.                                                    *)
(***************************************************************************)
EXTENDS Naturals, Sequences

CONSTANTS Args   \* command lines: [ext, extdir, withhead] as booleans

\* What the except clause of a probe does: return False, or evaluate
\* str(amount_value), a name defined nowhere, and raise NameError.
ReturnsFalse == "false"
RaisesNameError == "nameerror"

\* The probes of each step, in the order the step makes them; a step
\* returns at its first failing probe.  An amount dropdown is two probes,
\* the find_element and the wait for the matching option, and the wait
\* is made only when an option's text equals the requested amount.
Probes == [
  register |-> <<ReturnsFalse,       \* register link
                 ReturnsFalse,       \* register form
                 ReturnsFalse>>,     \* select-exchange after submitting
  withdraw |-> <<ReturnsFalse,       \* select-exchange button
                 RaisesNameError,    \* reserve-amount dropdown
                 RaisesNameError,    \* the matching option
                 ReturnsFalse,       \* accept exchange
                 ReturnsFalse,       \* captcha input and question
                 ReturnsFalse,       \* captcha form
                 ReturnsFalse>>,     \* informational-ok
  buy      |-> <<ReturnsFalse,       \* teaser link
                 ReturnsFalse,       \* confirm payment
                 ReturnsFalse>>,     \* check_article
  replay   |-> <<ReturnsFalse>>,     \* check_article on the fulfillment URL
  donate   |-> <<ReturnsFalse,       \* donation form
                 RaisesNameError,    \* taler-donation dropdown
                 RaisesNameError,    \* the matching option
                 ReturnsFalse,       \* select-payment-method
                 ReturnsFalse>>]     \* confirm payment

\* The position of the matching-option wait in a step's probes.
OptionProbe == [s \in {"withdraw", "donate"} |-> 3]

Steps == <<"register", "withdraw", "buy", "replay", "donate">>

VARIABLES
  pc,         \* "setup", a step of Steps, or "exited"
  client,     \* the WebDriver: "none", "open", "quit"
  display,    \* the virtual display: "idle", "started", "stopped"
  exitStatus, \* the status sys.exit or the interpreter exits with
  uncaught,   \* the script ended on an exception nothing caught
  logDumped,  \* print_log has dumped the browser log
  cookies,    \* the browser's cookies: "kept" or "deleted"
  unselected  \* steps whose amount menu offered no matching entry

vars == <<pc, client, display, exitStatus, uncaught, logDumped, cookies, unselected>>

Init ==
  /\ pc = "setup"
  /\ client = "none" /\ display = "idle"
  /\ exitStatus = 0 /\ uncaught = FALSE /\ logDumped = FALSE
  /\ cookies = "kept" /\ unselected = {}

\* client_setup with the parsed arguments a: no extension given is an
\* error exit before anything starts; otherwise the display starts unless
\* --with-head, and the browser opens.
Setup(a) ==
  /\ pc = "setup"
  /\ IF ~a.ext /\ ~a.extdir
       THEN /\ exitStatus' = 1 /\ pc' = "exited"
            /\ UNCHANGED <<client, display>>
       ELSE /\ display' = IF a.withhead THEN "idle" ELSE "started"
            /\ client' = "open"
            /\ pc' = Steps[1]
            /\ UNCHANGED exitStatus
  /\ UNCHANGED <<uncaught, logDumped, cookies, unselected>>

\* print_log(client): dump the browser log.
PrintLog == logDumped' = TRUE

\* abort(client) after print_log: quit the browser, kill_display (stop
\* the display if start() ran), exit 1.
Abort ==
  /\ PrintLog
  /\ client' = "quit"
  /\ display' = IF display = "started" THEN "stopped" ELSE display
  /\ exitStatus' = 1
  /\ UNCHANGED uncaught

\* After the last step: quit, kill_display, exit 0.
Finish ==
  /\ client' = "quit"
  /\ display' = IF display = "started" THEN "stopped" ELSE display
  /\ exitStatus' = 0
  /\ UNCHANGED <<uncaught, logDumped>>

\* The step after step k, or the end of the script.
NextPc(k) == IF k = Len(Steps) THEN "exited" ELSE Steps[k + 1]

\* Step k of the script.  fail is the first failing probe, 0 for none;
\* matched says whether the amount menu offered the requested entry (an
\* unmatched menu skips the option wait and goes on with the default).
RunStep(k, fail, matched) ==
  LET s == Steps[k]
      probes == Probes[s]
      skipped == s \in DOMAIN OptionProbe /\ ~matched
  IN
  /\ pc = s
  /\ fail \in 0..Len(probes)
  /\ skipped => fail # OptionProbe[s]
  /\ unselected' = IF skipped /\ (fail = 0 \/ fail > OptionProbe[s])
                     THEN unselected \cup {s} ELSE unselected
  /\ IF fail = 0
       THEN /\ cookies' = IF s = "buy" THEN "deleted" ELSE cookies
            /\ pc' = NextPc(k)
            /\ IF k = Len(Steps) THEN Finish
                                 ELSE UNCHANGED <<client, display, exitStatus, uncaught, logDumped>>
       ELSE /\ pc' = "exited"
            /\ UNCHANGED cookies
            /\ IF probes[fail] = ReturnsFalse
                 THEN Abort
                 ELSE /\ exitStatus' = 1 /\ uncaught' = TRUE
                      /\ UNCHANGED <<client, display, logDumped>>

Next ==
  \/ \E a \in Args : Setup(a)
  \/ \E k \in DOMAIN Steps, f \in 0..7, m \in BOOLEAN : RunStep(k, f, m)

Spec == Init /\ [][Next]_vars

-----------------------------------------------------------------------------
(* Properties.                                                             *)

\* The script's failure path ("All the operations we need upon errors"):
\* once the browser is open, every way the script ends after a probe fails
\* as the script expects goes through print_log and abort: the browser
\* log is dumped, the browser has quit and the virtual display is not
\* left running.
CleanExit ==
  pc = "exited" /\ client # "none" =>
    /\ exitStatus = 1 => logDumped
    /\ client = "quit"
    /\ display # "started"
=============================================================================
