----------------------------- MODULE AvScanner -----------------------------
(***************************************************************************)
(* The antivirus gate of uploads and inbound attachments.  The scanner is   *)
(* picked by a setting; clamd is a daemon that may be down, or answer a     *)
(* scan with a verdict, an error or something unreadable.                   *)
(***************************************************************************)
CONSTANTS
    AvBackend,      \* settings.av_scanner_backend
    AvFailClosed    \* settings.av_fail_closed_on_scanner_error

ASSUME AvAssumption == AvFailClosed \in BOOLEAN

\* The states of the daemon a scan may meet.
Clamd == {"up", "erring", "down"}

\* What clamd answers for a file: a verdict on its content, or trouble.
ClamdAnswer(bytes, clamd) ==
    CASE clamd = "up" -> IF bytes \in {"virus", "eicar"} THEN "FOUND" ELSE "OK"
      [] clamd = "erring" -> "ERROR"
      [] OTHER -> "refused"

\* A raised ScannerError, or the result of a report.
ClamdScan(bytes, clamd) ==
    CASE ClamdAnswer(bytes, clamd) = "refused" -> "raises"
      [] ClamdAnswer(bytes, clamd) = "OK" -> "clean"
      [] ClamdAnswer(bytes, clamd) = "FOUND" -> "infected"
      [] OTHER -> "error"

\* An unknown backend name falls back to stub_allow.
Backend == IF AvBackend \in {"clamd", "stub_deny", "eicar"} THEN AvBackend ELSE "stub_allow"

ScanBytes(bytes, clamd) ==
    CASE Backend = "clamd" -> ClamdScan(bytes, clamd)
      [] Backend = "stub_deny" -> "infected"
      [] Backend = "eicar" -> IF bytes = "eicar" THEN "infected" ELSE "clean"
      [] OTHER -> "clean"

\* The fail-open setting speaks of error reports only: what scan_bytes raises
\* goes through to the caller.
EnforceClean(bytes, clamd) ==
    CASE ScanBytes(bytes, clamd) = "infected" -> "infected"
      [] ScanBytes(bytes, clamd) = "raises" -> "unavailable"
      [] ScanBytes(bytes, clamd) = "error" /\ AvFailClosed -> "unavailable"
      [] OTHER -> "passed"
=============================================================================
