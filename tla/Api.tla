-------------------------------- MODULE Api --------------------------------
(***************************************************************************)
(* api.py as the services use it.  send_file asks the site to sign an      *)
(* upload and then makes it; send_signal tells the site about the path     *)
(* send_file returned; get_data downloads.  Each is retried whole, up to   *)
(* MaxAttempts times, on a communication error; an answer may be lost      *)
(* after the site has acted.  The client starts a call with SendFile,      *)
(* SendSignal or GetData and goes on when call is "none", with the outcome *)
(* in result.                                                              *)
(***************************************************************************)
EXTENDS Integers

CONSTANTS
    Files, NoFile,
    Paths, NoPath,  \* remote paths the site signs
    MaxAttempts     \* MAX_ATTEMPTS

ASSUME ApiAssumption ==
    NoFile \notin Files /\ NoPath \notin Paths /\ MaxAttempts \in Nat \ {0}

VARIABLES
    call,     \* what the call at hand does next
    attempt,
    file,     \* the file the last send_file was called for
    path,     \* remote_path of the last send_file
    result,   \* how the last call ended
    stored,   \* history: <<path, file>> of each upload the site took
    told      \* history: <<path, file>> of each signal the site took

apiVars == <<call, attempt, file, path, result, stored, told>>

ApiTypeOK ==
    /\ call \in {"none", "sign", "put", "signal", "get"} /\ attempt \in 1 .. MaxAttempts
    /\ file \in Files \union {NoFile} /\ path \in Paths \union {NoPath}
    /\ result \in {"none", "path", "large", "told", "data", "raised"}
    /\ stored \subseteq Paths \X Files /\ told \subseteq Paths \X Files

ApiInit ==
    /\ call = "none" /\ attempt = 1 /\ file = NoFile /\ path = NoPath
    /\ result = "none" /\ stored = {} /\ told = {}

-----------------------------------------------------------------------------
SendFile(f) ==
    /\ call = "none"
    /\ call' = "sign" /\ attempt' = 1 /\ file' = f /\ path' = NoPath /\ result' = "none"
    /\ UNCHANGED <<stored, told>>

\* The callers signal only if send_file returned a path.
SendSignal ==
    /\ call = "none" /\ path # NoPath
    /\ call' = "signal" /\ attempt' = 1 /\ result' = "none"
    /\ UNCHANGED <<file, path, stored, told>>

GetData ==
    /\ call = "none"
    /\ call' = "get" /\ attempt' = 1 /\ result' = "none"
    /\ UNCHANGED <<file, path, stored, told>>

Return(r) == call' = "none" /\ result' = r /\ UNCHANGED attempt

\* @retry: the call starts over, or the last error is raised.
Retry(first) ==
    IF attempt < MaxAttempts
    THEN call' = first /\ attempt' = attempt + 1 /\ UNCHANGED result
    ELSE Return("raised")

Sign ==
    /\ call = "sign"
    /\ path' \in Paths /\ call' = "put"
    /\ UNCHANGED <<attempt, file, result, stored, told>>

\* An error, or an answer without the parameters.
SignFails ==
    /\ call = "sign"
    /\ Retry("sign")
    /\ UNCHANGED <<file, path, stored, told>>

\* Mutant: the status of the answer is not looked at.
PutUnchecked ==
    /\ call = "put"
    /\ Return("path")
    /\ UNCHANGED <<file, path, stored, told>>

Put ==
    /\ call = "put"
    /\ stored' = stored \union {<<path, file>>}
    /\ Return("path")
    /\ UNCHANGED <<file, path, told>>

\* The upload fails, or only its answer does.
PutFails ==
    /\ call = "put"
    /\ stored' \in {stored, stored \union {<<path, file>>}}
    /\ path' = NoPath /\ Retry("sign")
    /\ UNCHANGED <<file, told>>

\* 413: send_file returns None.
PutTooLarge ==
    /\ call = "put"
    /\ path' = NoPath /\ Return("large")
    /\ UNCHANGED <<file, stored, told>>

Signal ==
    /\ call = "signal"
    /\ told' = told \union {<<path, file>>}
    /\ Return("told")
    /\ UNCHANGED <<file, path, stored>>

SignalFails ==
    /\ call = "signal"
    /\ told' \in {told, told \union {<<path, file>>}}
    /\ Retry("signal")
    /\ UNCHANGED <<file, path, stored>>

\* The whole answer is read before it is returned.
Get ==
    /\ call = "get"
    /\ Return("data")
    /\ UNCHANGED <<file, path, stored, told>>

GetFails ==
    /\ call = "get"
    /\ Retry("get")
    /\ UNCHANGED <<file, path, stored, told>>

\* Another exception, or the end of the process: nothing is left of the call.
Drop ==
    /\ call' = "none" /\ attempt' = 1 /\ file' = NoFile /\ path' = NoPath /\ result' = "none"
    /\ UNCHANGED <<stored, told>>

Request ==
    Sign \/ SignFails \/ Put \/ PutFails \/ PutTooLarge \/ Signal \/ SignalFails \/ Get \/ GetFails

ApiNext == (\E f \in Files : SendFile(f)) \/ SendSignal \/ GetData \/ Request \/ Drop

ApiSpec == ApiInit /\ [][ApiNext]_apiVars

-----------------------------------------------------------------------------
\* The site is told of a path only after it took the file at that path, however
\* many attempts, lost answers and new signatures there were.
ToldIsStored == told \subseteq stored
=============================================================================
