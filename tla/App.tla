--------------------------------- MODULE App ---------------------------------
(***************************************************************************)
(* The process around sign-in: cmd/app/main.go and internal/app start and  *)
(* stop it, internal/handler/telegram/bot.go takes updates from Telegram,  *)
(* and internal/handler/rest/upload.go writes files.                       *)
(*                                                                         *)
(* The database (Auth) and the files outlive the process.  What is in      *)
(* memory does not: the open HTTP calls, the goroutines that handle        *)
(* updates, the channel they come from, and the offset up to which they    *)
(* have been fetched.  A handler of an update is the update's number with  *)
(* the life of the process it runs in: one goroutine is started for each   *)
(* update that is received, and a restart receives anew what Telegram has  *)
(* not been told to forget.                                                *)
(***************************************************************************)
EXTENDS Auth, Sequences

CONSTANTS
    Calls,      \* those of Auth's requests that are HTTP calls
    Uploads,    \* HTTP calls of POST /admin/upload
    MaxSent,    \* bound: the /start messages sent to the bot
    ChanCap,    \* capacity of the channel of updates
    Lives       \* bound: how often the process is started

Handlers == (1..MaxSent) \X (1..Lives)

ASSUME AppAssumption ==
    /\ Requests = Calls \cup Handlers
    /\ Calls \cap Handlers = {}
    /\ {MaxSent, ChanCap, Lives} \subseteq Nat \ {0}

VARIABLES
    proc,       \* the process: serving, told to stop, shutting down, or gone
    listening,  \* whether it accepts HTTP calls
    life,       \* how often it has been started
    bot,        \* the bot of this life
    sent,       \* the /start messages users have sent, oldest first
    acked,      \* how many of them Telegram has been told to forget
    fetched,    \* how many have been received: the offset of the polling loop
    taken,      \* how many have left the channel
    told,       \* what each handler has replied to its user
    put,        \* the next step, or the answer, of each upload
    file        \* the file each upload writes

process == <<proc, listening, life, bot>>
updates == <<sent, acked, fetched, taken, told>>
files   == <<put, file>>
appVars == <<vars, process, updates, files>>

Running == {"create", "copy", "answer"}

AppTypeOK ==
    /\ TypeOK
    /\ proc \in {"up", "signalled", "draining", "down"}
    /\ listening \in BOOLEAN
    /\ life \in 1..Lives
    /\ bot  \in {"absent", "polling", "stopped"}
    /\ sent \in Seq([link: Links, who: Accounts]) /\ Len(sent) <= MaxSent
    /\ {acked, taken} \subseteq 0..fetched /\ fetched \in 0..Len(sent)
    /\ fetched - taken <= ChanCap
    /\ told \in [Handlers -> {"none", "verified", "sorry", "unsent", "lost"}]
    /\ put  \in [Uploads -> Running \cup {"begin", "url", "refused", "failed", "lost"}]
    /\ file \in [Uploads -> {"none", "partial", "whole"}]

AppInit ==
    /\ Init
    /\ proc = "up" /\ listening = TRUE /\ life = 1
    /\ bot \in {"absent", "polling"}
    /\ sent = <<>> /\ acked = 0 /\ fetched = 0 /\ taken = 0
    /\ told = [h \in Handlers |-> "none"]
    /\ put  = [w \in Uploads |-> "begin"]
    /\ file = [w \in Uploads |-> "none"]

-----------------------------------------------------------------------------
(* HTTP calls.                                                              *)

\* Between the signal and Shutdown the listener is still open.  An error of
\* ListenAndServe is only logged: the process goes on without a listener.
ListenerFails ==
    /\ listening
    /\ listening' = FALSE
    /\ UNCHANGED <<vars, proc, life, bot, updates, files>>

\* The calls of Auth run on the request's own context, which a signal does not
\* cancel.
Call(c) ==
    /\ proc # "down"
    /\ pc[c] = "begin" => listening
    /\ pc[c] = "send" => bot # "absent"
    /\ Serve(c)
    /\ UNCHANGED <<process, updates, files>>

\* Without a bot, the sender of the login code is nil: the call panics, and the
\* Recovery middleware answers 500.
PanicInSend(c) ==
    /\ proc # "down"
    /\ pc[c] = "send" /\ bot = "absent"
    /\ Answer(c, "failed")
    /\ UNCHANGED <<now, tables, op, session, process, updates, files>>

PutGoes(w, step) == put' = [put EXCEPT ![w] = step] /\ UNCHANGED <<vars, process, updates>>

\* FormFile and the check of the MIME type.
ReceiveUpload(w) ==
    /\ listening
    /\ put[w] = "begin"
    /\ PutGoes(w, "create") \/ PutGoes(w, "refused")
    /\ UNCHANGED file

\* os.Create; the name is fresh.
CreateFile(w) ==
    /\ proc # "down"
    /\ put[w] = "create"
    /\ \/ PutGoes(w, "copy") /\ file' = [file EXCEPT ![w] = "partial"]
       \/ PutGoes(w, "failed") /\ UNCHANGED file

CopyEnds_ErrorIgnored(w) ==
    /\ PutGoes(w, "answer")
    /\ file' \in {file, [file EXCEPT ![w] = "whole"]}

\* io.Copy; what it has written before an error stays.
CopyEnds(w) ==
    \/ PutGoes(w, "answer") /\ file' = [file EXCEPT ![w] = "whole"]
    \/ PutGoes(w, "failed") /\ UNCHANGED file

CopyFile(w) ==
    /\ proc # "down"
    /\ put[w] = "copy"
    /\ CopyEnds(w)

AnswerUrl(w) ==
    /\ proc # "down"
    /\ put[w] = "answer"
    /\ PutGoes(w, "url")
    /\ UNCHANGED file

-----------------------------------------------------------------------------
(* Updates.                                                                 *)

\* A user who has been given a link opens it.
Send ==
    /\ Len(sent) < MaxSent
    /\ \E l \in Links, a \in Accounts :
        /\ links[l] # Unborn
        /\ sent' = Append(sent, [link |-> l, who |-> a])
    /\ UNCHANGED <<vars, process, files, acked, fetched, taken, told>>

Room_Unbounded == TRUE

Room == fetched - taken < ChanCap

\* getUpdates returns what lies behind the offset, and the polling goroutine
\* puts it into the channel as far as there is room.
Fetch ==
    /\ proc # "down" /\ bot = "polling"
    /\ fetched < Len(sent)
    /\ Room
    /\ fetched' = fetched + 1
    /\ UNCHANGED <<vars, process, files, sent, acked, taken, told>>

\* The next getUpdates carries the offset.
Acknowledge ==
    /\ proc # "down" /\ bot = "polling"
    /\ acked < fetched
    /\ acked' = fetched
    /\ UNCHANGED <<vars, process, files, sent, fetched, taken, told>>

Confirmation(k) == [kind |-> "confirm", link |-> sent[k].link, who |-> sent[k].who]

\* go handleUpdate, with the first statement of ConfirmTelegram.  Once the
\* signal has cancelled the context, that statement fails.
Dispatch ==
    /\ proc # "down" /\ bot = "polling"
    /\ taken < fetched
    /\ taken' = taken + 1
    /\ LET r == <<taken + 1, life>> IN
        \/ /\ proc = "up"
           /\ GetPending(r)
           /\ op'[r] = Confirmation(taken + 1)
        \/ /\ proc # "up"
           /\ op' = [op EXCEPT ![r] = Confirmation(taken + 1)]
           /\ Answer(r, "refused")
           /\ UNCHANGED <<now, tables, session>>
    /\ UNCHANGED <<process, files, sent, acked, fetched, told>>

\* The rest of ConfirmTelegram; after the signal its statements fail.
Handle(r) ==
    /\ proc # "down"
    /\ pc[r] # "begin"
    /\ \/ proc = "up" /\ (Confirm(r) \/ IssueTokens(r))
       \/ Abort(r)
    /\ UNCHANGED <<process, updates, files>>

ReplyText_Always(r) == "verified"

ReplyText(r) == IF resp[r] = "ok" THEN "verified" ELSE "sorry"

ReplyDue_OnSuccess(r) == resp[r] = "ok" /\ told[r] = "none"

ReplyDue(r) == pc[r] = "done" /\ told[r] = "none"

\* The bot's reply is not bound to the context, and may fail.
Reply(r) ==
    /\ proc # "down" /\ r[2] = life
    /\ ReplyDue(r)
    /\ told' \in {[told EXCEPT ![r] = ReplyText(r)], [told EXCEPT ![r] = "unsent"]}
    /\ UNCHANGED <<vars, process, files, sent, acked, fetched, taken>>

-----------------------------------------------------------------------------
(* The life of the process.                                                 *)

\* SIGINT or SIGTERM cancels the context of main.
Signal ==
    /\ proc = "up"
    /\ proc' = "signalled"
    /\ UNCHANGED <<vars, listening, life, bot, updates, files>>

\* The select of Bot.Start.
StopPolling ==
    /\ proc \in {"signalled", "draining"}
    /\ bot = "polling"
    /\ bot' = "stopped"
    /\ UNCHANGED <<vars, proc, listening, life, updates, files>>

\* App.Stop: Shutdown closes the listener.
CloseListener ==
    /\ proc = "signalled"
    /\ proc' = "draining" /\ listening' = FALSE
    /\ UNCHANGED <<vars, life, bot, updates, files>>

OpenCalls   == {c \in Calls : pc[c] \notin {"begin", "done"}}
OpenUploads == {w \in Uploads : put[w] \in Running}

\* Whatever the process was doing ends where it is.
EndProcess ==
    /\ proc' = "down" /\ listening' = FALSE
    /\ pc'   = [r \in Requests |-> IF pc[r] = "begin" THEN "begin" ELSE "done"]
    /\ resp' = [r \in Requests |-> IF pc[r] \in {"begin", "done"} THEN resp[r] ELSE "failed"]
    /\ told' = [h \in Handlers |-> IF pc[h] # "begin" /\ told[h] = "none" THEN "lost" ELSE told[h]]
    /\ put'  = [w \in Uploads |-> IF w \in OpenUploads THEN "lost" ELSE put[w]]
    /\ UNCHANGED <<now, tables, op, session, life, bot, sent, acked, fetched, taken, file>>

\* Shutdown waits for the HTTP calls, and for nothing else: neither for the
\* handlers of updates nor for the WebSockets, which are hijacked connections.
Drained == OpenCalls \cup OpenUploads = {}

Stop ==
    /\ proc = "draining"
    /\ Drained
    /\ EndProcess

PatienceEnds_Never == FALSE

\* The ten seconds of Shutdown's context are over.
PatienceEnds == proc = "draining"

StopLate == PatienceEnds /\ EndProcess

\* SIGKILL or a fatal error: the process dies and the machine goes on, so what
\* it has written to a file is there, on its way to the disk or not.
Kill == proc # "down" /\ EndProcess

FirstOffset_Latest == Len(sent)

\* NewUpdate(0): from the oldest message that Telegram has not forgotten.
FirstOffset == acked

\* The container runtime starts it again; creating the bot may fail, which is
\* only logged.
Restart ==
    /\ proc = "down" /\ life < Lives
    /\ proc' = "up" /\ listening' = TRUE /\ life' = life + 1
    /\ bot' \in {"absent", "polling"}
    /\ fetched' = FirstOffset /\ taken' = FirstOffset
    /\ UNCHANGED <<vars, sent, acked, told, files>>

\* Nobody starts it again.
Retired ==
    /\ proc = "down"
    /\ UNCHANGED appVars

Upload(w) == ReceiveUpload(w) \/ CreateFile(w) \/ CopyFile(w) \/ AnswerUrl(w)

AppNext ==
    \/ \E c \in Calls : Call(c) \/ PanicInSend(c)
    \/ \E w \in Uploads : Upload(w)
    \/ \E h \in Handlers : Handle(h) \/ Reply(h)
    \/ Send \/ Fetch \/ Acknowledge \/ Dispatch
    \/ ListenerFails \/ Signal \/ StopPolling \/ CloseListener \/ Stop \/ StopLate \/ Kill \/ Restart
    \/ Retired

AppSpec == AppInit /\ [][AppNext]_appVars

\* Goroutines that can run do, Telegram's long poll returns, and the timer of
\* the shutdown fires.  Nothing is assumed of clients or of signals.
AppFairness ==
    /\ WF_appVars(Fetch) /\ WF_appVars(Dispatch)
    /\ \A h \in Handlers : WF_appVars(Handle(h)) /\ WF_appVars(Reply(h))
    /\ WF_appVars(CloseListener) /\ WF_appVars(StopLate)

FairApp == AppSpec /\ AppFairness

-----------------------------------------------------------------------------
(* What the process promises.                                               *)

\* The bot says "Verified!" only when the browser's poll finds the pair, or one
\* has already taken it: also when the process dies between two statements, is
\* restarted and handles the same update again.
ToldTruth ==
    \A h \in Handlers : told[h] = "verified" =>
        \/ confirmed[op[h].link] = pair[h]
        \/ \E c \in Calls : Is(c, "poll") /\ pair[c] = pair[h]

\* A link completes one registration, however often it is opened and however
\* often the update is delivered, unless the user it has made is deleted while
\* another handler of the link is under way.
LinkRegistersOnce ==
    \A g, h \in Handlers :
        /\ Is(g, "confirm") /\ Is(h, "confirm") /\ op[g].link = op[h].link
        /\ resp[g] = "ok" /\ resp[h] = "ok"
        => g = h \/ Removed \in {users[user[g]], users[user[h]]}

\* A URL that was answered names a file that was written to its end, whether the
\* copy fails, the process is cut off or dies.  (The file is never synced: what
\* a power cut leaves of it is the file system's affair.)
UrlServesWholeFile == \A w \in Uploads : put[w] = "url" => file[w] = "whole"

\* The messages that have gone by without a handler in any life.
Missed == {k \in 1..taken : \A l \in 1..Lives : pc[<<k, l>>] = "begin"}

\* A message is missed only when Telegram was told to forget it while it waited
\* in the channel of a process that ended: the polling loop starts from what
\* Telegram still has, so each end of the process costs what a channel holds at
\* most, and a process that lives costs none.
LossIsBounded ==
    /\ Missed \subseteq 1..acked
    /\ Cardinality(Missed) <= ChanCap * (life - 1)

\* A message that waits while the process is up gets its reply (or an attempt
\* at one), unless the process is told to stop or dies first.
UpdateIsAnswered ==
    \A k \in 1..MaxSent :
        (k \in taken + 1 .. Len(sent) /\ proc = "up" /\ bot = "polling")
            ~> (proc # "up" \/ told[<<k, life>>] # "none")

\* A signal ends the process although a client may hold its call open for ever.
ShutdownEnds == proc = "signalled" ~> proc = "down"

=============================================================================
