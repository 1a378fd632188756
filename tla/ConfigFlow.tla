------------------------------ MODULE ConfigFlow ------------------------------
(***************************************************************************)
(* How a change of the configuration file reaches the credentials in use:  *)
(* management handlers and editors write the file, the watcher reloads it  *)
(* (debounced after a file event, at once after a management save), the    *)
(* service takes the new configuration, the watcher computes which         *)
(* credentials changed, its dispatcher sends the changes, and the service  *)
(* applies them to the manager.                                            *)
(*                                                                         *)
(* A configuration is abstracted to the version of every credential it     *)
(* lists; version 0 means that the credential is not listed.               *)
(***************************************************************************)
EXTENDS Integers, Sequences, FiniteSets, SequencesExt

CONSTANTS
    Ids,          \* credentials a configuration may list
    Reloaders,    \* goroutines that may be in reloadConfigIfChanged at once
    MaxVersion,   \* bound: versions of a credential
    MaxEdits,     \* bound: changes of the file
    QueueSize     \* capacity of the service's update channel

VARIABLES
    disk,     \* the file: <<a configuration>>, or <<>> while it is rewritten
    mgmt,     \* the management handler: its configuration, save and reloads
    wait,     \* TRUE while the debounce timer runs
    reload,   \* reload[r]: a goroutine in reloadConfigIfChanged
    watch,    \* the watcher: configuration, hash of the file, credentials
    service,  \* the configuration the service works with
    flow,     \* changes on their way: pending, batch, queue, todo
    creds,    \* the manager's credentials
    limits,   \* the limiter: credentials whose usage limits are in force
    overlap   \* history: two refreshes overlapped between diff and enqueue

vars == <<disk, mgmt, wait, reload, watch, service, flow, creds, limits, overlap>>

Versions == 0..MaxVersion
NoConfig == [i \in Ids |-> 0]

Start    == [i \in Ids |-> 1]
Begun(pc, by, gen) ==
    [pc |-> pc, by |-> by, gen |-> gen, seen |-> <<>>, cfg |-> NoConfig, ups |-> <<>>]
Off == Begun("off", "timer", 0)

Init ==
    /\ disk = <<Start>>
    /\ mgmt = [cfg |-> Start, saving |-> FALSE, edits |-> 0, gens |-> {}, applied |-> 0]
    /\ wait = FALSE
    /\ reload = [r \in Reloaders |-> Off]
    /\ watch = [cfg |-> Start, hash |-> <<>>, current |-> Start]
    /\ service = Start
    /\ flow = [pending |-> <<>>, batch |-> <<>>, queue |-> <<>>, todo |-> <<>>]
    /\ creds = Start
    /\ limits = Ids
    /\ overlap = FALSE

-----------------------------------------------------------------------------
(* Writers of the file                                                     *)

Edited(cfg, i, v) == [cfg EXCEPT ![i] = v]

\* An editor replaces the file; fsnotify starts or restarts the debounce.
Edit ==
    /\ mgmt.edits < MaxEdits /\ ~mgmt.saving
    /\ \E i \in Ids, v \in Versions : disk' = <<Edited(disk[1], i, v)>>
    /\ disk' # disk
    /\ mgmt' = [mgmt EXCEPT !.edits = @ + 1]
    /\ wait' = TRUE
    /\ UNCHANGED <<reload, watch, service, flow, creds, limits, overlap>>

\* PutClaudeKeys and its siblings, under the handler's mutex: change the
\* configuration in memory and save it, which truncates the file first ...
Put ==
    /\ mgmt.edits < MaxEdits /\ ~mgmt.saving
    /\ \E i \in Ids, v \in Versions :
         mgmt' = [cfg |-> Edited(mgmt.cfg, i, v), edits |-> mgmt.edits + 1, saving |-> TRUE,
                  gens |-> mgmt.gens, applied |-> mgmt.applied]
    /\ disk' = <<>>
    /\ wait' = TRUE
    /\ UNCHANGED <<reload, watch, service, flow, creds, limits, overlap>>

\* ... then writes it, and starts a reload of its own (persistLocked).
Saved ==
    /\ mgmt.saving
    /\ disk' = <<mgmt.cfg>>
    /\ mgmt' = [mgmt EXCEPT !.saving = FALSE, !.gens = @ \union {mgmt.edits}]
    /\ wait' = TRUE
    /\ UNCHANGED <<reload, watch, service, flow, creds, limits, overlap>>

-----------------------------------------------------------------------------
(* reloadConfigIfChanged and what it calls                                 *)

Starts(r, by, gen) ==
    /\ reload[r].pc = "off"
    /\ reload' = [reload EXCEPT ![r] = Begun("read", by, gen)]

\* The debounce of scheduleConfigReload is over.
TimerFires(r) ==
    /\ wait
    /\ Starts(r, "timer", 0)
    /\ wait' = FALSE
    /\ UNCHANGED <<disk, mgmt, watch, service, flow, creds, limits, overlap>>

\* reloadConfigAfterManagementSave, one at a time; an older save than the one
\* already applied needs no reload.
HookStarts(r, g) ==
    /\ g \in mgmt.gens
    /\ \A q \in Reloaders : reload[q].by = "timer" \/ reload[q].pc = "off"
    /\ mgmt' = [mgmt EXCEPT !.gens = @ \ {g}]
    /\ IF g < mgmt.applied THEN UNCHANGED reload ELSE Starts(r, "hook", g)
    /\ UNCHANGED <<disk, wait, watch, service, flow, creds, limits, overlap>>

At(r, pc) == reload[r].pc = pc
To(r, pc) == reload' = [reload EXCEPT ![r].pc = pc]

\* The goroutine is done; a hook's generation counts as applied.
Done(r) ==
    /\ To(r, "off")
    /\ mgmt' = [mgmt EXCEPT !.applied =
                  IF reload[r].by = "hook" /\ reload[r].gen > @ THEN reload[r].gen ELSE @]

\* Reads the file: an empty one and one with the known hash are left alone.
Read(r) ==
    /\ At(r, "read")
    /\ IF disk \in {<<>>, watch.hash}
       THEN Done(r)
       ELSE /\ reload' = [reload EXCEPT ![r].pc = "load", ![r].seen = disk]
            /\ UNCHANGED mgmt
    /\ UNCHANGED <<disk, wait, watch, service, flow, creds, limits, overlap>>

\* LoadConfig reads it again: an empty file is a configuration without keys.
Load(r) ==
    /\ At(r, "load")
    /\ watch' = [watch EXCEPT !.cfg = IF disk = <<>> THEN NoConfig ELSE disk[1]]
    /\ To(r, "clients")
    /\ UNCHANGED <<disk, mgmt, wait, service, flow, creds, limits, overlap>>

\* reloadClients goes on with the watcher's configuration, which another reload
\* may have replaced.
Clients(r) ==
    /\ At(r, "clients")
    /\ reload' = [reload EXCEPT ![r].pc = "apply", ![r].cfg = watch.cfg]
    /\ UNCHANGED <<disk, mgmt, wait, watch, service, flow, creds, limits, overlap>>

\* applyConfigUpdateWithAuthSynthesis; Server.UpdateClients hands the
\* configuration to the management handler, whose mutex a save holds.
Apply(r) ==
    /\ At(r, "apply") /\ ~mgmt.saving
    /\ service' = reload[r].cfg
    /\ mgmt' = [mgmt EXCEPT !.cfg = reload[r].cfg]
    /\ To(r, "snapshot")
    /\ UNCHANGED <<disk, wait, watch, flow, creds, limits, overlap>>

Change(i, v) == [id |-> i, version |-> v]

\* Faulty variant: a credential that is no longer listed is not compared.
DiffOfListed(old, new) ==
    SetToSeq({Change(i, new[i]) : i \in {x \in Ids : new[x] # 0 /\ old[x] # new[x]}})

\* The changes that lead from the credentials known to those of a configuration.
Diff(old, new) == SetToSeq({Change(i, new[i]) : i \in {x \in Ids : old[x] # new[x]}})

\* refreshAuthState: the credentials of the configuration, which at the same
\* time get their limits (wireLimitsToLimiter) ...
Snapshot(r) ==
    /\ At(r, "snapshot")
    /\ reload' = [reload EXCEPT ![r].pc = "diff", ![r].cfg = watch.cfg]
    /\ limits' = limits \union {i \in Ids : watch.cfg[i] # 0}
    /\ UNCHANGED <<disk, mgmt, wait, watch, service, flow, creds, overlap>>

\* ... their difference from those known, under the watcher's mutex ...
Prepare(r) ==
    /\ At(r, "diff")
    /\ reload' = [reload EXCEPT ![r].pc = "enqueue", ![r].ups = Diff(watch.current, reload[r].cfg)]
    /\ watch' = [watch EXCEPT !.current = reload[r].cfg]
    /\ overlap' = (overlap \/ \E q \in Reloaders \ {r} : At(q, "enqueue"))
    /\ UNCHANGED <<disk, mgmt, wait, service, flow, creds, limits>>

\* The position of a key in the pending order.
Positions(s, i) == {k \in 1..Len(s) : s[k].id = i}

\* Faulty variant: the newer change goes to the front.
MergedFront(s, ups) == ups \o s

\* A change takes the place of the one that is pending for its credential.
Placed(s, u) ==
    LET P == Positions(s, u.id) IN
    IF P = {} THEN Append(s, u) ELSE [s EXCEPT ![CHOOSE k \in P : TRUE] = u]

Merged(s, ups) ==
    LET after[n \in 0..Len(ups)] == IF n = 0 THEN s ELSE Placed(after[n - 1], ups[n])
    IN  after[Len(ups)]

\* ... and dispatchAuthUpdates, after it: a newer change of a credential takes
\* the place of the pending one.
Enqueue(r) ==
    /\ At(r, "enqueue")
    /\ flow' = [flow EXCEPT !.pending = Merged(@, reload[r].ups)]
    /\ To(r, "final")
    /\ UNCHANGED <<disk, mgmt, wait, watch, service, creds, limits, overlap>>

\* The file is read a third time, for the hash to remember: LoadConfig may have
\* rewritten it.
Final(r) ==
    /\ At(r, "final")
    /\ watch' = [watch EXCEPT !.hash = IF disk = <<>> THEN reload[r].seen ELSE disk]
    /\ Done(r)
    /\ UNCHANGED <<disk, wait, service, flow, creds, limits, overlap>>

-----------------------------------------------------------------------------
(* The dispatcher and the consumer                                         *)

Upstream == <<disk, mgmt, wait, reload, watch, service, overlap>>

\* nextPendingBatch takes all that is pending ...
NextBatch ==
    /\ flow.batch = <<>> /\ flow.pending # <<>>
    /\ flow' = [flow EXCEPT !.batch = flow.pending, !.pending = <<>>]
    /\ UNCHANGED <<Upstream, creds, limits>>

\* ... and dispatchLoop sends it change by change.
Send ==
    /\ flow.batch # <<>> /\ Len(flow.queue) < QueueSize
    /\ flow' = [flow EXCEPT !.queue = Append(@, Head(flow.batch)), !.batch = Tail(@)]
    /\ UNCHANGED <<Upstream, creds, limits>>

\* coalesceAuthUpdates keeps the last change of a credential, at the place of
\* its first.
Coalesced(s) == Merged(<<>>, s)

\* consumeAuthUpdates drains the channel.
Take ==
    /\ flow.todo = <<>> /\ flow.queue # <<>>
    /\ flow' = [flow EXCEPT !.todo = Coalesced(flow.queue), !.queue = <<>>]
    /\ UNCHANGED <<Upstream, creds, limits>>

\* handleAuthUpdates: registers, updates or removes one credential, which takes
\* its limits with it (applyCoreAuthRemoval).
ApplyChange ==
    /\ flow.todo # <<>>
    /\ LET u == Head(flow.todo) IN
         /\ creds' = [creds EXCEPT ![u.id] = u.version]
         /\ limits' = IF u.version = 0 THEN limits \ {u.id} ELSE limits
    /\ flow' = [flow EXCEPT !.todo = Tail(@)]
    /\ UNCHANGED Upstream

-----------------------------------------------------------------------------
Reloading(r) ==
    \/ Read(r) \/ Load(r) \/ Clients(r) \/ Apply(r) \/ Snapshot(r)
    \/ Prepare(r) \/ Enqueue(r) \/ Final(r)

Starting ==
    \/ \E r \in Reloaders : TimerFires(r)
    \/ \E r \in Reloaders, g \in 1..MaxEdits : HookStarts(r, g)

Delivery == NextBatch \/ Send \/ Take \/ ApplyChange

Next ==
    \/ Edit \/ Put \/ Saved
    \/ Starting
    \/ \E r \in Reloaders : Reloading(r)
    \/ Delivery

\* Timers fire, goroutines run and a save that has begun is completed; nobody
\* has to change the configuration.
Fairness ==
    /\ WF_vars(Saved) /\ WF_vars(Starting)
    /\ \A r \in Reloaders : WF_vars(Reloading(r))
    /\ WF_vars(NextBatch \/ Send) /\ WF_vars(Take \/ ApplyChange)

Spec == Init /\ [][Next]_vars /\ Fairness

-----------------------------------------------------------------------------
(* Properties                                                              *)

\* The version that changes leave a credential with: that of the last, if any.
Word(s, i, version) ==
    LET P == Positions(s, i) IN
    IF P = {} THEN version ELSE s[CHOOSE k \in P : \A j \in P : j <= k].version

\* The version a credential has once all that is underway has been applied.
Arriving(i) ==
    Word(flow.pending, i, Word(flow.batch, i, Word(flow.queue, i, Word(flow.todo, i, creds[i]))))

\* Whatever is batched, merged and coalesced on the way, the changes underway
\* lead from the credentials in use to those the watcher believes in use, as
\* long as no two refreshes overtook each other before they enqueued.
LastWordCounts ==
    \/ overlap
    \/ \E r \in Reloaders : At(r, "enqueue")
    \/ \A i \in Ids : Arriving(i) = watch.current[i]

\* Unless two refreshes overtook each other, the credentials in use end up as
\* the watcher's.
CredentialsFollow == <>[](overlap \/ creds = watch.current)

\* config_reload.go promises "configuration hot reload": it "reloads clients
\* when the config changes".  Once the file is left alone, the service works
\* with what it says.  It does not hold (no run of the project repeats it): the
\* third read remembers the hash of a file that was not the one loaded.
FileComesIntoForce == <>[](disk = <<service>>)

\* usage-limits.md says that RemoveAllForAuth "cleans stale entries": in the end
\* every credential in use has the limits its configuration sets.
LimitsInForce == <>[](overlap \/ \A i \in Ids : creds[i] # 0 => i \in limits)
=============================================================================
