----------------------------- MODULE RingBuffer -----------------------------
(***************************************************************************)
(* The pictures on disk, plugins/output_file/output_file.c: worker_thread  *)
(* saves a picture under a name made of the local time in seconds and a    *)
(* counter, and maintain_ringbuffer deletes the pictures whose names sort  *)
(* first.  The folder outlives the process; the counter does not.          *)
(***************************************************************************)
EXTENDS Integers, FiniteSets

CONSTANTS
    Rings,          \* the settings [size, exceed] to choose from; size -1: not set
    Widen,          \* the first counter with more digits than "%09llu" pads to
    MaxTime,        \* bound: seconds
    MaxSaves,       \* bound: pictures saved
    MaxFaults       \* bound: crashes and failures of the file system

ASSUME RingAssumption ==
    /\ \A r \in Rings : r.size \in Int /\ r.exceed \in Nat
    /\ {Widen, MaxTime, MaxSaves, MaxFaults} \subseteq Nat

VARIABLES
    ring,           \* ringbuffer_size and ringbuffer_exceed
    rpc, counter,   \* worker_thread
    files,          \* the folder: [time, counter, saved], saved is when, as a serial number
    namelist,       \* the pictures maintain_ringbuffer has decided to delete
    now,            \* local time
    saves, faults,  \* pictures saved, faults so far
    lost,           \* history: the latest picture that maintain_ringbuffer deleted
    misnamed,       \* history: names may not sort by age
    spared          \* history: the pictures that could not be deleted

ringVars == <<ring, rpc, counter, files, namelist, now, saves, faults, lost, misnamed, spared>>

RingInit ==
    /\ ring \in Rings
    /\ rpc = "wait" /\ counter = 0
    /\ files = {} /\ namelist = {} /\ now = 0
    /\ saves = 0 /\ faults = 0 /\ lost = 0 /\ misnamed = FALSE /\ spared = {}

-----------------------------------------------------------------------------
\* alphasort: by time, then by the digits of the counter, of which a longer one begins
\* with a 1 and so comes before the ones just below it.
Before(f, g) ==
    \/ f.time < g.time
    \/ /\ f.time = g.time
       /\ IF (f.counter < Widen) = (g.counter < Widen) THEN f.counter < g.counter
          ELSE f.counter > g.counter

\* Mutant: the last names of the list are deleted.
ExcessNewest(size) ==
    {f \in files : Cardinality({g \in files : Before(f, g)}) < Cardinality(files) - size}

\* Mutant: one too many.
ExcessOneMore(size) ==
    {f \in files : Cardinality({g \in files : Before(g, f)}) <= Cardinality(files) - size}

\* The first n - size names.
Excess(size) ==
    {f \in files : Cardinality({g \in files : Before(g, f)}) < Cardinality(files) - size}

\* Mutant: the first picture after a start does not count.
DueNotFirst(n) == ring.exceed <= 0 \/ n % (ring.exceed + 1) = 0

Due(n) == ring.exceed <= 0 \/ n = 1 \/ n % (ring.exceed + 1) = 0

\* The file of that name is created or truncated.
Create ==
    LET named(f) == f.time = now /\ f.counter = counter
    IN  /\ files' = {f \in files : ~named(f)}
                       \cup {[time |-> now, counter |-> counter, saved |-> saves + 1]}
        /\ saves' = saves + 1
        /\ misnamed' = \/ misnamed
                       \/ counter >= Widen /\ \E f \in files : f.time = now /\ f.counter < Widen

\* A frame: name it, open the file, write it, run the command.
Save ==
    /\ rpc = "wait" /\ saves < MaxSaves
    /\ Create
    /\ counter' = counter + 1
    /\ rpc' = IF Due(counter') /\ ring.size >= 0 THEN "scan" ELSE "wait"
    /\ UNCHANGED <<ring, namelist, now, faults, lost, spared>>

\* A failed open leaves no file, a failed write an empty one; either ends the thread.
SaveFails ==
    /\ rpc = "wait" /\ saves < MaxSaves /\ faults < MaxFaults
    /\ Create \/ UNCHANGED <<files, saves, misnamed>>
    /\ counter' = counter + 1
    /\ rpc' = "ended"
    /\ faults' = faults + 1
    /\ UNCHANGED <<ring, namelist, now, lost, spared>>

\* Mutant: a loop that tests after each unlink, and so begins with an empty list too.
ScanDo ==
    /\ rpc = "scan"
    /\ \/ namelist' = Excess(ring.size) /\ UNCHANGED <<faults, spared>>
       \/ /\ faults < MaxFaults
          /\ faults' = faults + 1 /\ spared' = spared \cup Excess(ring.size)
          /\ UNCHANGED namelist
    /\ rpc' = "unlink"
    /\ UNCHANGED <<ring, counter, files, now, saves, lost, misnamed>>

\* scandir, or nothing if it fails.
Scan ==
    /\ rpc = "scan"
    /\ \/ namelist' = Excess(ring.size) /\ UNCHANGED <<faults, spared>>
       \/ /\ faults < MaxFaults
          /\ faults' = faults + 1 /\ spared' = spared \cup Excess(ring.size)
          /\ UNCHANGED namelist
    /\ rpc' = IF namelist' = {} THEN "wait" ELSE "unlink"
    /\ UNCHANGED <<ring, counter, files, now, saves, lost, misnamed>>

\* unlink of the next name in the list; a failure is only reported.
Unlink(ok) ==
    /\ rpc = "unlink"
    /\ LET f == CHOOSE f \in namelist : \A g \in namelist \ {f} : Before(f, g)
       IN  /\ namelist' = namelist \ {f}
           /\ \/ /\ ok
                 /\ files' = files \ {f}
                 /\ lost' = IF f.saved > lost THEN f.saved ELSE lost
                 /\ UNCHANGED <<faults, spared>>
              \/ /\ ~ok /\ faults < MaxFaults
                 /\ faults' = faults + 1 /\ spared' = spared \cup {f}
                 /\ UNCHANGED <<files, lost>>
    /\ rpc' = IF namelist' = {} THEN "wait" ELSE "unlink"
    /\ UNCHANGED <<ring, counter, now, saves, misnamed>>

\* The program is stopped or dies at any point and is started again, with any setting;
\* its names sort by age only if this is not the second of an earlier picture.
Restart ==
    /\ faults < MaxFaults
    /\ faults' = faults + 1
    /\ ring' \in Rings
    /\ rpc' = "wait" /\ counter' = 0 /\ namelist' = {}
    /\ misnamed' = (misnamed \/ \E f \in files : f.time = now)
    /\ UNCHANGED <<files, now, saves, lost, spared>>

\* Time passes; local time can also be set back.
Clock ==
    \/ /\ now < MaxTime
       /\ now' = now + 1
       /\ UNCHANGED <<ring, rpc, counter, files, namelist, saves, faults, lost, misnamed, spared>>
    \/ /\ now > 0 /\ faults < MaxFaults
       /\ now' = now - 1
       /\ faults' = faults + 1
       /\ misnamed' = TRUE
       /\ UNCHANGED <<ring, rpc, counter, files, namelist, saves, lost, spared>>

RingNext ==
    Save \/ SaveFails \/ Scan \/ (\E ok \in BOOLEAN : Unlink(ok)) \/ Restart \/ Clock

\* The plugin by itself.
RingSpec == RingInit /\ [][RingNext]_ringVars

-----------------------------------------------------------------------------
\* Type invariant: maintain_ringbuffer deletes while there is a picture of the folder left
\* in its list, and no longer.
RingTypeOK ==
    /\ ring \in Rings
    /\ rpc \in {"wait", "scan", "unlink", "ended"}
    /\ counter \in 0 .. MaxSaves + MaxFaults
    /\ namelist \subseteq files
    /\ rpc = "unlink" <=> namelist # {}
    /\ faults \in 0 .. MaxFaults

\* "max number of pictures to hold", "allow ringbuffer to exceed limit by this amount":
\* once a picture has been saved since the start, and between two pictures, the folder
\* holds at most size + exceed, whatever an earlier run left in it, besides those that
\* could not be deleted.
RingHolds ==
    rpc = "wait" /\ counter > 0 /\ ring.size >= 0
        => Cardinality(files \ spared) <= ring.size + ring.exceed

\* "delete oldest files, just keep size most recent files": at every moment, of a
\* clean-up too, every picture in the folder that could be deleted is newer than every
\* picture deleted, unless local time was set back, the program restarted within the
\* second of a picture, or the counter outgrew its digits within one.
NewestKept ==
    ~misnamed => \A f \in files \ spared : f.saved > lost

\* Under the same conditions the picture just saved is there when the thread waits for
\* the next; with size 0, which output_init announces as "no ringbuffer", it is not.
LatestKept ==
    rpc = "wait" /\ counter > 0 /\ ring.size # 0 /\ ~misnamed
        => \E f \in files : f.saved = saves
=============================================================================
