---------------------------- MODULE MouseFilter ----------------------------
(***************************************************************************)
(* WindowsOS/mouseDriver/viponMouse.c: a filter device that turns the Y    *)
(* axis upside down.  It can sit at two places of the mouse's stack:       *)
(*   "below" the class driver: it exchanges the callback in the connect    *)
(*           request, so that the port driver's DPC hands the reports to   *)
(*           FilterServiceCallback, which inverts them where they lie, in  *)
(*           the port driver's own queue, and calls the class driver;      *)
(*   "above" it (\Device\PointerClass0): it inverts what the reads it      *)
(*           passed down bring up.                                         *)
(* External are the port and the class driver, the reader of the mouse and *)
(* the PnP manager: the class driver takes as many reports as it has room  *)
(* for and leaves the others to the port driver, which offers them again;  *)
(* the one remove request comes at any time; the lower drivers hold it as  *)
(* long as they are at work for somebody, and from then on refuse whatever *)
(* is passed down to them and make no more calls.  The filter itself does  *)
(* not count who is inside it.                                             *)
(***************************************************************************)
EXTENDS Integers, Sequences

CONSTANTS
  Source,         \* the reports of the mouse: [absolute |-> BOOLEAN, y |-> Int]
  MaxY,           \* 0xFFFF, the largest absolute coordinate
  Room            \* size of the class driver's queue

ASSUME ReportAssumption ==
  /\ MaxY \in Nat /\ Room \in Nat \ {0}
  /\ Source \in Seq([absolute : BOOLEAN, y : Int])

VARIABLES
  place,          \* "below" or "above"
  dev,            \* the filter's device object
  upperConnectData,    \* its extension's copy of the class driver's callback
  service,        \* the callback that the port driver has been given
  portQueue,      \* the port driver's reports: [no, y], changed in place
  reported,       \* how many the mouse has made
  dpc, offered,   \* where the port driver's DPC is, how many reports it offers
  classQueue,     \* the reports that the class driver has taken
  read,           \* the read request: where it is
  systemBuffer,         \* and its SystemBuffer
  received,       \* what the reader got
  passing,        \* a request that the filter only passes on: where it is
  remove,         \* progress of the remove request
  refused         \* history: how often the class driver left each report,
                  \* modulo 2

port == <<service, portQueue, reported, dpc, offered>>
class == <<classQueue, refused>>
reader == <<read, systemBuffer, received>>
requests == <<passing, remove>>
mouseVars == <<place, dev, upperConnectData, port, class, reader, requests>>

MouseInit ==
  /\ place \in {"below", "above"}
  /\ dev = "none" /\ upperConnectData = "none" /\ service = "none"
  /\ portQueue = <<>> /\ reported = 0
  /\ dpc = "idle" /\ offered = 0
  /\ classQueue = <<>>
  /\ read = "none" /\ systemBuffer = <<>> /\ received = <<>>
  /\ passing = "none"
  /\ remove = "none"
  /\ refused = [k \in DOMAIN Source |-> 0]

(* The Y axis of one report turned around. *)
Inverted(r) == [r EXCEPT !.y = IF Source[r.no].absolute THEN MaxY - r.y ELSE -r.y]

(* The loops over MouseData and over pInputDataStart. *)
InvertAll(s, count) == [k \in DOMAIN s |-> IF k <= count THEN Inverted(s[k]) ELSE s[k]]

-----------------------------------------------------------------------------
(* The device is made and attached, or there is no device in the end: where
   the attachment fails it is deleted again. *)
AddDevice ==
  /\ dev = "none"
  /\ dev' \in {"attached", "failed"}
  /\ UNCHANGED <<place, upperConnectData, port, class, reader, requests>>

DispatchInternalDeviceControl ==
  /\ upperConnectData' = "class"
  /\ service' = "filter"

(* The class driver's connect request on its way to the port driver. *)
Connect ==
  /\ dev = "attached" /\ service = "none"
  /\ IF place = "below" THEN DispatchInternalDeviceControl
     ELSE service' = "class" /\ UNCHANGED upperConnectData
  /\ UNCHANGED <<place, dev, portQueue, reported, dpc, offered, class, reader, requests>>

(* External: the mouse moves. *)
Report ==
  /\ reported < Len(Source) /\ remove \notin {"stopped", "done"}
  /\ reported' = reported + 1
  /\ portQueue' = Append(portQueue, [no |-> reported + 1, y |-> Source[reported + 1].y])
  /\ UNCHANGED <<place, dev, upperConnectData, service, dpc, offered, class, reader, requests>>

(* External: the port driver's DPC calls the callback with what is queued. *)
Offer ==
  /\ dpc = "idle" /\ service # "none" /\ portQueue # <<>>
  /\ remove \notin {"stopped", "done"}
  /\ dpc' = service
  /\ offered' = Len(portQueue)
  /\ UNCHANGED <<place, dev, upperConnectData, service, portQueue, reported, class, reader, requests>>

(* Mutant: the last report of the array is left as it is. *)
FilterServiceCallbackShort ==
  /\ dpc = "filter"
  /\ portQueue' = InvertAll(portQueue, offered - 1)
  /\ dpc' = upperConnectData
  /\ UNCHANGED <<place, dev, upperConnectData, service, reported, offered, class, reader, requests>>

FilterServiceCallback ==
  /\ dpc = "filter"
  /\ portQueue' = InvertAll(portQueue, offered)
  /\ dpc' = upperConnectData
  /\ UNCHANGED <<place, dev, upperConnectData, service, reported, offered, class, reader, requests>>

(* External: the class driver takes what it has room for. *)
ClassService ==
  /\ dpc = "class"
  /\ LET free == Room - Len(classQueue)
         taken == IF free < offered THEN free ELSE offered
     IN /\ classQueue' = classQueue \o SubSeq(portQueue, 1, taken)
        /\ portQueue' = SubSeq(portQueue, taken + 1, Len(portQueue))
        /\ refused' = [k \in DOMAIN Source |->
             IF \E j \in taken + 1 .. offered : portQueue[j].no = k
             THEN 1 - refused[k] ELSE refused[k]]
  /\ dpc' = "idle" /\ offered' = 0
  /\ UNCHANGED <<place, dev, upperConnectData, service, reported, reader, requests>>

-----------------------------------------------------------------------------
(* What becomes of a request that is passed down: the lower drivers hold it, or
   refuse it once they are removed; pLowerDO of a deleted device is read from
   freed memory, and from there nothing need come back. *)
PassedDown(held) ==
  IF dev = "deleted" THEN {"none", "lost"}
  ELSE IF remove = "stopped" THEN {"none"} ELSE {held}

(* External: somebody reads.  Below the class driver the filter has no part in
   it; above, the read enters it. *)
ReadEnters ==
  /\ dev = "attached" /\ read = "none"
  /\ read' = IF place = "above" THEN "entered" ELSE "plain"
  /\ UNCHANGED <<place, dev, upperConnectData, port, class, systemBuffer, received, requests>>

(* The filter leaves its completion routine and passes it down. *)
DispatchRead ==
  /\ read = "entered"
  /\ read' \in PassedDown("routine")
  /\ UNCHANGED <<place, dev, upperConnectData, port, class, systemBuffer, received, requests>>

(* External: the class driver completes it with one report or more. *)
CompleteRead ==
  /\ read \in {"routine", "plain"} /\ classQueue # <<>>
  /\ \E k \in 1..Len(classQueue) :
       /\ systemBuffer' = SubSeq(classQueue, 1, k)
       /\ classQueue' = SubSeq(classQueue, k + 1, Len(classQueue))
  /\ read' = IF read = "routine" THEN "completing" ELSE "complete"
  /\ UNCHANGED <<place, dev, upperConnectData, port, refused, received, requests>>

(* External: it is cancelled or fails; the filter has asked for no call then. *)
CancelRead ==
  /\ read \in {"routine", "plain"}
  /\ read' = "none"
  /\ UNCHANGED <<place, dev, upperConnectData, port, class, systemBuffer, received, requests>>

MouseFilterInvertorYCompletion ==
  /\ read = "completing"
  /\ systemBuffer' = InvertAll(systemBuffer, Len(systemBuffer))
  /\ read' = "complete"
  /\ UNCHANGED <<place, dev, upperConnectData, port, class, received, requests>>

(* External: the reader gets its reports. *)
Receive ==
  /\ read = "complete"
  /\ received' = received \o systemBuffer
  /\ systemBuffer' = <<>> /\ read' = "none"
  /\ UNCHANGED <<place, dev, upperConnectData, port, class, requests>>

-----------------------------------------------------------------------------
(* External: a request that is not for this filter enters it. *)
RequestEnters ==
  /\ dev = "attached" /\ passing = "none"
  /\ passing' = "entered"
  /\ UNCHANGED <<place, dev, upperConnectData, port, class, reader, remove>>

(* It is passed down; nothing else happens to it. *)
DispatchThru ==
  /\ passing = "entered"
  /\ passing' \in PassedDown("below")
  /\ UNCHANGED <<place, dev, upperConnectData, port, class, reader, remove>>

(* External: the lower drivers have answered it. *)
RequestReturns ==
  /\ passing = "below"
  /\ passing' = "none"
  /\ UNCHANGED <<place, dev, upperConnectData, port, class, reader, remove>>

(* Mutant: the device is deleted before the request is passed down. *)
DispatchPnpDeletesFirst ==
  /\ dev = "attached" /\ remove = "none"
  /\ remove' = "passed"
  /\ dev' = "deleted"
  /\ UNCHANGED <<place, upperConnectData, port, class, reader, passing>>

(* The remove request, which comes once, enters the filter and is passed down,
   whatever else is in the filter or below it. *)
DispatchPnp ==
  /\ dev = "attached" /\ remove = "none"
  /\ remove' = "passed"
  /\ UNCHANGED <<place, dev, upperConnectData, port, class, reader, passing>>

(* External: the lower drivers, which have remove locks, return from it when no
   DPC runs, every read and request that they held has been answered and each
   completion routine has returned. *)
LowerRemoves ==
  /\ remove = "passed" /\ dpc = "idle"
  /\ read \notin {"routine", "completing"} /\ passing # "below"
  /\ remove' = "stopped"
  /\ UNCHANGED <<place, dev, upperConnectData, port, class, reader, passing>>

(* IoDetachDevice and IoDeleteDevice, once the request has come back. *)
DeleteDevice ==
  /\ remove = "stopped"
  /\ remove' = "done" /\ dev' = "deleted"
  /\ UNCHANGED <<place, upperConnectData, port, class, reader, passing>>

(* Nothing more happens where there is no filter. *)
Gone == dev \in {"failed", "deleted"} /\ UNCHANGED mouseVars

MouseNext ==
  \/ AddDevice \/ Connect \/ Report \/ Offer \/ FilterServiceCallback \/ ClassService
  \/ ReadEnters \/ DispatchRead \/ CompleteRead \/ CancelRead
  \/ MouseFilterInvertorYCompletion \/ Receive
  \/ RequestEnters \/ DispatchThru \/ RequestReturns
  \/ DispatchPnp \/ LowerRemoves \/ DeleteDevice \/ Gone

MouseSpec == MouseInit /\ [][MouseNext]_mouseVars
-----------------------------------------------------------------------------
MouseTypeOK ==
  /\ place \in {"below", "above"} /\ dev \in {"none", "failed", "attached", "deleted"}
  /\ service \in {"none", "filter", "class"} /\ upperConnectData \in {"none", "class"}
  /\ dpc \in {"idle", "filter", "class"} /\ offered \in 0..Len(portQueue)
  /\ reported \in 0..Len(Source) /\ Len(classQueue) <= Room
  /\ read \in {"none", "entered", "plain", "routine", "completing", "complete", "lost"}
  /\ passing \in {"none", "entered", "below", "lost"}
  /\ remove \in {"none", "passed", "stopped", "done"}

(* When the device is deleted, no DPC is in the filter's callback, no read that
   has its completion routine is left below, nor one on its way up through that
   routine, and no other request that it passed down.  The filter counts none of
   them: this rests on its deleting the device after the remove request has come
   back from drivers that do.  It says nothing of a request that has entered the
   filter and is not passed down yet: there is no remove lock, and it may find
   the device deleted. *)
DeletedIsLeft ==
  dev = "deleted" =>
    dpc # "filter" /\ read \notin {"routine", "completing"} /\ passing # "below"

(* The callback has somewhere to go: FilterServiceCallback only runs when the
   class driver's own callback has been saved. *)
CallbackIsKnown == dpc = "filter" => upperConnectData = "class"

MouseInv == MouseTypeOK /\ DeletedIsLeft /\ CallbackIsKnown

(* What the reader gets are the reports in the order of the mouse, each once and
   turned exactly once, at either place and however the arrays were cut.  The one
   exception: below the class driver a report that this one left in the port
   driver's queue is turned again with each offer. *)
UpsideDown ==
  \A k \in DOMAIN received :
    LET r == received[k]
        raw == [no |-> r.no, y |-> Source[r.no].y]
        again == place = "below" /\ refused[r.no] = 1
    IN r.no = k /\ r = IF again THEN raw ELSE Inverted(raw)

=============================================================================
