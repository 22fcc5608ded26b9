------------------------------ MODULE CommandSets ------------------------------
(***************************************************************************)
(* The payload classes of the command sets (commands/*.py) and the         *)
(* registry of commands (commands/registry.py).  A command class and its   *)
(* response class are one definition, named for the command set and the    *)
(* command; the entry classes they use are spelled out in place.           *)
(***************************************************************************)
EXTENDS Codec, TLC

Booleans(n) == [k \in 1..n |-> Boolean]

\* COMMAND_SET, COMMAND, the command's payload, and its response's if it has one.
Command(set, cmd, payload, reply) ==
  [set |-> set, cmd |-> cmd, payload |-> payload, reply |-> reply,
   replied |-> TRUE]
CommandWithoutReply(set, cmd, payload) ==
  [Command(set, cmd, payload, <<>>) EXCEPT !.replied = FALSE]

------------------------------------------------------------------------------
(* Event kinds (event.py).  Every event has its kind and a request id.      *)

VMStartEvent == <<Int32, ThreadID>>
SingleStepEvent == <<Int32, ThreadID, Location>>
BreakpointEvent == <<Int32, ThreadID, Location>>
MethodEntryEvent == <<Int32, ThreadID, Location>>
MethodExitEvent == <<Int32, ThreadID, Location>>
MethodExitWithReturnValueEvent == <<Int32, ThreadID, Location, Value>>
MonitorContendedEnterEvent == <<Int32, ThreadID, TaggedObject, Location>>
MonitorContendedEnteredEvent == <<Int32, ThreadID, TaggedObject, Location>>
MonitorWaitEvent == <<Int32, ThreadID, TaggedObject, Location, Int64>>
MonitorWaitedEvent == <<Int32, ThreadID, TaggedObject, Location, Boolean>>
ExceptionEvent == <<Int32, ThreadID, Location, TaggedObject, Location>>
ThreadStartEvent == <<Int32, ThreadID>>
ThreadDeathEvent == <<Int32, ThreadID>>
ClassPrepareEvent ==
  <<Int32, ThreadID, TypeTag, ReferenceTypeID, String, ClassStatus>>
ClassUnloadEvent == <<Int32, String>>
FieldAccessEvent ==
  <<Int32, ThreadID, Location, TypeTag, ReferenceTypeID, FieldID,
    TaggedObject>>
FieldModificationEvent ==
  <<Int32, ThreadID, Location, TypeTag, ReferenceTypeID, FieldID,
    TaggedObject, Value>>
VMDeathEvent == <<Int32>>

\* _EVENT_CLASSES.  The other members of JdwpEventKind have no class.
EventClasses ==
  90 :> VMStartEvent @@ 1 :> SingleStepEvent @@ 2 :> BreakpointEvent @@
  40 :> MethodEntryEvent @@ 41 :> MethodExitEvent @@
  42 :> MethodExitWithReturnValueEvent @@ 43 :> MonitorContendedEnterEvent @@
  44 :> MonitorContendedEnteredEvent @@ 45 :> MonitorWaitEvent @@
  46 :> MonitorWaitedEvent @@ 4 :> ExceptionEvent @@ 6 :> ThreadStartEvent @@
  7 :> ThreadDeathEvent @@ 8 :> ClassPrepareEvent @@ 9 :> ClassUnloadEvent @@
  20 :> FieldAccessEvent @@ 21 :> FieldModificationEvent @@ 99 :> VMDeathEvent
AnEvent == Switch(EventClasses)
------------------------------------------------------------------------------
(* Modifiers of event requests (event_request.py)                           *)

CountModifier == <<Int32>>
ConditionalModifier == <<Int32>>
ThreadOnlyModifier == <<ObjectID>>
ClassOnlyModifier == <<ReferenceTypeID>>
ClassMatchModifier == <<String>>
ClassExcludeModifier == <<String>>
LocationOnlyModifier == <<Location>>
ExceptionOnlyModifier == <<ReferenceTypeID, Boolean, Boolean>>
FieldOnlyModifier == <<ReferenceTypeID, FieldID>>
StepModifier == <<ObjectID, Int32, Int32>>
InstanceOnlyModifier == <<ObjectID>>
PlatformThreadsOnlyModifier == <<>>

\* _MODIFIER_CLASSES
ModifierClasses ==
  1 :> CountModifier @@ 2 :> ConditionalModifier @@ 3 :> ThreadOnlyModifier @@
  4 :> ClassOnlyModifier @@ 5 :> ClassMatchModifier @@
  6 :> ClassExcludeModifier @@ 7 :> LocationOnlyModifier @@
  8 :> ExceptionOnlyModifier @@ 9 :> FieldOnlyModifier @@ 10 :> StepModifier
  @@ 11 :> InstanceOnlyModifier @@ 14 :> PlatformThreadsOnlyModifier
AModifier == Switch(ModifierClasses)
------------------------------------------------------------------------------
(* Array regions (array_reference.py)                                       *)

\* Objects carry a tag each, other values do not.
ArrayRegion ==
  Switch([t \in Tags |->
    IF t \in ObjectTags THEN <<List(<<Value>>)>> ELSE <<List(Untagged[t])>>])

\* The tag of the values to set is not written; the reader has no attribute
\* array_element_tag, and takes INT.
UntaggedRegion == Implied([t \in Tags |-> <<List(Untagged[t])>>], TagInt)
------------------------------------------------------------------------------
(* Command set 1 (vm.py)                                                    *)

VirtualMachineVersion ==
  Command(1, 1, <<>>, <<String, Int32, Int32, String, String>>)
VirtualMachineClassesBySignature ==
  Command(1, 2, <<String>>, <<List(<<TypeTag, ReferenceTypeID, ClassStatus>>)>>)
VirtualMachineAllClasses ==
  Command(1, 3, <<>>, <<List(<<TypeTag, ReferenceTypeID, String,
    ClassStatus>>)>>)
VirtualMachineAllThreads == Command(1, 4, <<>>, <<List(<<ThreadID>>)>>)
VirtualMachineTopLevelThreadGroups ==
  Command(1, 5, <<>>, <<List(<<ThreadGroupID>>)>>)
VirtualMachineDispose == Command(1, 6, <<>>, <<>>)
VirtualMachineIDSizes ==
  Command(1, 7, <<>>, <<Int32, Int32, Int32, Int32, Int32>>)
VirtualMachineSuspend == Command(1, 8, <<>>, <<>>)
VirtualMachineResume == Command(1, 9, <<>>, <<>>)
VirtualMachineExit == Command(1, 10, <<Int32>>, <<>>)
VirtualMachineCreateString == Command(1, 11, <<String>>, <<StringID>>)
VirtualMachineCapabilities == Command(1, 12, <<>>, Booleans(7))
VirtualMachineClassPaths ==
  Command(1, 13, <<>>, <<String, List(<<String>>), List(<<String>>)>>)
VirtualMachineDisposeObjects ==
  Command(1, 14, <<List(<<ObjectID, Int32>>)>>, <<>>)
VirtualMachineHoldEvents == Command(1, 15, <<>>, <<>>)
VirtualMachineReleaseEvents == Command(1, 16, <<>>, <<>>)
VirtualMachineCapabilitiesNew == Command(1, 17, <<>>, Booleans(32))
VirtualMachineRedefineClasses ==
  Command(1, 18, <<List(<<ReferenceTypeID, List(<<Byte>>)>>)>>, <<>>)
VirtualMachineSetDefaultStratum == Command(1, 19, <<String>>, <<>>)
VirtualMachineAllClassesWithGeneric ==
  Command(1, 20, <<>>, <<List(<<TypeTag, ReferenceTypeID, String, String,
    ClassStatus>>)>>)
VirtualMachineInstanceCounts ==
  Command(1, 21, <<List(<<ReferenceTypeID>>)>>, <<List(<<Int64>>)>>)
------------------------------------------------------------------------------
(* Command set 2 (reference_type.py)                                        *)

ReferenceTypeSignature == Command(2, 1, <<ReferenceTypeID>>, <<String>>)
ReferenceTypeClassLoader ==
  Command(2, 2, <<ReferenceTypeID>>, <<ClassLoaderID>>)
ReferenceTypeModifiers == Command(2, 3, <<ReferenceTypeID>>, <<Int32>>)
ReferenceTypeFields ==
  Command(2, 4, <<ReferenceTypeID>>, <<List(<<FieldID, String, String,
    Int32>>)>>)
ReferenceTypeMethods ==
  Command(2, 5, <<ReferenceTypeID>>, <<List(<<MethodID, String, String,
    Int32>>)>>)
ReferenceTypeGetValues ==
  Command(2, 6, <<ReferenceTypeID, List(<<FieldID>>)>>, <<List(<<Value>>)>>)
ReferenceTypeSourceFile == Command(2, 7, <<ReferenceTypeID>>, <<String>>)
ReferenceTypeNestedTypes ==
  Command(2, 8, <<ReferenceTypeID>>, <<List(<<TypeTag, ReferenceTypeID>>)>>)
ReferenceTypeStatus == Command(2, 9, <<ReferenceTypeID>>, <<ClassStatus>>)
ReferenceTypeInterfaces ==
  Command(2, 10, <<ReferenceTypeID>>, <<List(<<InterfaceID>>)>>)
ReferenceTypeClassObject ==
  Command(2, 11, <<ReferenceTypeID>>, <<ClassObjectID>>)
ReferenceTypeSourceDebugExtension ==
  Command(2, 12, <<ReferenceTypeID>>, <<String>>)
ReferenceTypeSignatureWithGeneric ==
  Command(2, 13, <<ReferenceTypeID>>, <<String, String>>)
ReferenceTypeFieldsWithGeneric ==
  Command(2, 14, <<ReferenceTypeID>>, <<List(<<FieldID, String, String,
    String, Int32>>)>>)
ReferenceTypeMethodsWithGeneric ==
  Command(2, 15, <<ReferenceTypeID>>, <<List(<<MethodID, String, String,
    String, Int32>>)>>)
ReferenceTypeInstances ==
  Command(2, 16, <<ReferenceTypeID, Int32>>, <<List(<<TaggedObject>>)>>)
ReferenceTypeClassFileVersion ==
  Command(2, 17, <<ReferenceTypeID>>, <<Int32, Int32>>)
ReferenceTypeConstantPool ==
  Command(2, 18, <<ReferenceTypeID>>, <<List(<<Byte>>)>>)
------------------------------------------------------------------------------
(* Command set 3 (class_type.py)                                            *)

ClassTypeSuperclass == Command(3, 1, <<ClassID>>, <<ClassID>>)
ClassTypeSetValues ==
  Command(3, 2, <<ClassID, List(<<FieldID, Value>>)>>, <<>>)
ClassTypeInvokeMethod ==
  Command(3, 3, <<ClassID, ThreadID, MethodID, List(<<Value>>),
    InvokeOptions>>, <<Value, TaggedObject>>)
ClassTypeNewInstance ==
  Command(3, 4, <<ClassID, ThreadID, MethodID, List(<<Value>>),
    InvokeOptions>>, <<TaggedObject, TaggedObject>>)
------------------------------------------------------------------------------
(* Command set 4 (array_type.py)                                            *)

ArrayTypeNewInstance ==
  Command(4, 1, <<ArrayTypeID, Int32>>, <<ArrayObjectID>>)
------------------------------------------------------------------------------
(* Command set 5 (interface_type.py)                                        *)

InterfaceTypeInvokeMethod ==
  Command(5, 1, <<InterfaceID, ThreadID, MethodID, List(<<Value>>),
    InvokeOptions>>, <<Value, TaggedObject>>)
------------------------------------------------------------------------------
(* Command set 6 (method.py)                                                *)

MethodLineTable ==
  Command(6, 1, <<ReferenceTypeID, MethodID>>, <<Int64, Int64, List(<<Int64,
    Int32>>)>>)
MethodVariableTable ==
  Command(6, 2, <<ReferenceTypeID, MethodID>>, <<Int32, List(<<Int64,
    String, String, Int32, Int32>>)>>)
MethodBytecodes ==
  Command(6, 3, <<ReferenceTypeID, MethodID>>, <<List(<<Byte>>)>>)
MethodIsObsolete == Command(6, 4, <<ReferenceTypeID, MethodID>>, <<Boolean>>)
MethodVariableTableWithGeneric ==
  Command(6, 5, <<ReferenceTypeID, MethodID>>, <<Int32, List(<<Int64,
    String, String, String, Int32, Int32>>)>>)
------------------------------------------------------------------------------
(* Command set 9 (object_reference.py)                                      *)

ObjectReferenceReferenceType ==
  Command(9, 1, <<ObjectID>>, <<TypeTag, ReferenceTypeID>>)
ObjectReferenceGetValues ==
  Command(9, 2, <<ObjectID, List(<<FieldID>>)>>, <<List(<<Value>>)>>)
ObjectReferenceSetValues ==
  Command(9, 3, <<ObjectID, List(<<FieldID, Value>>)>>, <<>>)
ObjectReferenceMonitorInfo ==
  Command(9, 5, <<ObjectID>>, <<ThreadID, Int32, List(<<ThreadID>>)>>)
ObjectReferenceInvokeMethod ==
  Command(9, 6, <<ObjectID, ThreadID, ClassID, MethodID, List(<<Value>>),
    InvokeOptions>>, <<Value, TaggedObject>>)
ObjectReferenceDisableCollection == Command(9, 7, <<ObjectID>>, <<>>)
ObjectReferenceEnableCollection == Command(9, 8, <<ObjectID>>, <<>>)
ObjectReferenceIsCollected == Command(9, 9, <<ObjectID>>, <<Boolean>>)
ObjectReferenceReferringObjects ==
  Command(9, 10, <<ObjectID, Int32>>, <<List(<<TaggedObject>>)>>)
------------------------------------------------------------------------------
(* Command set 10 (string_reference.py)                                     *)

StringReferenceValue == Command(10, 1, <<StringID>>, <<String>>)
------------------------------------------------------------------------------
(* Command set 11 (thread_reference.py)                                     *)

ThreadReferenceName == Command(11, 1, <<ThreadID>>, <<String>>)
ThreadReferenceSuspend == Command(11, 2, <<ThreadID>>, <<>>)
ThreadReferenceResume == Command(11, 3, <<ThreadID>>, <<>>)
ThreadReferenceStatus ==
  Command(11, 4, <<ThreadID>>, <<ThreadStatus, SuspendStatus>>)
ThreadReferenceThreadGroup == Command(11, 5, <<ThreadID>>, <<ThreadGroupID>>)
ThreadReferenceFrames ==
  Command(11, 6, <<ThreadID, Int32, Int32>>, <<List(<<FrameID,
    Location>>)>>)
ThreadReferenceFrameCount == Command(11, 7, <<ThreadID>>, <<Int32>>)
ThreadReferenceOwnedMonitors ==
  Command(11, 8, <<ThreadID>>, <<List(<<TaggedObject>>)>>)
ThreadReferenceCurrentContendedMonitor ==
  Command(11, 9, <<ThreadID>>, <<TaggedObject>>)
ThreadReferenceStop == Command(11, 10, <<ThreadID, ObjectID>>, <<>>)
ThreadReferenceInterrupt == Command(11, 11, <<ThreadID>>, <<>>)
ThreadReferenceSuspendCount == Command(11, 12, <<ThreadID>>, <<Int32>>)
ThreadReferenceOwnedMonitorsStackDepthInfo ==
  Command(11, 13, <<ThreadID>>, <<List(<<TaggedObject, Int32>>)>>)
ThreadReferenceForceEarlyReturn == Command(11, 14, <<ThreadID, Value>>, <<>>)
------------------------------------------------------------------------------
(* Command set 12 (thread_group_reference.py)                               *)

ThreadGroupReferenceName == Command(12, 1, <<ThreadGroupID>>, <<String>>)
ThreadGroupReferenceParent ==
  Command(12, 2, <<ThreadGroupID>>, <<ThreadGroupID>>)
ThreadGroupReferenceChildren ==
  Command(12, 3, <<ThreadGroupID>>, <<List(<<ThreadID>>),
    List(<<ThreadGroupID>>)>>)
------------------------------------------------------------------------------
(* Command set 13 (array_reference.py)                                      *)

ArrayReferenceLength == Command(13, 1, <<ArrayObjectID>>, <<Int32>>)
ArrayReferenceGetValues ==
  Command(13, 2, <<ArrayObjectID, Int32, Int32>>, <<ArrayRegion>>)
ArrayReferenceSetValues ==
  Command(13, 3, <<ArrayObjectID, Int32, UntaggedRegion>>, <<>>)
------------------------------------------------------------------------------
(* Command set 14 (class_loader_reference.py)                               *)

ClassLoaderReferenceVisibleClasses ==
  Command(14, 1, <<ClassLoaderID>>, <<List(<<TypeTag, ReferenceTypeID>>)>>)
------------------------------------------------------------------------------
(* Command set 15 (event_request.py)                                        *)

EventRequestSet ==
  Command(15, 1, <<EventKind, SuspendPolicy, List(<<AModifier>>)>>,
    <<Int32>>)
EventRequestClear == Command(15, 2, <<EventKind, Int32>>, <<>>)
EventRequestClearAllBreakpoints == Command(15, 3, <<>>, <<>>)
------------------------------------------------------------------------------
(* Command set 16 (stack_frame.py)                                          *)

StackFrameGetValues ==
  Command(16, 1, <<ThreadID, FrameID, List(<<Int32, Tag>>)>>,
    <<List(<<Value>>)>>)
StackFrameSetValues ==
  Command(16, 2, <<ThreadID, FrameID, List(<<Int32, Value>>)>>, <<>>)
StackFrameThisObject ==
  Command(16, 3, <<ThreadID, FrameID>>, <<TaggedObject>>)
StackFramePopFrames == Command(16, 4, <<ThreadID, FrameID>>, <<>>)
------------------------------------------------------------------------------
(* Command set 17 (class_object_reference.py)                               *)

ClassObjectReferenceReflectedType ==
  Command(17, 1, <<ObjectID>>, <<TypeTag, ReferenceTypeID>>)
------------------------------------------------------------------------------
(* Command set 64 (event.py)                                                *)

EventComposite ==
  CommandWithoutReply(64, 100, <<SuspendPolicy, List(<<AnEvent>>)>>)
------------------------------------------------------------------------------
(* The registry (registry.py)                                               *)

\* What @register_command has put into the two dictionaries.
Registry ==
  <<VirtualMachineVersion, VirtualMachineClassesBySignature,
     VirtualMachineAllClasses, VirtualMachineAllThreads,
     VirtualMachineTopLevelThreadGroups, VirtualMachineDispose,
     VirtualMachineIDSizes, VirtualMachineSuspend, VirtualMachineResume,
     VirtualMachineExit, VirtualMachineCreateString,
     VirtualMachineCapabilities, VirtualMachineClassPaths,
     VirtualMachineDisposeObjects, VirtualMachineHoldEvents,
     VirtualMachineReleaseEvents, VirtualMachineCapabilitiesNew,
     VirtualMachineRedefineClasses, VirtualMachineSetDefaultStratum,
     VirtualMachineAllClassesWithGeneric, VirtualMachineInstanceCounts,
     ReferenceTypeSignature, ReferenceTypeClassLoader,
     ReferenceTypeModifiers, ReferenceTypeFields, ReferenceTypeMethods,
     ReferenceTypeGetValues, ReferenceTypeSourceFile,
     ReferenceTypeNestedTypes, ReferenceTypeStatus,
     ReferenceTypeInterfaces, ReferenceTypeClassObject,
     ReferenceTypeSourceDebugExtension, ReferenceTypeSignatureWithGeneric,
     ReferenceTypeFieldsWithGeneric, ReferenceTypeMethodsWithGeneric,
     ReferenceTypeInstances, ReferenceTypeClassFileVersion,
     ReferenceTypeConstantPool, ClassTypeSuperclass, ClassTypeSetValues,
     ClassTypeInvokeMethod, ClassTypeNewInstance, ArrayTypeNewInstance,
     InterfaceTypeInvokeMethod, MethodLineTable, MethodVariableTable,
     MethodBytecodes, MethodIsObsolete, MethodVariableTableWithGeneric,
     ObjectReferenceReferenceType, ObjectReferenceGetValues,
     ObjectReferenceSetValues, ObjectReferenceMonitorInfo,
     ObjectReferenceInvokeMethod, ObjectReferenceDisableCollection,
     ObjectReferenceEnableCollection, ObjectReferenceIsCollected,
     ObjectReferenceReferringObjects, StringReferenceValue,
     ThreadReferenceName, ThreadReferenceSuspend, ThreadReferenceResume,
     ThreadReferenceStatus, ThreadReferenceThreadGroup,
     ThreadReferenceFrames, ThreadReferenceFrameCount,
     ThreadReferenceOwnedMonitors, ThreadReferenceCurrentContendedMonitor,
     ThreadReferenceStop, ThreadReferenceInterrupt,
     ThreadReferenceSuspendCount,
     ThreadReferenceOwnedMonitorsStackDepthInfo,
     ThreadReferenceForceEarlyReturn, ThreadGroupReferenceName,
     ThreadGroupReferenceParent, ThreadGroupReferenceChildren,
     ArrayReferenceLength, ArrayReferenceGetValues,
     ArrayReferenceSetValues, ClassLoaderReferenceVisibleClasses,
     EventRequestSet, EventRequestClear, EventRequestClearAllBreakpoints,
     StackFrameGetValues, StackFrameSetValues, StackFrameThisObject,
     StackFramePopFrames, ClassObjectReferenceReflectedType,
     EventComposite>>

\* get_command_class: the class registered last under the two numbers.
GetCommandClass(set, cmd) ==
  Registry[SelectLastInSeq(Registry, LAMBDA c : c.set = set /\ c.cmd = cmd)]
==============================================================================
