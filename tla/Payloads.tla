-------------------------------- MODULE Payloads --------------------------------
(***************************************************************************)
(* Payloads on their way: one side of a JDWP session turns the fields of a *)
(* command or of a response into bytes (to_bytes of commands/base.py), the *)
(* other finds the class that reads them in the registry and turns them    *)
(* back (from_bytes).  The VM has its id sizes from the start; this side   *)
(* begins with the default ones and adopts the VM's when it reads the      *)
(* response of VirtualMachine.IDSizes (connection.py, proxy.py).           *)
(*                                                                         *)
(* Payloads come one after the other: how packets overlap is the business  *)
(* of SimpleConnection and Proxy.                                          *)
(***************************************************************************)
EXTENDS CommandSets

CONSTANTS
  VmSizes,    \* the id sizes of the VMs considered, unsupported ones among them
  CutSizes,   \* those of the VMs whose payloads may lack bytes at their end
  Seeds,      \* numbers that vary the fields of a payload
  Choice(_, _) \* the fields considered for a layout and a seed

ASSUME PayloadsAssumption ==
  /\ VmSizes \subseteq [IdKinds -> Int]
  /\ \A s \in VmSizes, k \in IdKinds : IsWord(s[k])
  /\ CutSizes \subseteq VmSizes

\* The Layers reach all that the classes hold, and no two classes are
\* registered under the same numbers.
ASSUME RegistryAssumption ==
  /\ \A n \in DOMAIN Registry, part \in {"payload", "reply"} :
       KnownPayload(Registry[n][part])
  /\ \A m, n \in DOMAIN Registry :
       Registry[m].set = Registry[n].set /\ Registry[m].cmd = Registry[n].cmd => m = n

\* Payloads hold what the annotations of their classes allow.
ASSUME ChoiceAssumption ==
  \A n \in DOMAIN Registry, part \in {"payload", "reply"}, s \in Seeds :
    FitsPayload(Registry[n][part], Choice(Registry[n][part], s))

VARIABLES
  sizes,    \* the VM's id sizes
  spec,     \* this side's: spec of the connection or the proxy session
  phase,    \* "idle", "written" or "done"
  payload,  \* set, cmd, part ("payload" or "reply") and fields of what was sent
  data,     \* the bytes on the wire
  how,      \* whether they arrive "whole", "cut" or "extended"
  result    \* what reading, or writing, came to

vars == <<sizes, spec, phase, payload, data, how, result>>

\* The response of IDSizes says what the sizes are.
FieldsOf(c, part, s) ==
  IF c = VirtualMachineIDSizes /\ part = "reply"
  THEN <<sizes.field, sizes.method, sizes.object, sizes.referenceType,
         sizes.frame>>
  ELSE Choice(c[part], s)

------------------------------------------------------------------------------

NoPayload == [set |-> 0, cmd |-> 0, part |-> "payload", fields |-> <<>>]
Layout == GetCommandClass(payload.set, payload.cmd)[payload.part]

\* The debugger sends commands; the VM sends responses and events.
FromVm(set, part) == part = "reply" \/ set = EventComposite.set
SizesOf(fromVm) == IF fromVm THEN sizes ELSE spec
WriterSizes == SizesOf(FromVm(payload.set, payload.part))
ReaderSizes == SizesOf(~FromVm(payload.set, payload.part))

Init ==
  /\ sizes \in VmSizes
  /\ spec = DefaultSizes
  /\ phase = "idle"
  /\ payload = NoPayload
  /\ data = <<>>
  /\ how = "whole"
  /\ result = Raise

\* to_bytes.  A VM whose id sizes this side does not support is considered
\* up to its response to IDSizes.
Serialize(c, part, s) ==
  LET fields == FieldsOf(c, part, s)
      bytes == Write(c[part], fields, SizesOf(FromVm(c.set, part)))
  IN  /\ phase = "idle"
      /\ part = "reply" => c.replied
      /\ Supported(sizes) \/ c = VirtualMachineIDSizes
      /\ payload' = [set |-> c.set, cmd |-> c.cmd, part |-> part, fields |-> fields]
      /\ data' = bytes
      /\ phase' = IF Contains(bytes, Raised) THEN "done" ELSE "written"
      /\ UNCHANGED <<sizes, spec, how, result>>

\* A VM of another version sends fewer bytes, or more.
Cut(n) ==
  /\ sizes \in CutSizes /\ phase = "written" /\ how = "whole"
  /\ data' = SubSeq(data, 1, n)
  /\ how' = "cut"
  /\ UNCHANGED <<sizes, spec, phase, payload, result>>

Extend ==
  /\ phase = "written" /\ how = "whole"
  /\ data' = Append(data, 0)
  /\ how' = "extended"
  /\ UNCHANGED <<sizes, spec, phase, payload, result>>

IsIdSizesReply ==
  /\ payload.set = VirtualMachineIDSizes.set
  /\ payload.cmd = VirtualMachineIDSizes.cmd
  /\ payload.part = "reply"

\* from_bytes, and from_response of an IDSizes response.
Deserialize ==
  LET read == ReadAll(Layout, data, 0, ReaderSizes)
      adopts == read.ok /\ IsIdSizesReply
      told == FromResponse(read.value)
  IN  /\ phase = "written"
      /\ phase' = "done"
      /\ result' = IF adopts /\ ~Supported(told) THEN Raise ELSE read
      /\ spec' = IF adopts /\ Supported(told) THEN told ELSE spec
      /\ UNCHANGED <<sizes, payload, data, how>>

\* On to the next payload.
Forget ==
  /\ phase = "done"
  /\ phase' = "idle"
  /\ payload' = NoPayload
  /\ data' = <<>>
  /\ how' = "whole"
  /\ result' = Raise
  /\ UNCHANGED <<sizes, spec>>

Next ==
  \/ \E k \in DOMAIN Registry, part \in {"payload", "reply"}, s \in Seeds :
       Serialize(Registry[k], part, s)
  \/ \E n \in 0..(Len(data) - 1) : Cut(n)
  \/ Extend
  \/ Deserialize
  \/ Forget

Spec == Init /\ [][Next]_vars

------------------------------------------------------------------------------
(* Properties                                                               *)

\* Types: this side's id sizes are always ones it has a struct for, and what
\* is on the wire are bytes.
PayloadTypeOK ==
  /\ spec \in [IdKinds -> {4, 8}]
  /\ phase \in {"idle", "written", "done"}
  /\ how \in {"whole", "cut", "extended"}
  /\ phase = "written" => \A k \in DOMAIN data : data[k] \in 0..255
  /\ result.ok => phase = "done" /\ result.offset \in Int

\* The bytes mean the same to both sides: they agree on the sizes of ids, or
\* no id was written.
Agreed ==
  Write(Layout, payload.fields, ReaderSizes)
    = Write(Layout, payload.fields, WriterSizes)

\* The bytes tell all of the fields' values.  The tag of SetValues of
\* ArrayReference is not among them, nor what a single lacks of a float.
AllOnWire == OnWirePayload(Layout, payload.fields)

\* What was written and arrived, trailing bytes or not, is read back: the
\* registry leads to the class that wrote it, every field has its value
\* again, and the reader stops where the writer did.  An id that does not
\* fit, or an unsupported size, is never sent or adopted in part: it raises.
RoundTrip ==
  phase = "done" /\ how # "cut" /\ ~Contains(data, Raised)
    /\ Agreed /\ AllOnWire /\ (IsIdSizesReply => Supported(sizes))
  => /\ result.ok
     /\ result.value = payload.fields
     /\ result.offset = Len(data) - IF how = "extended" THEN 1 ELSE 0

\* A payload that lacks bytes raises, unless what is missing is the end of a
\* string that is its last field: read_string() slices, and the offset then
\* lies behind the data.  Nothing before that string is read differently.
CutOnlyInLastString ==
  how = "cut" /\ result.ok /\ Agreed /\ AllOnWire
  => /\ result.offset > Len(data)
     /\ LosesEndPayload(Layout, payload.fields, result.value, ReaderSizes)

\* Id sizes are the default ones until a response to IDSizes is read, and
\* the VM's from then on: no other payload, and no order of payloads, leaves
\* this side with sizes of another kind of id.
SpecIsDefaultOrVms == spec \in {DefaultSizes, sizes}
==============================================================================
