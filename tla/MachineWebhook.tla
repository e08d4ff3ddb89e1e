---------------------------- MODULE MachineWebhook ----------------------------
(***************************************************************************)
(* Defaulting and validation of CloudscaleMachine specs                    *)
(* (internal/webhook/v1beta2/cloudscalemachine_validation.go), also used   *)
(* for CloudscaleMachineTemplate. A validation is the predicate "no        *)
(* error".                                                                 *)
(*                                                                         *)
(* A machine spec is a record with the fields image, flavor,               *)
(* rootVolumeSize, serverGroup, providerID, tags (the set of tag keys) and *)
(* interfaces, a sequence of [type, network, family].                      *)
(***************************************************************************)
EXTENDS Catalog

CONSTANT ReservedTags   \* the tag keys with the prefix capcs-

ASSUME MachineDefaultsAssumption == Unset # "public" /\ Unset # "DualStack"

(* The fields of the type, which the schema of the resource enforces.        *)
CloudscaleMachineSpec(spec) ==
    /\ spec = [image |-> spec.image, flavor |-> spec.flavor,
               rootVolumeSize |-> spec.rootVolumeSize, serverGroup |-> spec.serverGroup,
               providerID |-> spec.providerID, tags |-> spec.tags,
               interfaces |-> spec.interfaces]
    /\ spec.interfaces \in Seq({spec.interfaces[i] : i \in DOMAIN spec.interfaces})
    /\ \A i \in DOMAIN spec.interfaces :
          LET interface == spec.interfaces[i] IN
          /\ interface = [type |-> interface.type, network |-> interface.network,
                          family |-> interface.family]
          /\ interface.type \in {Unset, "public"}

-----------------------------------------------------------------------------
defaultInterfaceIPFamily(interfaces) ==
    [i \in DOMAIN interfaces |->
        IF interfaces[i].type = "public" /\ interfaces[i].family = Unset
        THEN [interfaces[i] EXCEPT !.family = "DualStack"]
        ELSE interfaces[i]]

MachineDefault(spec) == [spec EXCEPT !.interfaces = defaultInterfaceIPFamily(@)]

-----------------------------------------------------------------------------
validateTags(tags) == tags \cap ReservedTags = {}

validateInterfaces(interfaces) ==
    /\ \A i \in DOMAIN interfaces :
          /\ (interfaces[i].type = Unset) # (interfaces[i].network = Unset)
          /\ interfaces[i].family # Unset => interfaces[i].type = "public"
    /\ \A i, j \in DOMAIN interfaces :
          interfaces[i].type = "public" /\ interfaces[j].type = "public" => i = j

validateMachineSpec(flavorInfo, spec) ==
    /\ IsValidFlavor(flavorInfo, spec.flavor)
    /\ validateTags(spec.tags)
    /\ validateInterfaces(spec.interfaces)

validateMachineSpecUpdate(new, old) ==
    /\ new.image = old.image
    /\ new.flavor = old.flavor
    /\ new.rootVolumeSize = old.rootVolumeSize
    /\ old.providerID # Unset => new.providerID = old.providerID
    /\ new.interfaces = old.interfaces
    /\ new.serverGroup = old.serverGroup
    /\ validateTags(new.tags)
=============================================================================
