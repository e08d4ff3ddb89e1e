------------------------------- MODULE Catalog -------------------------------
(***************************************************************************)
(* The regions and flavors that the provider reads once, when it starts    *)
(* (cmd/main.go, internal/cloudscale/regions.go and flavors.go). A region  *)
(* table is a function from regions to their sequence of zones, a flavor   *)
(* table a function from flavors to their [cpu, memory, gpu].              *)
(***************************************************************************)
EXTENDS Naturals, Sequences

CONSTANT Unset    \* the zero value of Go: "", 0 or nil

-----------------------------------------------------------------------------
(* internal/cloudscale/regions.go                                            *)

(* A zone two regions list belongs to the last one read; zones are assumed   *)
(* to be listed once.                                                        *)
ZoneBelongsToRegion(regionInfo, zone, region) ==
    /\ region \in DOMAIN regionInfo
    /\ \E i \in DOMAIN regionInfo[region] : regionInfo[region][i] = zone

GetDefaultZoneForRegion(regionInfo, region) ==
    IF region \in DOMAIN regionInfo /\ regionInfo[region] # <<>>
    THEN Head(regionInfo[region])
    ELSE Unset

-----------------------------------------------------------------------------
(* internal/cloudscale/flavors.go                                            *)

IsValidFlavor(flavorInfo, flavor) == flavor \in DOMAIN flavorInfo

(* A GPU is listed only if there is one.                                     *)
GetCapacity(flavorInfo, flavor) ==
    {<<"cpu", flavorInfo[flavor].cpu>>, <<"memory", flavorInfo[flavor].memory>>}
        \cup {<<"gpu", n>> : n \in {flavorInfo[flavor].gpu} \ {0}}
=============================================================================
