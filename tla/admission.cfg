SPECIFICATION FairSpec
CONSTANTS
    Unset = Unset
    Absent = Absent
    IPs <- MCIPs
    Within <- MCWithin
    ReservedTags = {"capcs-cluster-c"}
    ClusterName = "n1"
    ClusterSpecs <- MCClusterSpecs
    ClusterEdits <- MCClusterEdits
    MachineSpecs <- MCMachineSpecs
    Catalogs <- MCCatalogs
INVARIANTS AdmittedIsSound StaysWritable TemplatesAreUsable
PROPERTIES MadeFromStays CapacityFollowsFlavor
