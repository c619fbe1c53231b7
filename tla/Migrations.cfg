SPECIFICATION Spec
CONSTANT Services <- AllServices
INVARIANTS RerunsConverge MigratedFits
