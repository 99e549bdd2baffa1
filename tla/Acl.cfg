\* Documents with up to three groups, whose members change during the check.
SPECIFICATION Spec
CONSTANTS
    Groups = {1, 2, 3}
INVARIANTS VerdictFollowsRule AdmittedWasGranted DenialHolds
