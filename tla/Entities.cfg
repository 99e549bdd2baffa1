\* Two entities, one named ACL, a document for one caller and one for nobody.
SPECIFICATION Spec
CONSTANTS
    a = a
    b = b
    acl = acl
    u = u
    None = None
    Names = {a, b}
    AclNames = {acl}
    Callers = {u}
    Docs = {{u}, {}}
SYMMETRY Alike
INVARIANTS LiveIsKept OnlyLinkedAclAdmits AdmittedByManifest NoStaleRequest
PROPERTY DeletionLeavesNoOrphan
