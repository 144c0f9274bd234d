CONSTANTS
    PlainChar = {"a", "b"}
    Configured <- MCConfigured
    PropertyAt <- MCPropertyAt
    PlainText = {"x"}
    Value = {"v", "nothing"}
    EmptyMap = {"nothing"}
    Template <- MCTemplate
    InList = {"hosts[0]"}
    Attribute = {"region"}
    Document <- MCDocument
SPECIFICATION Spec
INVARIANT ResourceAttributeIsRoutable
