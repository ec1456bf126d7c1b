CONSTANTS
    n1 = n1
    n2 = n2
    n3 = n3
    n4 = n4
    nlong = nlong
    c1 = c1
    c2 = c2
    cbig = cbig
    NoNameV = NoNameV
    NoContentV = NoContentV
    Names <- MCNames
    Contents <- MCContents
    NameLen <- MCNameLen
    ContentLen <- MCContentLen
    MaxFiles <- MCMaxFiles
    MaxFilename = 32
    MaxFilesize = 4096
    DemoFiles <- MCDemoFiles
    NoName = NoNameV
    NoContent = NoContentV
SPECIFICATION Spec
PROPERTY ImplementsFileMap
