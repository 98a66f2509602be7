SPECIFICATION Spec
CONSTANT Uses <- CopperOnly
PROPERTY PulseSuffices
